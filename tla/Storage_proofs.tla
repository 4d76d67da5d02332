--------------------------- MODULE Storage_proofs ---------------------------
(***************************************************************************)
(* Proofs about Storage: acknowledged messages survive and are found, for  *)
(* any ring, any messages and any number of faults and joins.              *)
(***************************************************************************)
EXTENDS Storage, FiniteSetTheorems, TLAPS

-----------------------------------------------------------------------------
(* The nearest few of a set                                                *)

\* Every nonempty set of naturals has a least element.
LEMMA LeastNat ==
    ASSUME NEW T \in SUBSET Nat, T # {}
    PROVE  \E x \in T : \A y \in T : x <= y
<1>1. IsWellFoundedOn(OpToRel(<, Nat), Nat)
  BY NatLessThanWellFounded
<1>2. PICK x \in T : \A y \in T : ~(<<y, x>> \in OpToRel(<, Nat))
  BY <1>1, WFMin
<1>3. \A y \in T : ~(y < x)
  BY <1>2 DEF OpToRel
<1> QED BY <1>3

\* The elements of S that fewer than k others precede in the order of f.
First(S, f, k) == {s \in S : Cardinality({t \in S : f[t] < f[s]}) < k}

\* They are all of S, or k at least.
LEMMA FirstEnough ==
    ASSUME NEW S, IsFiniteSet(S), NEW f \in [S -> Nat], NEW k \in Nat
    PROVE  /\ First(S, f, k) \in SUBSET S
           /\ First(S, f, k) = S \/ Cardinality(First(S, f, k)) >= k
<1> DEFINE F == First(S, f, k)
<1>1. F \in SUBSET S
  BY DEF First
<1>2. ASSUME F # S, Cardinality(F) < k PROVE FALSE
  <2> DEFINE D == {f[s] : s \in S \ F}
  <2>1. D \in SUBSET Nat /\ D # {}
    BY <1>1, <1>2
  <2>2. PICK x \in D : \A y \in D : x <= y
    BY <2>1, LeastNat
  <2>3. PICK s \in S \ F : x = f[s]
    BY <2>2
  <2> DEFINE P == {t \in S : f[t] < f[s]}
  <2>4. P \in SUBSET F
    <3> SUFFICES ASSUME NEW t \in P, t \notin F PROVE FALSE
      OBVIOUS
    <3>1. f[t] \in D /\ f[t] \in Nat /\ f[s] \in Nat /\ f[t] < f[s]
      OBVIOUS
    <3> QED BY <2>2, <2>3, <3>1
  <2>5. IsFiniteSet(F) /\ Cardinality(F) \in Nat
    BY <1>1, FS_Subset, FS_CardinalityType
  <2>6. IsFiniteSet(P) /\ Cardinality(P) <= Cardinality(F) /\ Cardinality(P) \in Nat
    <3> HIDE DEF F, P
    <3> QED BY <2>4, <2>5, FS_Subset, FS_CardinalityType
  <2>7. Cardinality(P) < k
    BY <1>2, <2>5, <2>6
  <2>8. s \in F
    BY <2>3, <2>7 DEF First
  <2> QED BY <2>3, <2>8
<1>3. IsFiniteSet(F) /\ Cardinality(F) \in Nat
  BY <1>1, FS_Subset, FS_CardinalityType
<1> QED BY <1>1, <1>2, <1>3

\* A set that k others do not fill has no more than k.
LEMMA FirstAll ==
    ASSUME NEW S, IsFiniteSet(S), NEW f \in [S -> Nat], NEW k \in Nat, Cardinality(S) <= k
    PROVE  First(S, f, k) = S
<1>1. Cardinality(S) \in Nat
  BY FS_CardinalityType
<1>2. CASE Cardinality(First(S, f, k)) >= k
  <2>1. First(S, f, k) \in SUBSET S
    BY FirstEnough
  <2>2. /\ IsFiniteSet(First(S, f, k)) /\ Cardinality(First(S, f, k)) <= Cardinality(S)
        /\ Cardinality(S) = Cardinality(First(S, f, k)) => S = First(S, f, k)
    BY <2>1, FS_Subset
  <2>3. Cardinality(First(S, f, k)) \in Nat
    BY <2>2, FS_CardinalityType
  <2> QED BY <1>1, <1>2, <2>2, <2>3
<1> QED BY <1>2, FirstEnough

LEMMA NodesFinite ==
    ASSUME NEW S \in SUBSET Nodes
    PROVE  IsFiniteSet(S) /\ Cardinality(S) \in Nat
BY NodesAssumption, FS_Subset, FS_CardinalityType

\* The successor list of a ring that it does not hold in full is full itself.
LEMMA SuccessorsEnough ==
    ASSUME NEW S \in SUBSET Nodes, NEW n \in Nodes
    PROVE  /\ Successors(S, n) \in SUBSET (S \ {n})
           /\ \/ Successors(S, n) = S \ {n}
              \/ Cardinality(Successors(S, n)) >= SUCCESSOR_LIST_SIZE
           /\ Cardinality(S \ {n}) <= SUCCESSOR_LIST_SIZE => Successors(S, n) = S \ {n}
<1> DEFINE T == S \ {n}
           f == [s \in T |-> Distance(n, s)]
<1>1. f \in [T -> Nat]
  BY NodesAssumption, PowersOfTwo DEF Distance, Ids
<1>2. IsFiniteSet(T)
  BY NodesFinite
<1>3. Successors(S, n) = First(T, f, SUCCESSOR_LIST_SIZE)
  <2>1. ASSUME NEW s \in T
        PROVE  {m \in T : Distance(n, m) < Distance(n, s)} = {t \in T : f[t] < f[s]}
    OBVIOUS
  <2> QED BY <2>1 DEF Successors, First
<1>4. SUCCESSOR_LIST_SIZE \in Nat
  BY BoundsAssumption
<1> HIDE DEF T, f
<1>5. /\ First(T, f, SUCCESSOR_LIST_SIZE) \in SUBSET T
      /\ \/ First(T, f, SUCCESSOR_LIST_SIZE) = T
         \/ Cardinality(First(T, f, SUCCESSOR_LIST_SIZE)) >= SUCCESSOR_LIST_SIZE
  BY <1>1, <1>2, <1>4, FirstEnough
<1>6. Cardinality(T) <= SUCCESSOR_LIST_SIZE => First(T, f, SUCCESSOR_LIST_SIZE) = T
  BY <1>1, <1>2, <1>4, FirstAll
<1> QED BY <1>3, <1>5, <1>6 DEF T

LEMMA SmallestEnough ==
    ASSUME NEW S \in SUBSET Nodes, NEW k \in Nat
    PROVE  /\ Smallest(S, k) \in SUBSET S
           /\ Smallest(S, k) = S \/ Cardinality(Smallest(S, k)) >= k
           /\ Cardinality(S) <= k => Smallest(S, k) = S
<1> DEFINE f == [s \in S |-> s]
<1>1. f \in [S -> Nat]
  BY NodesAssumption, PowersOfTwo DEF Ids
<1>2. IsFiniteSet(S)
  BY NodesFinite
<1>3. Smallest(S, k) = First(S, f, k)
  <2>1. ASSUME NEW s \in S PROVE {t \in S : t < s} = {t \in S : f[t] < f[s]}
    OBVIOUS
  <2> QED BY <2>1 DEF Smallest, First
<1> HIDE DEF f
<1>4. /\ First(S, f, k) \in SUBSET S
      /\ First(S, f, k) = S \/ Cardinality(First(S, f, k)) >= k
  BY <1>1, <1>2, FirstEnough
<1>5. Cardinality(S) <= k => First(S, f, k) = S
  BY <1>1, <1>2, FirstAll
<1> QED BY <1>3, <1>4, <1>5

(* Types                                                                   *)

Xfers == [pc : {"off", "start", "join", "notify"}, by : Nodes \cup {None},
          left : SUBSET Msgs, cur : Msgs \cup {None}, todo : SUBSET Nodes]
Recs  == [pc : {"off", "range", "ask"}, start : Nodes \cup {None}, todo : SUBSET Nodes]

XferOk(x) == /\ x \in Xfers
             /\ x.cur = None <=> x.todo = {}
             /\ x.pc = "off" => x = NoXfer
RecOk(x)  == x \in Recs /\ (x.pc # "ask" => x.todo = {})

MembersTyped ==
    /\ known \subseteq Nodes /\ up \subseteq known
    /\ succ \in [Nodes -> Nodes]
    /\ list \in [Nodes -> SUBSET Nodes]
    /\ pred \in [Nodes -> Nodes \cup {None}]
SendingTyped ==
    /\ data \in [Nodes -> SUBSET Msgs]
    /\ sent \in [Msgs -> {"new", "stored", "replicating", "acked", "failed"}]
    /\ at \in [Msgs -> Nodes \cup {None}]
    /\ todo \in [Msgs -> SUBSET Nodes]
    /\ goal \in [Msgs -> SUBSET Nodes]
    /\ \A m \in Msgs : at[m] = None <=> sent[m] \notin {"stored", "replicating"}
BudgetsTyped ==
    /\ quota \in Quotas
    /\ crashes \in 0 .. quota.crashes
    /\ joins \in 0 .. quota.joins
    /\ drops \in 0 .. quota.drops
XferTyped == xfer \in [Nodes -> Xfers] /\ \A n \in Nodes : XferOk(xfer[n])
RecTyped  == rec \in [Nodes -> Recs] /\ \A n \in Nodes : RecOk(rec[n])

\* TypeOK by the parts an action may write.
LEMMA TypeParts ==
    TypeOK <=> MembersTyped /\ SendingTyped /\ BudgetsTyped /\ XferTyped /\ RecTyped
BY DEF TypeOK, MembersTyped, SendingTyped, BudgetsTyped, XferTyped, RecTyped, XferOk, RecOk,
       Xfers, Recs

LEMMA TypePartsNext ==
    TypeOK' <=> MembersTyped' /\ SendingTyped' /\ BudgetsTyped' /\ XferTyped' /\ RecTyped'
BY TypeParts, PTL

LEMMA NoneIsNoNode == None \notin Nodes /\ None \notin Msgs
BY NodesAssumption, NoneAssumption

\* A call costs at most one lost call, and needs its target for an answer.
LEMMA CallBudget ==
    ASSUME NEW t, BudgetsTyped, CallOk(t) \/ CallErr(t)
    PROVE  drops' \in 0 .. quota.drops
BY QuotasAssumption DEF QuotasAssumption, BudgetsTyped, CallOk, CallErr

LEMMA NoXferOk == XferOk(NoXfer)
BY NoneIsNoNode DEF XferOk, NoXfer, Xfer, Xfers

LEMMA NoRecOk == RecOk(NoRec)
BY DEF RecOk, NoRec, Recs

LEMMA XferSet ==
    ASSUME XferTyped, NEW n \in Nodes, NEW x, XferOk(x), xfer' = [xfer EXCEPT ![n] = x]
    PROVE  XferTyped'
BY DEF XferTyped, XferOk

LEMMA RecSet ==
    ASSUME RecTyped, NEW n \in Nodes, NEW x, RecOk(x), rec' = [rec EXCEPT ![n] = x]
    PROVE  RecTyped'
BY DEF RecTyped, RecOk

LEMMA InitTyped == Init => TypeOK
<1> SUFFICES ASSUME Init PROVE TypeOK
  OBVIOUS
<1>1. MembersTyped
  <2>1. up \in SUBSET Nodes /\ known = up
    BY QuotasAssumption DEF Init, QuotasAssumption
  <2>2. \A n \in Nodes : Successors(up, n) \in SUBSET Nodes
    BY <2>1 DEF Successors
  <2>3. list = [n \in Nodes |-> IF n \in up /\ up # {n} THEN Successors(up, n) ELSE {n}]
    BY DEF Init
  <2>4. list \in [Nodes -> SUBSET Nodes]
    BY <2>2, <2>3
  <2> QED BY <2>1, <2>4 DEF Init, MembersTyped
<1>2. SendingTyped /\ BudgetsTyped
  BY QuotasAssumption DEF Init, SendingTyped, BudgetsTyped, QuotasAssumption
<1>3. XferTyped
  BY NoXferOk DEF Init, XferTyped, XferOk
<1>4. RecTyped
  BY NoRecOk DEF Init, RecTyped, RecOk
<1> QED BY <1>1, <1>2, <1>3, <1>4, TypeParts

\* What a start, join and notify begin with.
LEMMA BeginOk ==
    ASSUME NEW k \in {"start", "join", "notify"}, NEW b \in Nodes, NEW l \in SUBSET Msgs
    PROVE  XferOk(Xfer(k, b, l))
BY DEF XferOk, Xfer, Xfers

LEMMA DataRangeTyped ==
    ASSUME SendingTyped, NEW n \in Nodes, NEW s, NEW e
    PROVE  DataRange(n, s, e) \in SUBSET Msgs
BY DEF SendingTyped, DataRange

\* c is what update_successor_list follows from n.
ListChain(n, k, c) ==
    /\ c[1] = succ[n]
    /\ \A i \in 1 .. k - 1 : /\ c[i] \in up \ {n}
                             /\ c[i + 1] = succ[c[i]] /\ c[i + 1] # n
    /\ \/ k = SUCCESSOR_LIST_SIZE /\ UNCHANGED drops
       \/ k < SUCCESSOR_LIST_SIZE /\ c[k] = n /\ UNCHANGED drops
       \/ k < SUCCESSOR_LIST_SIZE /\ succ[c[k]] = n /\ CallOk(c[k])
       \/ k < SUCCESSOR_LIST_SIZE /\ c[k] # n /\ CallErr(c[k])
    /\ list' = [list EXCEPT ![n] = {c[i] : i \in 1 .. k}]

LEMMA ListChains ==
    ASSUME NEW n \in Nodes, UpdateSuccessorList(n)
    PROVE  \E k \in 1 .. SUCCESSOR_LIST_SIZE : \E c \in [1 .. k -> Nodes] : ListChain(n, k, c)
BY Zenon DEF UpdateSuccessorList, ListChain

LEMMA CrashTyped ==
    ASSUME TypeOK, NEW n \in Nodes, Crash(n)
    PROVE  TypeOK'
<1>0. MembersTyped /\ SendingTyped /\ BudgetsTyped /\ XferTyped /\ RecTyped
  BY TypeParts
<1>1. MembersTyped'
  BY <1>0 DEF Crash, MembersTyped
<1>2. SendingTyped'
  BY <1>0 DEF Crash, SendingTyped
<1>3. BudgetsTyped'
  <2>1. crashes' = crashes + 1 /\ crashes < quota.crashes /\ UNCHANGED <<quota, joins, drops>>
    BY DEF Crash
  <2> QED BY <1>0, <2>1, QuotasAssumption DEF BudgetsTyped, QuotasAssumption
<1>4. XferTyped'
  <2>1. ASSUME NEW x \in Nodes
        PROVE  /\ XferOk([xfer[x] EXCEPT !.cur = None, !.todo = {}])
               /\ xfer[x].by = n => XferOk([xfer[x] EXCEPT !.left = {}])
    <3>1. XferOk(xfer[x])
      BY <1>0 DEF XferTyped
    <3>2. CASE xfer[x].pc = "off"
      <4>1. xfer[x] = NoXfer
        BY <3>1, <3>2 DEF XferOk
      <4>2. [NoXfer EXCEPT !.cur = None, !.todo = {}] = NoXfer
        <5>1. NoXfer.cur = None /\ NoXfer.todo = {} /\ NoXfer \in Xfers
          BY NoXferOk DEF NoXfer, Xfer, XferOk
        <5> QED BY <5>1, Zenon DEF Xfers
      <4>3. NoXfer.by # n
        BY NoneIsNoNode DEF NoXfer, Xfer
      <4> QED BY <4>1, <4>2, <4>3, NoXferOk
    <3>3. CASE xfer[x].pc # "off"
      BY <3>1, <3>3 DEF XferOk, Xfers
    <3> QED BY <3>2, <3>3
  <2>2. ASSUME NEW x \in Nodes PROVE XferOk(xfer'[x])
    <3>1. \/ xfer'[x] = NoXfer
          \/ xfer[x].by = n /\ xfer'[x] = [xfer[x] EXCEPT !.left = {}]
          \/ xfer'[x] = [xfer[x] EXCEPT !.cur = None, !.todo = {}]
          \/ xfer'[x] = xfer[x]
      BY DEF Crash
    <3> QED BY <1>0, <2>1, <3>1, NoXferOk DEF XferTyped
  <2>3. xfer' = [x \in Nodes |-> xfer'[x]]
    BY DEF Crash
  <2> QED BY <2>2, <2>3 DEF XferTyped, XferOk
<1>5. RecTyped'
  BY <1>0, NoRecOk, RecSet DEF Crash
<1> QED BY <1>1, <1>2, <1>3, <1>4, <1>5, TypePartsNext

LEMMA NextTyped == TypeOK /\ [Next]_vars => TypeOK'
<1> SUFFICES ASSUME TypeOK, [Next]_vars PROVE TypeOK'
  OBVIOUS
<1>0. MembersTyped /\ SendingTyped /\ BudgetsTyped /\ XferTyped /\ RecTyped
  BY TypeParts
<1> USE DEF members, sending, budgets
<1>1. ASSUME NEW m \in Msgs, SendMessage(m) PROVE TypeOK'
  <2>1. SendingTyped'
    <3>1. \/ \E r \in Nodes : /\ data' = [data EXCEPT ![r] = @ \cup {m}]
                              /\ sent' = [sent EXCEPT ![m] = "stored"]
                              /\ at' = [at EXCEPT ![m] = r]
          \/ sent' = [sent EXCEPT ![m] = "failed"] /\ UNCHANGED <<data, at>>
      BY <1>1 DEF SendMessage
    <3>2. sent[m] = "new" /\ UNCHANGED <<todo, goal>>
      BY <1>1 DEF SendMessage
    <3> QED BY <1>0, <3>1, <3>2, NoneIsNoNode DEF SendingTyped
  <2>2. BudgetsTyped'
    BY <1>0, <1>1, CallBudget DEF SendMessage, BudgetsTyped
  <2>3. MembersTyped' /\ XferTyped' /\ RecTyped'
    BY <1>0, <1>1 DEF SendMessage, MembersTyped, XferTyped, RecTyped, XferOk, RecOk
  <2> QED BY <2>1, <2>2, <2>3, TypePartsNext
<1>2. ASSUME NEW m \in Msgs, SelectReplicas(m) PROVE TypeOK'
  <2>0. at[m] \in Nodes
    BY <1>0, <1>2 DEF SelectReplicas, SendingTyped
  <2>1. SendingTyped'
    BY <1>0, <1>2, <2>0 DEF SelectReplicas, SendingTyped
  <2>2. MembersTyped' /\ XferTyped' /\ RecTyped' /\ BudgetsTyped'
    BY <1>0, <1>2 DEF SelectReplicas, MembersTyped, XferTyped, RecTyped, BudgetsTyped, XferOk, RecOk
  <2> QED BY <2>1, <2>2, TypePartsNext
<1>3. ASSUME NEW m \in Msgs, NEW t \in Nodes, Replicate(m, t) PROVE TypeOK'
  <2>1. SendingTyped'
    BY <1>0, <1>3 DEF Replicate, SendingTyped
  <2>2. BudgetsTyped'
    BY <1>0, <1>3, CallBudget DEF Replicate, BudgetsTyped
  <2>3. MembersTyped' /\ XferTyped' /\ RecTyped'
    BY <1>0, <1>3 DEF Replicate, MembersTyped, XferTyped, RecTyped, XferOk, RecOk
  <2> QED BY <2>1, <2>2, <2>3, TypePartsNext
<1>4. ASSUME NEW m \in Msgs, Acknowledge(m) PROVE TypeOK'
  <2>1. SendingTyped'
    BY <1>0, <1>4 DEF Acknowledge, SendingTyped
  <2>2. MembersTyped' /\ XferTyped' /\ RecTyped' /\ BudgetsTyped'
    BY <1>0, <1>4 DEF Acknowledge, MembersTyped, XferTyped, RecTyped, BudgetsTyped, XferOk, RecOk
  <2> QED BY <2>1, <2>2, TypePartsNext
<1>5. ASSUME NEW n \in Nodes, NEW b \in Nodes, NEW s \in Nodes, Join(n, b, s) PROVE TypeOK'
  <2>1. PICK l \in SUBSET Msgs :
           /\ CallOk(s) \/ CallErr(s)
           /\ xfer' = [xfer EXCEPT ![n] = Xfer("join", n, l)]
    BY <1>0, <1>5, DataRangeTyped DEF Join
  <2>2. XferTyped'
    BY <1>0, <2>1, BeginOk, XferSet
  <2>3. BudgetsTyped'
    BY <1>0, <1>5, <2>1, CallBudget DEF Join, BudgetsTyped
  <2>4. MembersTyped' /\ SendingTyped' /\ RecTyped'
    BY <1>0, <1>5 DEF Join, MembersTyped, SendingTyped, RecTyped, RecOk
  <2> QED BY <2>2, <2>3, <2>4, TypePartsNext
<1>5a. ASSUME NEW n \in Nodes, Start(n) PROVE TypeOK'
  <2>1. XferTyped'
    <3>1. xfer' = [xfer EXCEPT ![n] = Xfer("start", n, {})]
      BY <1>5a DEF Start
    <3>2. XferOk(Xfer("start", n, {}))
      BY BeginOk
    <3> QED BY <1>0, <3>1, <3>2, XferSet
  <2>2. BudgetsTyped'
    BY <1>0, <1>5a, QuotasAssumption DEF Start, BudgetsTyped, QuotasAssumption
  <2>3. MembersTyped' /\ SendingTyped' /\ RecTyped'
    BY <1>0, <1>5a DEF Start, MembersTyped, SendingTyped, RecTyped, RecOk
  <2> QED BY <2>1, <2>2, <2>3, TypePartsNext
<1>5b. ASSUME NEW n \in Nodes, NEW b \in Nodes, JoinFails(n, b) PROVE TypeOK'
  <2>1. XferTyped'
    BY <1>0, <1>5b, NoXferOk, XferSet DEF JoinFails
  <2>2. BudgetsTyped'
    BY <1>0, <1>5b, CallBudget DEF JoinFails, BudgetsTyped
  <2>3. MembersTyped' /\ SendingTyped' /\ RecTyped'
    BY <1>0, <1>5b DEF JoinFails, MembersTyped, SendingTyped, RecTyped, RecOk
  <2> QED BY <2>1, <2>2, <2>3, TypePartsNext
<1>6. ASSUME NEW n \in Nodes, NEW s \in Nodes, Notify(n, s) PROVE TypeOK'
  <2>1. XferTyped'
    BY <1>0, <1>6, BeginOk, DataRangeTyped, XferSet DEF Notify
  <2>2. MembersTyped'
    <3>1. pred' = [pred EXCEPT ![s] = n] /\ succ' = [succ EXCEPT ![s] = IF succ[s] = s THEN n ELSE succ[s]]
          /\ UNCHANGED <<up, known, list>>
      BY <1>0, <1>6 DEF Notify, MembersTyped
    <3> QED BY <1>0, <3>1 DEF MembersTyped
  <2>3. SendingTyped' /\ BudgetsTyped' /\ RecTyped'
    BY <1>0, <1>6 DEF Notify, SendingTyped, BudgetsTyped, RecTyped, RecOk
  <2> QED BY <2>1, <2>2, <2>3, TypePartsNext
<1>7. ASSUME NEW n \in Nodes, NEW m \in Msgs, TransferStore(n, m) PROVE TypeOK'
  <2>0. xfer[n].cur = None /\ m \in xfer[n].left
    BY <1>7 DEF TransferStore
  <2>0a. /\ data' = data \/ data' = [data EXCEPT ![n] = @ \cup {m}]
         /\ drops' = drops \/ CallOk(n) \/ CallErr(n)
         /\ UNCHANGED <<members, sending, rec, quota, crashes, joins>>
    BY <1>7, Zenon DEF TransferStore, CallOk
  <2>0b. \/ \E R \in SUBSET Nodes :
                 xfer' = [xfer EXCEPT ![n].left = @ \ {m}, ![n].todo = R,
                                      ![n].cur = IF R = {} THEN None ELSE m]
         \/ xfer' = [xfer EXCEPT ![n].left = @ \ {m}]
    BY <1>7, Zenon DEF TransferStore
  <2>1. /\ xfer[n] \in Xfers /\ xfer[n].todo = {} /\ xfer[n].pc # "off"
        /\ xfer \in [Nodes -> Xfers]
    BY <1>0, <2>0 DEF XferTyped, XferOk, NoXfer, Xfer
  <2>2. XferTyped'
    <3>1. ASSUME NEW R \in SUBSET Nodes, NEW c \in Msgs \cup {None}, c = None <=> R = {}
          PROVE  XferOk([xfer[n] EXCEPT !.left = @ \ {m}, !.todo = R, !.cur = c])
      BY <2>1, <3>1 DEF XferOk, Xfers
    <3>2. CASE \E R \in SUBSET Nodes :
                  xfer' = [xfer EXCEPT ![n].left = @ \ {m}, ![n].todo = R,
                                       ![n].cur = IF R = {} THEN None ELSE m]
      <4>1. PICK R \in SUBSET Nodes :
                  xfer' = [xfer EXCEPT ![n].left = @ \ {m}, ![n].todo = R,
                                       ![n].cur = IF R = {} THEN None ELSE m]
        BY <3>2
      <4>2. PICK c : c = IF R = {} THEN None ELSE m
        OBVIOUS
      <4>3. c \in Msgs \cup {None} /\ (c = None <=> R = {})
        BY <4>2, NoneIsNoNode
      <4>4. xfer' = [xfer EXCEPT ![n] = [xfer[n] EXCEPT !.left = @ \ {m}, !.todo = R, !.cur = c]]
        BY <2>1, <4>1, <4>2 DEF Xfers
      <4>5. XferOk([xfer[n] EXCEPT !.left = @ \ {m}, !.todo = R, !.cur = c])
        BY <3>1, <4>3
      <4> QED BY <1>0, <4>4, <4>5, XferSet
    <3>3. CASE xfer' = [xfer EXCEPT ![n].left = @ \ {m}]
      <4>1. xfer' = [xfer EXCEPT ![n] = [xfer[n] EXCEPT !.left = @ \ {m}]]
        BY <2>1, <3>3 DEF Xfers
      <4>2. XferOk([xfer[n] EXCEPT !.left = @ \ {m}])
        BY <2>0, <2>1 DEF XferOk, Xfers
      <4> QED BY <1>0, <4>1, <4>2, XferSet
    <3> QED BY <2>0b, <3>2, <3>3
  <2>3. SendingTyped'
    BY <1>0, <2>0a DEF SendingTyped
  <2>4. BudgetsTyped'
    BY <1>0, <2>0a, CallBudget DEF BudgetsTyped
  <2>5. MembersTyped' /\ RecTyped'
    BY <1>0, <2>0a DEF MembersTyped, RecTyped, RecOk
  <2> QED BY <2>2, <2>3, <2>4, <2>5, TypePartsNext
<1>8. ASSUME NEW n \in Nodes, NEW t \in Nodes, TransferReplicate(n, t) PROVE TypeOK'
  <2>1. /\ xfer[n].pc # "off" /\ xfer[n] \in Xfers /\ xfer[n].cur \in Msgs
    BY <1>0, <1>8 DEF TransferReplicate, XferTyped, XferOk, Xfers, NoXfer, Xfer
  <2>2. XferTyped'
    <3> DEFINE c == IF xfer[n].todo = {t} THEN None ELSE xfer[n].cur
    <3>1. xfer' = [xfer EXCEPT ![n] = [xfer[n] EXCEPT !.todo = @ \ {t}, !.cur = c]]
      BY <1>0, <1>8, <2>1 DEF TransferReplicate, XferTyped, Xfers
    <3>2. c \in Msgs \cup {None} /\ (c = None <=> xfer[n].todo \ {t} = {})
      BY <1>8, <2>1, NoneIsNoNode DEF TransferReplicate
    <3> HIDE DEF c
    <3>3. XferOk([xfer[n] EXCEPT !.todo = @ \ {t}, !.cur = c])
      BY <2>1, <3>2 DEF XferOk, Xfers
    <3> QED BY <1>0, <3>1, <3>3, XferSet
  <2>3. SendingTyped'
    BY <1>0, <1>8, <2>1 DEF TransferReplicate, SendingTyped
  <2>4. BudgetsTyped'
    BY <1>0, <1>8, CallBudget DEF TransferReplicate, BudgetsTyped
  <2>5. MembersTyped' /\ RecTyped'
    BY <1>0, <1>8 DEF TransferReplicate, MembersTyped, RecTyped, RecOk
  <2> QED BY <2>2, <2>3, <2>4, <2>5, TypePartsNext
<1>9. ASSUME NEW n \in Nodes, TransferDone(n) PROVE TypeOK'
  <2>1. XferTyped'
    BY <1>0, <1>9, NoXferOk, XferSet DEF TransferDone
  <2>2. MembersTyped'
    BY <1>0, <1>9 DEF TransferDone, MembersTyped
  <2>3. SendingTyped' /\ BudgetsTyped' /\ RecTyped'
    BY <1>0, <1>9 DEF TransferDone, SendingTyped, BudgetsTyped, RecTyped, RecOk
  <2> QED BY <2>1, <2>2, <2>3, TypePartsNext
<1>10. ASSUME NEW n \in Nodes, CheckPredecessor(n) PROVE TypeOK'
  <2>1. RecTyped'
    <3>1. RecOk([pc |-> "range", start |-> pred[n], todo |-> {}])
      BY <1>0 DEF MembersTyped, RecOk, Recs
    <3> QED BY <1>0, <1>10, <3>1, RecSet DEF CheckPredecessor
  <2>2. BudgetsTyped'
    BY <1>0, <1>10, CallBudget DEF CheckPredecessor, BudgetsTyped
  <2>3. MembersTyped' /\ SendingTyped' /\ XferTyped'
    BY <1>0, <1>10 DEF CheckPredecessor, MembersTyped, SendingTyped, XferTyped, XferOk
  <2> QED BY <2>1, <2>2, <2>3, TypePartsNext
<1>11. ASSUME NEW n \in Nodes, ReconcileRange(n) PROVE TypeOK'
  <2>1. RecTyped'
    <3>1. PICK F \in SUBSET known :
             rec' = [rec EXCEPT ![n] =
                       [pc |-> "ask", todo |-> RangeNodes(n, F),
                        start |-> IF pred[n] # None THEN pred[n] ELSE rec[n].start]]
      BY <1>0, <1>11 DEF ReconcileRange, RecTyped
    <3> DEFINE x == [pc |-> "ask", todo |-> RangeNodes(n, F),
                     start |-> IF pred[n] # None THEN pred[n] ELSE rec[n].start]
    <3>2. RecOk(x)
      BY <1>0 DEF MembersTyped, RecTyped, RecOk, Recs, RangeNodes
    <3> HIDE DEF x
    <3> QED BY <1>0, <3>1, <3>2, RecSet DEF x
  <2>2. MembersTyped' /\ SendingTyped' /\ XferTyped' /\ BudgetsTyped'
    BY <1>0, <1>11 DEF ReconcileRange, MembersTyped, SendingTyped, XferTyped, XferOk, BudgetsTyped
  <2> QED BY <2>1, <2>2, TypePartsNext
<1>12. ASSUME NEW n \in Nodes, NEW t \in Nodes, ReconcileAsk(n, t) PROVE TypeOK'
  <2>1. RecTyped'
    <3>1. rec' = [rec EXCEPT ![n] = [rec[n] EXCEPT !.todo = @ \ {t}]]
      BY <1>0, <1>12 DEF ReconcileAsk, RecTyped, Recs
    <3>2. RecOk([rec[n] EXCEPT !.todo = @ \ {t}])
      BY <1>0, <1>12 DEF ReconcileAsk, RecTyped, RecOk, Recs
    <3> QED BY <1>0, <3>1, <3>2, RecSet
  <2>2. SendingTyped'
    <3>1. DataRange(t, rec[n].start, n) \in SUBSET Msgs
      BY <1>0, DataRangeTyped
    <3> QED BY <1>0, <1>12, <3>1 DEF ReconcileAsk, SendingTyped
  <2>3. BudgetsTyped'
    BY <1>0, <1>12, CallBudget DEF ReconcileAsk, BudgetsTyped
  <2>4. MembersTyped' /\ XferTyped'
    BY <1>0, <1>12 DEF ReconcileAsk, MembersTyped, XferTyped, XferOk
  <2> QED BY <2>1, <2>2, <2>3, <2>4, TypePartsNext
<1>13. ASSUME NEW n \in Nodes, ReconcileDone(n) PROVE TypeOK'
  <2>1. RecTyped'
    BY <1>0, <1>13, NoRecOk, RecSet DEF ReconcileDone
  <2>2. MembersTyped' /\ SendingTyped' /\ XferTyped' /\ BudgetsTyped'
    BY <1>0, <1>13 DEF ReconcileDone, MembersTyped, SendingTyped, XferTyped, XferOk, BudgetsTyped
  <2> QED BY <2>1, <2>2, TypePartsNext
<1>14. ASSUME NEW n \in Nodes, Adopt(n) PROVE TypeOK'
  <2>1. MembersTyped'
    BY <1>0, <1>14 DEF Adopt, MembersTyped
  <2>2. SendingTyped' /\ XferTyped' /\ RecTyped' /\ BudgetsTyped'
    BY <1>0, <1>14 DEF Adopt, SendingTyped, XferTyped, XferOk, RecTyped, RecOk, BudgetsTyped
  <2> QED BY <2>1, <2>2, TypePartsNext
<1>14a. ASSUME NEW n \in Nodes, NEW c \in Nodes, Failover(n, c) PROVE TypeOK'
  <2>1. MembersTyped'
    BY <1>0, <1>14a DEF Failover, MembersTyped
  <2>2. BudgetsTyped'
    BY <1>0, <1>14a, CallBudget DEF Failover, BudgetsTyped
  <2>3. SendingTyped' /\ XferTyped' /\ RecTyped'
    BY <1>0, <1>14a DEF Failover, SendingTyped, XferTyped, XferOk, RecTyped, RecOk
  <2> QED BY <2>1, <2>2, <2>3, TypePartsNext
<1>14b. ASSUME NEW n \in Nodes, UpdateSuccessorList(n) PROVE TypeOK'
  <2>1. PICK k \in 1 .. SUCCESSOR_LIST_SIZE : \E c \in [1 .. k -> Nodes] : ListChain(n, k, c)
    BY <1>14b, ListChains
  <2>2. PICK c \in [1 .. k -> Nodes] : ListChain(n, k, c)
    BY <2>1
  <2>3. /\ list' = [list EXCEPT ![n] = {c[i] : i \in 1 .. k}]
        /\ drops' = drops \/ CallOk(c[k]) \/ CallErr(c[k])
    BY <2>2 DEF ListChain
  <2>4. {c[i] : i \in 1 .. k} \in SUBSET Nodes
    OBVIOUS
  <2>5. UNCHANGED <<up, known, succ, pred, data, sending, xfer, rec, quota, crashes, joins>>
    BY <1>14b DEF UpdateSuccessorList
  <2>6. MembersTyped'
    BY <1>0, <2>3, <2>4, <2>5 DEF MembersTyped
  <2>7. BudgetsTyped'
    BY <1>0, <2>3, <2>5, CallBudget DEF BudgetsTyped
  <2>8. SendingTyped' /\ XferTyped' /\ RecTyped'
    BY <1>0, <2>5 DEF SendingTyped, XferTyped, XferOk, RecTyped, RecOk
  <2> QED BY <2>6, <2>7, <2>8, TypePartsNext
<1>15. CASE UNCHANGED vars
  BY <1>0, <1>15, TypePartsNext
     DEF vars, MembersTyped, SendingTyped, BudgetsTyped, XferTyped, RecTyped, XferOk, RecOk
<1> QED
  BY <1>1, <1>2, <1>3, <1>4, <1>5, <1>5a, <1>5b, <1>6, <1>7, <1>8, <1>9, <1>10, <1>11,
     <1>12, <1>13, <1>14, <1>14a, <1>14b, <1>15, CrashTyped
  DEF Next

\* Sends, transfers, reconciliations, joins and crashes in any order keep the
\* state of the data layer typed: a transfer that is replicating knows its
\* message, and one that is over leaves nothing behind.
THEOREM TypeCorrect == Spec => []TypeOK
BY InitTyped, NextTyped, PTL DEF Spec

-----------------------------------------------------------------------------
(* Steps by what they leave alone                                          *)

\* Nobody's start or transfer begins or ends.
SameRoles ==
    \A x \in Nodes : xfer'[x].pc = xfer[x].pc /\ xfer'[x].by = xfer[x].by

\* Sending, transferring and reconciling leave the pointers alone.
Quiet == UNCHANGED <<members, crashes, joins>> /\ SameRoles

LEMMA StoreRoles ==
    ASSUME xfer \in [Nodes -> Xfers], NEW n \in Nodes, NEW m \in Msgs, TransferStore(n, m)
    PROVE  SameRoles
<1>1. CASE xfer' = [xfer EXCEPT ![n].left = @ \ {m}]
  BY <1>1 DEF Xfers, SameRoles
<1>2. ASSUME NEW R, NEW c, xfer' = [xfer EXCEPT ![n].left = @ \ {m}, ![n].todo = R, ![n].cur = c]
      PROVE  SameRoles
  BY <1>2 DEF Xfers, SameRoles
<1>3. \/ \E R \in SUBSET Nodes :
            xfer' = [xfer EXCEPT ![n].left = @ \ {m}, ![n].todo = R,
                                 ![n].cur = IF R = {} THEN None ELSE m]
      \/ xfer' = [xfer EXCEPT ![n].left = @ \ {m}]
  BY Zenon DEF TransferStore
<1> QED BY <1>1, <1>2, <1>3

LEMMA XferType == TypeOK => xfer \in [Nodes -> Xfers] /\ rec \in [Nodes -> Recs]
BY DEF TypeOK, Xfers, Recs

LEMMA StepKinds ==
    ASSUME TypeOK, [Next]_vars
    PROVE  \/ Quiet
           \/ \E n \in Nodes : \/ Start(n) \/ TransferDone(n) \/ CheckPredecessor(n)
                               \/ Adopt(n) \/ UpdateSuccessorList(n) \/ Crash(n)
                               \/ \E t \in Nodes : \/ JoinFails(n, t) \/ Notify(n, t)
                                                   \/ Failover(n, t)
                                                   \/ \E s \in Nodes : Join(n, t, s)
<1> USE DEF budgets
<1>0. xfer \in [Nodes -> Xfers]
  BY XferType
<1>1. ASSUME NEW m \in Msgs, SendMessage(m) \/ SelectReplicas(m) \/ Acknowledge(m) PROVE Quiet
  <2>1. UNCHANGED <<members, crashes, joins, xfer>>
    BY <1>1 DEF SendMessage, SelectReplicas, Acknowledge
  <2> QED BY <2>1 DEF Quiet, SameRoles
<1>2. ASSUME NEW m \in Msgs, NEW t \in Nodes, Replicate(m, t) PROVE Quiet
  BY <1>2 DEF Replicate, Quiet, SameRoles
<1>3. ASSUME NEW n \in Nodes, NEW m \in Msgs, TransferStore(n, m) PROVE Quiet
  <2>1. UNCHANGED <<members, crashes, joins>>
    BY <1>3 DEF TransferStore
  <2> QED BY <1>0, <1>3, <2>1, StoreRoles DEF Quiet
<1>4. ASSUME NEW n \in Nodes, NEW t \in Nodes, TransferReplicate(n, t) PROVE Quiet
  <2>1. UNCHANGED <<members, crashes, joins>>
    BY <1>4 DEF TransferReplicate
  <2>2. SameRoles
    BY <1>0, <1>4 DEF TransferReplicate, Xfers, SameRoles
  <2> QED BY <2>1, <2>2 DEF Quiet
<1>5. ASSUME NEW n \in Nodes, ReconcileRange(n) \/ ReconcileDone(n) PROVE Quiet
  BY <1>5 DEF ReconcileRange, ReconcileDone, Quiet, SameRoles
<1>6. ASSUME NEW n \in Nodes, NEW t \in Nodes, ReconcileAsk(n, t) PROVE Quiet
  BY <1>6 DEF ReconcileAsk, Quiet, SameRoles
<1>7. CASE UNCHANGED vars
  BY <1>7 DEF vars, members, Quiet, SameRoles
<1> QED BY <1>1, <1>2, <1>3, <1>4, <1>5, <1>6, <1>7 DEF Next

\* A crash ends the start of the node that stops, and no other role.
LEMMA CrashRoles ==
    ASSUME TypeOK, NEW n \in Nodes, Crash(n), NEW x \in Nodes
    PROVE  \/ x = n /\ xfer[x].by = n /\ xfer'[x] = NoXfer
           \/ /\ xfer'[x].pc = xfer[x].pc /\ xfer'[x].by = xfer[x].by
              /\ x = n => xfer[x].by # n
<1>1. xfer[x] \in Xfers
  BY XferType
<1>2. \/ x = n /\ xfer[x].by = n /\ xfer'[x] = NoXfer
      \/ x # n /\ xfer'[x] = [xfer[x] EXCEPT !.left = {}]
      \/ xfer[x].by # n /\ xfer'[x] = [xfer[x] EXCEPT !.cur = None, !.todo = {}]
      \/ x # n /\ xfer'[x] = xfer[x]
  BY DEF Crash
<1>3. /\ [xfer[x] EXCEPT !.left = {}].pc = xfer[x].pc
      /\ [xfer[x] EXCEPT !.left = {}].by = xfer[x].by
      /\ [xfer[x] EXCEPT !.cur = None, !.todo = {}].pc = xfer[x].pc
      /\ [xfer[x] EXCEPT !.cur = None, !.todo = {}].by = xfer[x].by
  BY <1>1 DEF Xfers
<1> QED BY <1>2, <1>3

-----------------------------------------------------------------------------
(* Who is named, who runs, and how many are gone                           *)

\* A node that is starting gives itself what it asked for.
RolesInv == \A n \in Nodes : xfer[n].by = n <=> xfer[n].pc \in {"start", "join"}

LEMMA NextRoles == TypeOK /\ RolesInv /\ [Next]_vars => RolesInv'
<1> SUFFICES ASSUME TypeOK, RolesInv, [Next]_vars PROVE RolesInv'
  OBVIOUS
<1> USE DEF RolesInv
<1>0. xfer \in [Nodes -> Xfers] /\ None \notin Nodes
  BY XferType, NoneIsNoNode
<1>1. CASE Quiet
  BY <1>1 DEF Quiet, SameRoles
<1>2. ASSUME UNCHANGED xfer PROVE RolesInv'
  BY <1>2
<1>3. ASSUME NEW n \in Nodes, Crash(n) PROVE RolesInv'
  <2>1. ASSUME NEW x \in Nodes PROVE xfer'[x].by = x <=> xfer'[x].pc \in {"start", "join"}
    BY <1>0, <1>3, CrashRoles DEF NoXfer, Xfer
  <2> QED BY <2>1
<1>4. ASSUME NEW n \in Nodes, NEW x, xfer' = [xfer EXCEPT ![n] = x],
             x.by = n <=> x.pc \in {"start", "join"}
      PROVE  RolesInv'
  BY <1>0, <1>4
<1>5. ASSUME NEW n \in Nodes, TransferDone(n) \/ \E b \in Nodes : JoinFails(n, b) PROVE RolesInv'
  <2>1. xfer' = [xfer EXCEPT ![n] = NoXfer]
    BY <1>5 DEF TransferDone, JoinFails
  <2> QED BY <1>0, <1>4, <2>1 DEF NoXfer, Xfer
<1>6. ASSUME NEW n \in Nodes, Start(n) PROVE RolesInv'
  <2>1. xfer' = [xfer EXCEPT ![n] = Xfer("start", n, {})]
    BY <1>6 DEF Start
  <2> QED BY <1>4, <2>1 DEF Xfer
<1>7. ASSUME NEW n \in Nodes, NEW b \in Nodes, NEW s \in Nodes, Join(n, b, s) PROVE RolesInv'
  <2>1. \E l : xfer' = [xfer EXCEPT ![n] = Xfer("join", n, l)]
    BY <1>7 DEF Join
  <2> QED BY <1>4, <2>1 DEF Xfer
<1>8. ASSUME NEW n \in Nodes, NEW s \in Nodes, Notify(n, s) PROVE RolesInv'
  <2>1. s # n /\ \E l : xfer' = [xfer EXCEPT ![n] = Xfer("notify", s, l)]
    BY <1>8 DEF Notify
  <2> QED BY <1>4, <2>1 DEF Xfer
<1>9. ASSUME NEW n \in Nodes, \/ CheckPredecessor(n) \/ Adopt(n) \/ UpdateSuccessorList(n)
                              \/ \E t \in Nodes : Failover(n, t)
      PROVE  UNCHANGED xfer
  BY <1>9 DEF CheckPredecessor, Adopt, UpdateSuccessorList, Failover
<1> QED BY <1>1, <1>2, <1>3, <1>5, <1>6, <1>7, <1>8, <1>9, StepKinds

\* Pointers name nodes that served, except that a node may only know itself.
PointersInv ==
    \A n \in Nodes : /\ succ[n] \in known \cup {n}
                     /\ list[n] \subseteq known \cup {n}
                     /\ pred[n] \in known \cup {None}
                     /\ xfer[n].pc = "join" => succ[n] \in known

\* Nodes stop serving by crashing, and only joins start processes.
CountsInv ==
    /\ Cardinality(known \ up) <= crashes
    /\ joins = 0 => \A n \in Nodes : xfer[n].pc \notin {"start", "join"}

\* While nobody joins, no node of a ring of several ends up alone.
PairInv ==
    joins = 0 => \A n \in up : known # {n} => succ[n] # n /\ list[n] \ {n} # {}

LEMMA FindsKnown ==
    ASSUME TypeOK, PointersInv, NEW id, NEW r, FindSuccessor(id, r)
    PROVE  r \in known
<1>1. up \subseteq known /\ known \subseteq Nodes
  BY DEF TypeOK
<1>2. \A p \in up : succ[p] \in known
  BY <1>1 DEF PointersInv
<1>3. \A p \in Nodes : xfer[p].pc = "join" => succ[p] \in known
  BY DEF PointersInv
<1> QED BY <1>1, <1>2, <1>3 DEF FindSuccessor

\* What update_successor_list follows are nodes that served.
LEMMA ChainKnown ==
    ASSUME TypeOK, PointersInv, NEW n \in up, NEW k \in 1 .. SUCCESSOR_LIST_SIZE,
           NEW c \in [1 .. k -> Nodes], ListChain(n, k, c)
    PROVE  {c[i] : i \in 1 .. k} \subseteq known
<1>0. SUCCESSOR_LIST_SIZE \in Nat /\ k \in Nat
  BY BoundsAssumption DEF BoundsAssumption
<1>1. up \subseteq known /\ known \subseteq Nodes
  BY DEF TypeOK
<1>2. \A p \in up : succ[p] \in known
  BY <1>1 DEF PointersInv
<1>3. ASSUME NEW i \in 1 .. k PROVE c[i] \in known
  <2>1. CASE i = 1
    BY <1>2, <2>1 DEF ListChain
  <2>2. CASE i # 1
    <3>1. PICK j \in 1 .. k - 1 : i = j + 1
      BY <1>0, <2>2
    <3>2. c[j] \in up /\ c[j + 1] = succ[c[j]]
      BY <3>1 DEF ListChain
    <3> QED BY <1>2, <3>1, <3>2
  <2> QED BY <2>1, <2>2
<1> QED BY <1>3

LEMMA InitPointers == Init => RolesInv /\ PointersInv /\ CountsInv /\ PairInv
<1> SUFFICES ASSUME Init PROVE RolesInv /\ PointersInv /\ CountsInv /\ PairInv
  OBVIOUS
<1>0. up \in SUBSET Nodes /\ known = up /\ xfer = [n \in Nodes |-> NoXfer]
  BY QuotasAssumption DEF Init, QuotasAssumption
<1>1. ASSUME NEW n \in Nodes
      PROVE  /\ Successors(up, n) \in SUBSET (up \ {n})
             /\ up \ {n} # {} => Successors(up, n) # {}
  <2>1. /\ Successors(up, n) \in SUBSET (up \ {n})
        /\ \/ Successors(up, n) = up \ {n}
           \/ Cardinality(Successors(up, n)) >= SUCCESSOR_LIST_SIZE
    BY <1>0, SuccessorsEnough
  <2>2. Cardinality({}) = 0
    BY FS_EmptySet
  <2>3. SUCCESSOR_LIST_SIZE \in Nat \ {0}
    BY BoundsAssumption DEF BoundsAssumption
  <2>4. Successors(up, n) = {} => ~(Cardinality(Successors(up, n)) >= SUCCESSOR_LIST_SIZE)
    BY <2>2, <2>3
  <2> QED BY <2>1, <2>4
<1>2. ASSUME NEW n \in Nodes
      PROVE  /\ list[n] = IF n \in up /\ up # {n} THEN Successors(up, n) ELSE {n}
             /\ IF n \in up /\ up # {n}
                THEN After(up, n, succ[n]) /\ pred[n] \in up
                ELSE succ[n] = n /\ pred[n] = None
             /\ xfer[n].pc = "off"
  BY <1>0 DEF Init, NoXfer, Xfer
<1>3. ASSUME NEW n \in Nodes
      PROVE  /\ succ[n] \in known \cup {n} /\ pred[n] \in known \cup {None}
             /\ list[n] \subseteq known \cup {n}
             /\ (n \in up /\ up # {n}) => succ[n] # n /\ list[n] \ {n} # {}
  <2>1. CASE n \in up /\ up # {n}
    <3>1. After(up, n, succ[n]) /\ pred[n] \in up /\ list[n] = Successors(up, n)
      BY <1>2, <2>1
    <3>2. succ[n] \in up \ {n}
      BY <3>1 DEF After
    <3>3. list[n] \in SUBSET (up \ {n}) /\ list[n] # {}
      BY <1>0, <1>1, <2>1, <3>1
    <3> QED BY <1>0, <3>1, <3>2, <3>3
  <2>2. CASE ~(n \in up /\ up # {n})
    BY <1>0, <1>2, <2>2
  <2> QED BY <2>1, <2>2
<1>3a. RolesInv
  BY <1>0, NoneIsNoNode DEF RolesInv, NoXfer, Xfer
<1>4. PointersInv
  BY <1>2, <1>3 DEF PointersInv
<1>5. CountsInv
  <2>1. known \ up = {} /\ crashes = 0
    BY <1>0 DEF Init
  <2>2. Cardinality(known \ up) <= crashes
    BY <2>1, FS_EmptySet
  <2> QED BY <1>2, <2>2 DEF CountsInv
<1>6. PairInv
  BY <1>0, <1>3 DEF PairInv
<1> QED BY <1>3a, <1>4, <1>5, <1>6

LEMMA NextPointers == TypeOK /\ RolesInv /\ PointersInv /\ [Next]_vars => PointersInv'
<1> SUFFICES ASSUME TypeOK, RolesInv, PointersInv, [Next]_vars PROVE PointersInv'
  OBVIOUS
<1> USE DEF PointersInv
<1>0. /\ up \subseteq known /\ known \subseteq Nodes /\ succ \in [Nodes -> Nodes]
      /\ list \in [Nodes -> SUBSET Nodes] /\ pred \in [Nodes -> Nodes \cup {None}]
      /\ xfer \in [Nodes -> Xfers]
  BY XferType DEF TypeOK
<1>1. CASE Quiet
  BY <1>1 DEF Quiet, SameRoles, members
<1>2. ASSUME NEW n \in Nodes, Start(n) PROVE PointersInv'
  BY <1>0, <1>2 DEF Start, members, Xfer
<1>3. ASSUME NEW n \in Nodes, TransferDone(n) PROVE PointersInv'
  <2>1. /\ known \subseteq known' /\ UNCHANGED <<succ, list, pred>>
        /\ xfer' = [xfer EXCEPT ![n] = NoXfer]
    BY <1>3 DEF TransferDone
  <2> QED BY <1>0, <2>1 DEF NoXfer, Xfer
<1>4. ASSUME NEW n \in Nodes, CheckPredecessor(n) PROVE PointersInv'
  BY <1>0, <1>4 DEF CheckPredecessor
<1>5. ASSUME NEW n \in Nodes, Adopt(n) PROVE PointersInv'
  <2>1. /\ pred[succ[n]] \in known /\ succ' = [succ EXCEPT ![n] = pred[succ[n]]]
        /\ UNCHANGED <<known, list, pred, xfer>>
    BY <1>0, <1>5 DEF Adopt
  <2> QED BY <1>0, <2>1
<1>6. ASSUME NEW n \in Nodes, UpdateSuccessorList(n) PROVE PointersInv'
  <2>0. n \in up /\ UNCHANGED <<known, succ, pred, xfer>>
    BY <1>6 DEF UpdateSuccessorList
  <2>1. PICK k \in 1 .. SUCCESSOR_LIST_SIZE : \E c \in [1 .. k -> Nodes] : ListChain(n, k, c)
    BY <1>6, ListChains
  <2>2. PICK c \in [1 .. k -> Nodes] : ListChain(n, k, c)
    BY <2>1
  <2>3. PICK L : L = {c[i] : i \in 1 .. k}
    OBVIOUS
  <2>4. L \subseteq known /\ list' = [list EXCEPT ![n] = L]
    <3>1. {c[i] : i \in 1 .. k} \subseteq known
      BY <2>0, <2>2, ChainKnown
    <3>2. list' = [list EXCEPT ![n] = {c[i] : i \in 1 .. k}]
      BY <2>2 DEF ListChain
    <3> QED BY <2>3, <3>1, <3>2
  <2> QED BY <1>0, <2>0, <2>4
<1>7. ASSUME NEW n \in Nodes, Crash(n) PROVE PointersInv'
  <2>1. /\ succ' = [succ EXCEPT ![n] = n] /\ list' = [list EXCEPT ![n] = {n}]
        /\ pred' = [pred EXCEPT ![n] = None] /\ known' = known
    BY <1>7 DEF Crash
  <2>2. ASSUME NEW x \in Nodes, xfer'[x].pc = "join" PROVE xfer[x].pc = "join"
    BY <1>7, <2>2, CrashRoles DEF NoXfer, Xfer
  <2>3. ASSUME NEW x \in Nodes, xfer'[x].pc = "join" PROVE succ'[x] \in known
    <3>1. x # n
      <4>1. ASSUME x = n PROVE FALSE
        <5>1. xfer[n].by # n
          BY <1>7, <2>3, <4>1, CrashRoles DEF NoXfer, Xfer
        <5>2. xfer[n].pc = "join"
          BY <2>2, <2>3, <4>1
        <5> QED BY <5>1, <5>2 DEF RolesInv
      <4> QED BY <4>1
    <3> QED BY <1>0, <2>1, <2>2, <2>3, <3>1
  <2>4. ASSUME NEW x \in Nodes
        PROVE  /\ succ'[x] \in known \cup {x} /\ list'[x] \subseteq known \cup {x}
               /\ pred'[x] \in known \cup {None}
    BY <1>0, <2>1
  <2> QED BY <2>1, <2>3, <2>4
<1>8. ASSUME NEW n \in Nodes, NEW b \in Nodes, JoinFails(n, b) PROVE PointersInv'
  <2>1. /\ known \subseteq known' /\ UNCHANGED <<succ, list, pred>>
        /\ xfer' = [xfer EXCEPT ![n] = NoXfer]
    BY <1>8 DEF JoinFails
  <2> QED BY <1>0, <2>1 DEF NoXfer, Xfer
<1>9. ASSUME NEW n \in Nodes, NEW s \in Nodes, Notify(n, s) PROVE PointersInv'
  <2>1. /\ n \in known /\ UNCHANGED <<known, list>> /\ pred' = [pred EXCEPT ![s] = n]
        /\ succ' = [succ EXCEPT ![s] = IF succ[s] = s THEN n ELSE succ[s]]
        /\ xfer' = [xfer EXCEPT ![n] = Xfer("notify", s, DataRange(s, n, s))]
        /\ xfer[n].pc = "off"
    BY <1>0, <1>9 DEF Notify
  <2>2. ASSUME NEW x \in Nodes, xfer'[x].pc = "join" PROVE xfer[x].pc = "join"
    BY <1>0, <2>1, <2>2 DEF Xfer
  <2>3. ASSUME NEW x \in Nodes
        PROVE  succ'[x] \in {succ[x], n} /\ pred'[x] \in {pred[x], n}
    BY <1>0, <2>1
  <2> QED BY <2>1, <2>2, <2>3
<1>10. ASSUME NEW n \in Nodes, NEW c \in Nodes, Failover(n, c) PROVE PointersInv'
  BY <1>0, <1>10 DEF Failover
<1>11. ASSUME NEW n \in Nodes, NEW b \in Nodes, NEW s \in Nodes, Join(n, b, s)
       PROVE  PointersInv'
  <2>1. s \in known
    BY <1>11, FindsKnown DEF Join
  <2>2. /\ UNCHANGED <<known, list, pred>> /\ succ' = [succ EXCEPT ![n] = s]
        /\ \E x \in {xfer'[n]} : xfer' = [xfer EXCEPT ![n] = x]
    BY <1>0, <1>11 DEF Join
  <2> QED BY <1>0, <2>1, <2>2
<1> QED
  BY <1>1, <1>2, <1>3, <1>4, <1>5, <1>6, <1>7, <1>8, <1>9, <1>10, <1>11, StepKinds

\* A step takes at most the node that crashes from those that serve, and while
\* nobody joins nobody is added.
LEMMA Serving ==
    ASSUME TypeOK, CountsInv, [Next]_vars
    PROVE  /\ joins' = 0 =>
                 /\ joins = 0 /\ known' = known
                 /\ \A x \in Nodes : xfer'[x].pc \notin {"start", "join"}
           /\ known \subseteq known'
           /\ \/ up \subseteq up' /\ known' \ up' \subseteq known \ up /\ crashes' = crashes
                 /\ (joins' = 0 => up' = up)
              \/ \E n \in Nodes : Crash(n)
<1> DEFINE NoStart == \A x \in Nodes : xfer'[x].pc \notin {"start", "join"}
           Kept    == UNCHANGED <<up, known, crashes>>
<1>0. xfer \in [Nodes -> Xfers] /\ joins \in Nat
  BY XferType DEF TypeOK
<1>1. joins = 0 => \A x \in Nodes : xfer[x].pc \notin {"start", "join"}
  BY DEF CountsInv
<1>2. CASE Quiet
  BY <1>1, <1>2 DEF Quiet, SameRoles, members
<1>3. ASSUME NEW n \in Nodes, Start(n) PROVE joins' # 0 /\ Kept
  BY <1>0, <1>3 DEF Start, members
<1>4. ASSUME NEW n \in Nodes, NEW b \in Nodes, NEW s \in Nodes, Join(n, b, s)
      PROVE  joins # 0 /\ joins' = joins /\ Kept
  BY <1>1, <1>4 DEF Join
<1>5. ASSUME NEW n \in Nodes, NEW b \in Nodes, JoinFails(n, b)
      PROVE  /\ joins # 0 /\ joins' = joins /\ crashes' = crashes
             /\ up' = up \cup {n} /\ known' = known \cup {n}
  BY <1>1, <1>5 DEF JoinFails
<1>6. ASSUME NEW n \in Nodes, TransferDone(n)
      PROVE  /\ joins' = joins /\ crashes' = crashes
             /\ joins = 0 => NoStart
             /\ \/ UNCHANGED <<up, known>>
                \/ joins # 0 /\ up' = up \cup {n} /\ known' = known \cup {n}
  <2>1. joins' = joins /\ crashes' = crashes /\ xfer' = [xfer EXCEPT ![n] = NoXfer]
    BY <1>6 DEF TransferDone, budgets
  <2>2. joins = 0 => NoStart
    BY <1>0, <1>1, <2>1 DEF NoXfer, Xfer
  <2>3. CASE xfer[n].pc = "join"
    BY <1>1, <1>6, <2>1, <2>2, <2>3 DEF TransferDone
  <2>4. CASE xfer[n].pc # "join"
    BY <1>6, <2>1, <2>2, <2>4 DEF TransferDone
  <2> QED BY <2>3, <2>4
<1>7. ASSUME NEW n \in Nodes, NEW s \in Nodes, Notify(n, s)
      PROVE  joins' = joins /\ Kept /\ (joins = 0 => NoStart)
  <2>1. /\ joins' = joins /\ Kept
        /\ xfer' = [xfer EXCEPT ![n] = Xfer("notify", s, DataRange(s, n, s))]
    BY <1>7 DEF Notify, budgets
  <2> QED BY <1>0, <1>1, <2>1 DEF Xfer
<1>8. ASSUME NEW n \in Nodes, \/ CheckPredecessor(n) \/ Adopt(n) \/ UpdateSuccessorList(n)
                              \/ \E t \in Nodes : Failover(n, t)
      PROVE  joins' = joins /\ Kept /\ (joins = 0 => NoStart)
  <2>1. joins' = joins /\ Kept /\ xfer' = xfer
    BY <1>8 DEF CheckPredecessor, Adopt, UpdateSuccessorList, Failover, budgets
  <2> QED BY <1>1, <2>1
<1>9. ASSUME NEW n \in Nodes, Crash(n)
      PROVE  joins' = joins /\ known' = known /\ (joins = 0 => NoStart)
  <2>1. joins' = joins /\ known' = known
    BY <1>9 DEF Crash
  <2>2. ASSUME joins = 0, NEW x \in Nodes PROVE xfer'[x].pc \notin {"start", "join"}
    BY <1>1, <1>9, <2>2, CrashRoles DEF NoXfer, Xfer
  <2> QED BY <2>1, <2>2
<1> QED BY <1>2, <1>3, <1>4, <1>5, <1>6, <1>7, <1>8, <1>9, StepKinds

\* One more or less of a finite set.
LEMMA CardLess ==
    ASSUME NEW A \in SUBSET Nodes, NEW B \in SUBSET Nodes, NEW t, A \ {t} \subseteq B
    PROVE  /\ Cardinality(A) \in Nat /\ Cardinality(B) \in Nat
           /\ Cardinality(A) <= Cardinality(B) + 1
           /\ A \subseteq B => Cardinality(A) <= Cardinality(B)
<1>1. /\ IsFiniteSet(A) /\ Cardinality(A) \in Nat /\ IsFiniteSet(B) /\ Cardinality(B) \in Nat
  BY NodesFinite
<1>2. /\ IsFiniteSet(B \cup {t}) /\ Cardinality(B \cup {t}) <= Cardinality(B) + 1
      /\ Cardinality(B \cup {t}) \in Nat
  BY <1>1, FS_AddElement
<1>3. A \in SUBSET (B \cup {t})
  OBVIOUS
<1>4. Cardinality(A) <= Cardinality(B \cup {t})
  BY <1>2, <1>3, FS_Subset
<1>5. ASSUME A \subseteq B PROVE Cardinality(A) <= Cardinality(B)
  BY <1>1, <1>5, FS_Subset
<1> QED BY <1>1, <1>2, <1>4, <1>5

LEMMA NextCounts == TypeOK /\ TypeOK' /\ CountsInv /\ [Next]_vars => CountsInv'
<1> SUFFICES ASSUME TypeOK, TypeOK', CountsInv, [Next]_vars PROVE CountsInv'
  OBVIOUS
<1>1. joins' = 0 => \A x \in Nodes : xfer'[x].pc \notin {"start", "join"}
  BY Serving
<1>2. PICK A, B : A = known' \ up' /\ B = known \ up
  OBVIOUS
<1>3. A \in SUBSET Nodes /\ B \in SUBSET Nodes /\ crashes \in Nat /\ Cardinality(B) <= crashes
  BY <1>2 DEF TypeOK, CountsInv
<1>4. CASE known' \ up' \subseteq known \ up /\ crashes' = crashes
  <2>1. A \subseteq B
    BY <1>2, <1>4
  <2>2. Cardinality(A) \in Nat /\ Cardinality(B) \in Nat /\ Cardinality(A) <= Cardinality(B)
    BY <1>3, <2>1, CardLess
  <2> QED BY <1>1, <1>2, <1>3, <1>4, <2>2 DEF CountsInv
<1>5. ASSUME NEW n \in Nodes, Crash(n) PROVE CountsInv'
  <2>1. crashes' = crashes + 1 /\ known' = known /\ up' = up \ {n}
    BY <1>5 DEF Crash
  <2>2. A \ {n} \subseteq B
    BY <1>2, <2>1
  <2>3. /\ Cardinality(A) \in Nat /\ Cardinality(B) \in Nat
        /\ Cardinality(A) <= Cardinality(B) + 1
    BY <1>3, <2>2, CardLess
  <2> QED BY <1>1, <1>2, <1>3, <2>1, <2>3 DEF CountsInv
<1> QED BY <1>4, <1>5, Serving

\* No node lies between itself and another.
LEMMA NotBetween ==
    ASSUME NEW n \in Ids, NEW s \in Ids, is_between(n, n, s)
    PROVE  FALSE
BY PowersOfTwo DEF is_between, Ids

LEMMA NextPair ==
    TypeOK /\ TypeOK' /\ PointersInv /\ CountsInv /\ PairInv /\ [Next]_vars => PairInv'
<1> SUFFICES ASSUME TypeOK, TypeOK', PointersInv, CountsInv, PairInv, [Next]_vars, joins' = 0
             PROVE  PairInv'
  BY DEF PairInv
<1>0. /\ up \subseteq known /\ known \subseteq Nodes /\ succ \in [Nodes -> Nodes]
      /\ list \in [Nodes -> SUBSET Nodes] /\ Nodes \subseteq Ids
      /\ up' \subseteq up /\ known' = known /\ joins = 0
      /\ pred \in [Nodes -> Nodes \cup {None}]
  <2>1. joins = 0 /\ known' = known
    BY Serving
  <2>2. \/ up' = up
        \/ \E n \in Nodes : Crash(n)
    BY Serving
  <2>3. up' \subseteq up
    BY <2>2 DEF Crash
  <2> QED BY <2>1, <2>3, NodesAssumption DEF TypeOK, NodesAssumption
<1>1. \A n \in up : known # {n} => succ[n] # n /\ list[n] \ {n} # {}
  BY <1>0 DEF PairInv
<1>2. ASSUME \A n \in up' : /\ succ'[n] = succ[n] \/ succ'[n] # n
                            /\ \/ list'[n] = list[n]
                               \/ known # {n} => list'[n] \ {n} # {}
      PROVE  PairInv'
  BY <1>0, <1>1, <1>2 DEF PairInv
<1>3. CASE UNCHANGED <<succ, list>>
  BY <1>2, <1>3
<1>4. ASSUME NEW n \in Nodes, Adopt(n) PROVE PairInv'
  <2>1. /\ succ[n] \in Nodes /\ is_between(pred[succ[n]], n, succ[n]) /\ list' = list
        /\ succ' = [succ EXCEPT ![n] = pred[succ[n]]]
    BY <1>0, <1>4 DEF Adopt
  <2>2. pred[succ[n]] # n
    BY <1>0, <2>1, NotBetween
  <2> QED BY <1>0, <1>2, <2>1, <2>2
<1>5. ASSUME NEW n \in Nodes, UpdateSuccessorList(n) PROVE PairInv'
  <2>0. n \in up /\ UNCHANGED <<succ, up>>
    BY <1>5 DEF UpdateSuccessorList
  <2>1. PICK k \in 1 .. SUCCESSOR_LIST_SIZE : \E c \in [1 .. k -> Nodes] : ListChain(n, k, c)
    BY <1>5, ListChains
  <2>2. PICK c \in [1 .. k -> Nodes] : ListChain(n, k, c)
    BY <2>1
  <2>3. 1 \in 1 .. k
    BY BoundsAssumption DEF BoundsAssumption
  <2>4. c[1] = succ[n] /\ c[1] \in {c[i] : i \in 1 .. k}
    BY <2>2, <2>3 DEF ListChain
  <2>5. PICK L \in SUBSET Nodes : succ[n] \in L /\ list' = [list EXCEPT ![n] = L]
    <3>1. {c[i] : i \in 1 .. k} \in SUBSET Nodes
      OBVIOUS
    <3>2. list' = [list EXCEPT ![n] = {c[i] : i \in 1 .. k}]
      BY <2>2 DEF ListChain
    <3> QED BY <2>4, <3>1, <3>2
  <2>6. known # {n} => L \ {n} # {}
    BY <1>1, <2>0, <2>5
  <2> QED BY <1>0, <1>2, <2>0, <2>5, <2>6
<1>6. ASSUME NEW n \in Nodes, Crash(n) PROVE PairInv'
  <2>1. /\ succ' = [succ EXCEPT ![n] = n] /\ list' = [list EXCEPT ![n] = {n}]
        /\ up' = up \ {n}
    BY <1>6 DEF Crash
  <2> QED BY <1>0, <1>2, <2>1
<1>7. ASSUME NEW n \in Nodes, NEW s \in Nodes, Notify(n, s) PROVE PairInv'
  <2>1. /\ succ' = [succ EXCEPT ![s] = IF succ[s] = s THEN n ELSE succ[s]] /\ list' = list
        /\ s # n
    BY <1>0, <1>7 DEF Notify
  <2> QED BY <1>0, <1>2, <2>1
<1>8. ASSUME NEW n \in Nodes, NEW c \in Nodes, Failover(n, c) PROVE PairInv'
  <2>1. succ' = [succ EXCEPT ![n] = c] /\ c # n /\ list' = list
    BY <1>8 DEF Failover
  <2> QED BY <1>0, <1>2, <2>1
<1>9. ASSUME NEW n \in Nodes, NEW b \in Nodes, NEW s \in Nodes, Join(n, b, s) PROVE FALSE
  BY <1>0, <1>9 DEF Join, CountsInv
<1>10. ASSUME NEW n \in Nodes, \/ Start(n) \/ TransferDone(n) \/ CheckPredecessor(n)
                               \/ \E b \in Nodes : JoinFails(n, b)
       PROVE  UNCHANGED <<succ, list>>
  BY <1>10 DEF Start, TransferDone, CheckPredecessor, JoinFails, members
<1>11. Quiet => UNCHANGED <<succ, list>>
  BY DEF Quiet, members
<1> QED BY <1>3, <1>4, <1>5, <1>6, <1>7, <1>8, <1>9, <1>10, <1>11, StepKinds

-----------------------------------------------------------------------------
(* Where data is                                                           *)

Lives(n) == n \in up \/ xfer[n].pc \in {"start", "join"}

\* Only processes that run hold data or reconcile.
LifeInv ==
    \A n \in Nodes : /\ data[n] # {} => Lives(n)
                     /\ rec[n].pc # "off" => n \in up

\* Data is added at one node that runs, unless a process stops.
LEMMA DataSteps ==
    ASSUME TypeOK, RolesInv, LifeInv, [Next]_vars
    PROVE  \/ \E q \in Nodes : /\ Lives(q) /\ data[q] \subseteq data'[q]
                               /\ \A x \in Nodes \ {q} : data'[x] = data[x]
           \/ data' = data
           \/ \E n \in Nodes : Crash(n)
<1>0. data \in [Nodes -> SUBSET Msgs]
  BY DEF TypeOK
<1>1. ASSUME NEW q \in Nodes, Lives(q), NEW D, data' = [data EXCEPT ![q] = @ \cup D]
      PROVE  /\ Lives(q) /\ data[q] \subseteq data'[q]
             /\ \A x \in Nodes \ {q} : data'[x] = data[x]
  BY <1>0, <1>1
<1>2. ASSUME NEW m \in Msgs, SendMessage(m)
      PROVE  \/ data' = data
             \/ \E q \in Nodes, D \in SUBSET Msgs :
                   Lives(q) /\ data' = [data EXCEPT ![q] = @ \cup D]
  BY <1>2 DEF SendMessage, CallOk, Lives
<1>3. ASSUME NEW m \in Msgs, NEW t \in Nodes, Replicate(m, t)
      PROVE  \/ data' = data
             \/ Lives(t) /\ data' = [data EXCEPT ![t] = @ \cup {m}]
  BY <1>3 DEF Replicate, CallOk, Lives
<1>4. ASSUME NEW n \in Nodes, NEW m \in Msgs, TransferStore(n, m)
      PROVE  \/ data' = data
             \/ Lives(n) /\ data' = [data EXCEPT ![n] = @ \cup {m}]
  <2>1. \/ data' = data
        \/ data' = [data EXCEPT ![n] = @ \cup {m}] /\ (xfer[n].by = n \/ n \in up)
    BY <1>4, Zenon DEF TransferStore, CallOk
  <2> QED BY <2>1 DEF RolesInv, Lives
<1>5. ASSUME NEW n \in Nodes, NEW t \in Nodes, TransferReplicate(n, t)
      PROVE  \/ data' = data
             \/ Lives(t) /\ data' = [data EXCEPT ![t] = @ \cup {xfer[n].cur}]
  BY <1>5 DEF TransferReplicate, CallOk, Lives
<1>6. ASSUME NEW n \in Nodes, NEW t \in Nodes, ReconcileAsk(n, t)
      PROVE  \/ data' = data
             \/ Lives(n) /\ data' = [data EXCEPT ![n] = @ \cup DataRange(t, rec[n].start, n)]
  BY <1>6 DEF ReconcileAsk, LifeInv, Lives
<1>7. ASSUME NEW m \in Msgs, SelectReplicas(m) \/ Acknowledge(m) PROVE data' = data
  BY <1>7 DEF SelectReplicas, Acknowledge
<1>8. ASSUME NEW n \in Nodes,
             \/ Start(n) \/ TransferDone(n) \/ CheckPredecessor(n) \/ ReconcileRange(n)
             \/ ReconcileDone(n) \/ Adopt(n) \/ UpdateSuccessorList(n)
      PROVE  data' = data
  BY <1>8 DEF Start, TransferDone, CheckPredecessor, ReconcileRange, ReconcileDone, Adopt,
              UpdateSuccessorList
<1>9. ASSUME NEW n \in Nodes, NEW t \in Nodes,
             \/ JoinFails(n, t) \/ Notify(n, t) \/ Failover(n, t)
             \/ \E s \in Nodes : Join(n, t, s)
      PROVE  data' = data
  BY <1>9 DEF JoinFails, Notify, Failover, Join
<1>10. CASE UNCHANGED vars
  BY <1>10 DEF vars
<1> QED BY <1>1, <1>2, <1>3, <1>4, <1>5, <1>6, <1>7, <1>8, <1>9, <1>10 DEF Next

LEMMA RecSteps ==
    ASSUME TypeOK, [Next]_vars, NEW x \in Nodes, rec'[x].pc # "off"
    PROVE  /\ rec[x].pc # "off" \/ x \in up
           /\ ~Crash(x)
<1>0. rec \in [Nodes -> Recs]
  BY XferType
<1>1. ASSUME NEW m \in Msgs,
             \/ SendMessage(m) \/ SelectReplicas(m) \/ Acknowledge(m)
             \/ \E t \in Nodes : Replicate(m, t)
      PROVE  rec' = rec
  BY <1>1 DEF SendMessage, SelectReplicas, Acknowledge, Replicate
<1>2. ASSUME NEW n \in Nodes,
             \/ Start(n) \/ TransferDone(n) \/ Adopt(n) \/ UpdateSuccessorList(n)
             \/ \E m \in Msgs : TransferStore(n, m)
      PROVE  rec' = rec
  BY <1>2 DEF Start, TransferDone, Adopt, UpdateSuccessorList, TransferStore
<1>3. ASSUME NEW n \in Nodes, NEW t \in Nodes,
             \/ JoinFails(n, t) \/ Notify(n, t) \/ Failover(n, t) \/ TransferReplicate(n, t)
             \/ \E s \in Nodes : Join(n, t, s)
      PROVE  rec' = rec
  BY <1>3 DEF JoinFails, Notify, Failover, TransferReplicate, Join
<1>4. ASSUME NEW n \in Nodes, CheckPredecessor(n) PROVE rec[x].pc # "off" \/ x \in up
  BY <1>0, <1>4 DEF CheckPredecessor
<1>5. ASSUME NEW n \in Nodes, ReconcileRange(n) PROVE rec[x].pc # "off"
  <2>1. rec[n].pc = "range" /\ \E y : rec' = [rec EXCEPT ![n] = y]
    BY <1>5 DEF ReconcileRange
  <2> QED BY <1>0, <2>1
<1>6. ASSUME NEW n \in Nodes, NEW t \in Nodes, ReconcileAsk(n, t) PROVE rec[x].pc # "off"
  <2>1. rec[n].pc = "ask" /\ rec' = [rec EXCEPT ![n].todo = @ \ {t}]
    BY <1>6 DEF ReconcileAsk
  <2> QED BY <1>0, <2>1
<1>7. ASSUME NEW n \in Nodes, ReconcileDone(n) PROVE rec[x].pc # "off"
  <2>1. rec[n].pc = "ask" /\ rec' = [rec EXCEPT ![n] = NoRec]
    BY <1>7 DEF ReconcileDone
  <2> QED BY <1>0, <2>1
<1>8. ASSUME NEW n \in Nodes, Crash(n) PROVE rec[x].pc # "off" /\ n # x
  <2>1. rec' = [rec EXCEPT ![n] = NoRec] /\ NoRec.pc = "off"
    BY <1>8 DEF Crash, NoRec
  <2> QED BY <1>0, <2>1
<1>9. CASE UNCHANGED vars
  <2>1. rec' = rec
    BY <1>9 DEF vars
  <2> QED BY <1>8, <2>1
<1>10. ~Crash(x)
  BY <1>8
<1> QED BY <1>1, <1>2, <1>3, <1>4, <1>5, <1>6, <1>7, <1>8, <1>9, <1>10 DEF Next

\* Only a crash ends the life of a process.
LEMMA LifeSteps ==
    ASSUME TypeOK, RolesInv, [Next]_vars, NEW x \in Nodes, Lives(x)
    PROVE  Lives(x)' \/ Crash(x)
<1> USE DEF Lives
<1>0. xfer \in [Nodes -> Xfers]
  BY XferType
<1>1. CASE Quiet
  BY <1>1 DEF Quiet, SameRoles, members
<1>2. ASSUME NEW n \in Nodes, Start(n) PROVE Lives(x)'
  <2>1. up' = up /\ xfer[n].pc = "off" /\ \E y : xfer' = [xfer EXCEPT ![n] = y]
    BY <1>2 DEF Start, members
  <2> QED BY <1>0, <2>1
<1>3. ASSUME NEW n \in Nodes, TransferDone(n) PROVE Lives(x)'
  <2>1. /\ up \subseteq up' /\ xfer' = [xfer EXCEPT ![n] = NoXfer]
        /\ xfer[n].pc \in {"join", "notify"} /\ (xfer[n].pc = "join" => n \in up')
    BY <1>3 DEF TransferDone
  <2> QED BY <1>0, <2>1
<1>4. ASSUME NEW n \in Nodes, NEW b \in Nodes, JoinFails(n, b) PROVE Lives(x)'
  <2>1. up' = up \cup {n} /\ xfer' = [xfer EXCEPT ![n] = NoXfer]
    BY <1>4 DEF JoinFails
  <2> QED BY <1>0, <2>1
<1>5. ASSUME NEW n \in Nodes, NEW b \in Nodes, NEW s \in Nodes, Join(n, b, s) PROVE Lives(x)'
  <2>1. up' = up /\ \E l : xfer' = [xfer EXCEPT ![n] = Xfer("join", n, l)]
    BY <1>5 DEF Join
  <2> QED BY <1>0, <2>1 DEF Xfer
<1>6. ASSUME NEW n \in Nodes, NEW s \in Nodes, Notify(n, s) PROVE Lives(x)'
  <2>1. up' = up /\ xfer[n].pc = "off" /\ \E y : xfer' = [xfer EXCEPT ![n] = y]
    BY <1>6 DEF Notify
  <2> QED BY <1>0, <2>1
<1>7. ASSUME NEW n \in Nodes, \/ CheckPredecessor(n) \/ Adopt(n) \/ UpdateSuccessorList(n)
                              \/ \E t \in Nodes : Failover(n, t)
      PROVE  UNCHANGED <<up, xfer>>
  BY <1>7 DEF CheckPredecessor, Adopt, UpdateSuccessorList, Failover
<1>8. ASSUME NEW n \in Nodes, Crash(n), n # x PROVE Lives(x)'
  <2>1. up' = up \ {n}
    BY <1>8 DEF Crash
  <2> QED BY <1>8, <2>1, CrashRoles
<1> QED BY <1>1, <1>2, <1>3, <1>4, <1>5, <1>6, <1>7, <1>8, StepKinds

LEMMA NextLife ==
    TypeOK /\ TypeOK' /\ RolesInv /\ CountsInv /\ LifeInv /\ [Next]_vars => LifeInv'
<1> SUFFICES ASSUME TypeOK, TypeOK', RolesInv, CountsInv, LifeInv, [Next]_vars, NEW x \in Nodes
             PROVE  /\ data'[x] # {} => Lives(x)'
                    /\ rec'[x].pc # "off" => x \in up'
  BY DEF LifeInv
<1>1. ASSUME Crash(x) PROVE data'[x] = {}
  <2>1. data' = [data EXCEPT ![x] = {}] /\ data \in [Nodes -> SUBSET Msgs]
    BY <1>1 DEF Crash, TypeOK
  <2> QED BY <2>1
<1>2. ASSUME data'[x] # {} PROVE Lives(x)'
  <2>1. ~Crash(x)
    BY <1>1, <1>2
  <2>2. data[x] # {} \/ Lives(x)
    <3>1. ASSUME NEW n \in Nodes, Crash(n) PROVE data'[x] \subseteq data[x]
      <4>1. data' = [data EXCEPT ![n] = {}] /\ data \in [Nodes -> SUBSET Msgs]
        BY <3>1 DEF Crash, TypeOK
      <4> QED BY <4>1
    <3> QED BY <1>2, <3>1, DataSteps
  <2>3. Lives(x)
    BY <2>2 DEF LifeInv
  <2> QED BY <2>1, <2>3, LifeSteps
<1>3. ASSUME rec'[x].pc # "off" PROVE x \in up'
  <2>1. ~Crash(x) /\ x \in up
    BY <1>3, RecSteps DEF LifeInv
  <2>2. ASSUME NEW n \in Nodes, Crash(n) PROVE x \in up'
    BY <2>1, <2>2 DEF Crash
  <2> QED BY <2>1, <2>2, Serving
<1> QED BY <1>2, <1>3

LEMMA InitLife == Init => LifeInv
BY DEF Init, LifeInv, NoRec

-----------------------------------------------------------------------------
(* Copies of a message                                                     *)

\* The nodes that have m, or that its sender will still call and that serve.
Reach(m) == Holders(m) \cup (todo[m] \cap up)

Several(S) == \E a \in S, b \in S : a # b

\* The node that stores m has it, and acknowledges when nothing is left to do.
StoredInv(m) ==
    /\ sent[m] \in {"stored", "replicating"} => m \in data[at[m]]
    /\ sent[m] = "acked" => todo[m] = {}

\* A node m was meant for misses it at the cost of a fault.
CopiesInv(m) ==
    sent[m] \in {"replicating", "acked"} =>
        /\ Cardinality(goal[m] \ Reach(m)) <= crashes + drops
        /\ (joins = 0 /\ drops = 0) => goal[m] \cap up \subseteq Reach(m)
        /\ (joins = 0 /\ REPLICATION_FACTOR > 1 /\ Several(known)) => Several(goal[m])

DataInv == \A m \in Msgs : StoredInv(m) /\ CopiesInv(m)

\* A step that takes nothing from m: it may add copies and lose a call.
Untouched(m) ==
    /\ drops' = drops \/ drops' = drops + 1
    /\ sent'[m] = sent[m] /\ at'[m] = at[m] /\ todo'[m] = todo[m] /\ goal'[m] = goal[m]

LEMMA CallSteps ==
    ASSUME NEW t, CallOk(t) \/ CallErr(t)
    PROVE  drops' = drops \/ drops' = drops + 1
BY DEF CallOk, CallErr

\* Only the sending of m itself and crashes take something from m.
LEMMA Touches ==
    ASSUME TypeOK, [Next]_vars, NEW m \in Msgs
    PROVE  \/ Untouched(m)
           \/ SendMessage(m) \/ SelectReplicas(m) \/ Acknowledge(m)
           \/ \E t \in Nodes : Replicate(m, t)
           \/ \E n \in Nodes : Crash(n)
<1> USE DEF sending, budgets
<1>0. /\ sent \in [Msgs -> {"new", "stored", "replicating", "acked", "failed"}]
      /\ at \in [Msgs -> Nodes \cup {None}] /\ todo \in [Msgs -> SUBSET Nodes]
      /\ goal \in [Msgs -> SUBSET Nodes]
  BY DEF TypeOK
<1>1. ASSUME NEW k \in Msgs \ {m}, SendMessage(k) PROVE Untouched(m)
  <2>1. drops' = drops \/ drops' = drops + 1
    BY <1>1, CallSteps DEF SendMessage
  <2>2. sent'[m] = sent[m] /\ at'[m] = at[m] /\ UNCHANGED <<todo, goal>>
    BY <1>0, <1>1 DEF SendMessage
  <2> QED BY <2>1, <2>2 DEF Untouched
<1>2. ASSUME NEW k \in Msgs \ {m}, SelectReplicas(k) PROVE Untouched(m)
  BY <1>0, <1>2 DEF SelectReplicas, Untouched
<1>3. ASSUME NEW k \in Msgs \ {m}, NEW t \in Nodes, Replicate(k, t) PROVE Untouched(m)
  <2>1. drops' = drops \/ drops' = drops + 1
    BY <1>3, CallSteps DEF Replicate
  <2>2. UNCHANGED <<sent, at, goal>> /\ todo'[m] = todo[m]
    BY <1>0, <1>3 DEF Replicate
  <2> QED BY <2>1, <2>2 DEF Untouched
<1>4. ASSUME NEW k \in Msgs \ {m}, Acknowledge(k) PROVE Untouched(m)
  BY <1>0, <1>4 DEF Acknowledge, Untouched
<1>5. ASSUME NEW n \in Nodes, NEW k \in Msgs, TransferStore(n, k) PROVE Untouched(m)
  <2>1. /\ drops' = drops \/ CallOk(n) \/ CallErr(n)
        /\ UNCHANGED <<sent, at, todo, goal>>
    BY <1>5, Zenon DEF TransferStore, CallOk
  <2> QED BY <2>1, CallSteps DEF Untouched
<1>6. ASSUME NEW n \in Nodes, \/ Start(n) \/ TransferDone(n) \/ ReconcileRange(n)
                              \/ ReconcileDone(n) \/ Adopt(n)
      PROVE  Untouched(m)
  BY <1>6 DEF Start, TransferDone, ReconcileRange, ReconcileDone, Adopt, Untouched
<1>7. ASSUME NEW n \in Nodes, CheckPredecessor(n) PROVE Untouched(m)
  <2>1. drops' = drops \/ drops' = drops + 1
    BY <1>7, CallSteps DEF CheckPredecessor
  <2> QED BY <1>7, <2>1 DEF CheckPredecessor, Untouched
<1>8. ASSUME NEW n \in Nodes, UpdateSuccessorList(n) PROVE Untouched(m)
  <2>1. PICK k \in 1 .. SUCCESSOR_LIST_SIZE : \E c \in [1 .. k -> Nodes] : ListChain(n, k, c)
    BY <1>8, ListChains
  <2>2. drops' = drops \/ \E t : CallOk(t) \/ CallErr(t)
    BY <2>1 DEF ListChain
  <2>3. UNCHANGED <<sent, at, todo, goal>>
    BY <1>8 DEF UpdateSuccessorList
  <2> QED BY <2>2, <2>3, CallSteps DEF Untouched
<1>9. ASSUME NEW n \in Nodes, NEW t \in Nodes, Notify(n, t) PROVE Untouched(m)
  BY <1>9 DEF Notify, Untouched
<1>10. ASSUME NEW n \in Nodes, NEW t \in Nodes,
              \/ JoinFails(n, t) \/ TransferReplicate(n, t) \/ ReconcileAsk(n, t)
              \/ Failover(n, t) \/ \E s \in Nodes : Join(n, t, s)
       PROVE  Untouched(m)
  <2>1. \E c : CallOk(c) \/ CallErr(c)
    BY <1>10 DEF JoinFails, TransferReplicate, ReconcileAsk, Failover, Join
  <2>2. UNCHANGED <<sent, at, todo, goal>>
    BY <1>10 DEF JoinFails, TransferReplicate, ReconcileAsk, Failover, Join
  <2> QED BY <2>1, <2>2, CallSteps DEF Untouched
<1>11. CASE UNCHANGED vars
  BY <1>11 DEF vars, Untouched
<1> QED
  BY <1>1, <1>2, <1>3, <1>4, <1>5, <1>6, <1>7, <1>8, <1>9, <1>10, <1>11 DEF Next

LEMMA SumNat == ASSUME NEW a \in Nat, NEW b \in Nat PROVE a + b \in Nat
OBVIOUS

LEMMA PaidOrder ==
    ASSUME NEW a \in Nat, NEW b \in Nat, NEW c \in Nat, NEW d \in Nat, a <= c,
           (b <= a /\ c <= d) \/ (b <= a + 1 /\ c + 1 <= d)
    PROVE  b <= d
OBVIOUS

\* Another node misses m only if a fault is counted.
LEMMA MissesPaid ==
    ASSUME TypeOK, TypeOK', NEW m \in Msgs, NEW t, goal'[m] = goal[m],
           Cardinality(goal[m] \ Reach(m)) <= crashes + drops,
           Reach(m) \ {t} \subseteq Reach(m)',
           \/ Reach(m) \subseteq Reach(m)' /\ crashes + drops <= crashes' + drops'
           \/ crashes + drops + 1 <= crashes' + drops'
    PROVE  Cardinality(goal[m] \ Reach(m))' <= crashes' + drops'
<1>1. PICK G, A, B : G = goal[m] /\ A = G \ Reach(m) /\ B = G \ Reach(m)'
  OBVIOUS
<1>2. A \in SUBSET Nodes /\ B \in SUBSET Nodes /\ B \ {t} \subseteq A
  BY <1>1 DEF TypeOK
<1>3. /\ Cardinality(B) \in Nat /\ Cardinality(A) \in Nat
      /\ Cardinality(B) <= Cardinality(A) + 1
      /\ B \subseteq A => Cardinality(B) <= Cardinality(A)
  BY <1>2, CardLess
<1>4. PICK a \in Nat, b \in Nat : a = Cardinality(A) /\ b = Cardinality(B)
  BY <1>3
<1>5. crashes \in Nat /\ drops \in Nat /\ crashes' \in Nat /\ drops' \in Nat
  BY DEF TypeOK
<1>6. a <= crashes + drops
  BY <1>1, <1>4
<1>7. \/ b <= a /\ crashes + drops <= crashes' + drops'
      \/ b <= a + 1 /\ crashes + drops + 1 <= crashes' + drops'
  <2>1. Reach(m) \subseteq Reach(m)' => B \subseteq A
    BY <1>1
  <2> QED BY <1>3, <1>4, <2>1
<1>8. b <= crashes' + drops'
  <2>1. PICK c \in Nat, d \in Nat : c = crashes + drops /\ d = crashes' + drops'
    <3>1. crashes + drops \in Nat /\ crashes' + drops' \in Nat
      BY <1>5, SumNat, Zenon
    <3> QED BY <3>1, Zenon
  <2>2. b <= d
    BY <1>6, <1>7, <2>1, PaidOrder
  <2> QED BY <2>1, <2>2
<1> QED BY <1>1, <1>4, <1>8


LEMMA UntouchedKeeps ==
    ASSUME TypeOK, TypeOK', RolesInv, CountsInv, LifeInv, [Next]_vars, \A n \in Nodes : ~Crash(n),
           NEW m \in Msgs, Untouched(m), StoredInv(m), CopiesInv(m)
    PROVE  StoredInv(m)' /\ CopiesInv(m)'
<1>0. /\ sent'[m] = sent[m] /\ at'[m] = at[m] /\ todo'[m] = todo[m] /\ goal'[m] = goal[m]
      /\ drops' = drops \/ drops' = drops + 1
      /\ crashes \in Nat /\ drops \in Nat
  BY DEF Untouched, TypeOK
<1>1. \A n \in Nodes : data[n] \subseteq data'[n]
  BY DataSteps
<1>2. /\ up \subseteq up' /\ crashes' = crashes
      /\ joins' = 0 => joins = 0 /\ up' = up /\ known' = known
  BY Serving
<1>3. StoredInv(m)'
  <2>1. sent[m] \in {"stored", "replicating"} => at[m] \in Nodes
    BY DEF TypeOK
  <2> QED BY <1>0, <1>1, <2>1 DEF StoredInv
<1>4. Reach(m) \subseteq Reach(m)'
  BY <1>0, <1>1, <1>2 DEF Reach, Holders
<1>5. ASSUME sent[m] \in {"replicating", "acked"}
      PROVE  /\ Cardinality(goal[m] \ Reach(m))' <= crashes' + drops'
             /\ (joins' = 0 /\ drops' = 0) => goal[m] \cap up' \subseteq Reach(m)'
             /\ (joins' = 0 /\ REPLICATION_FACTOR > 1 /\ Several(known')) => Several(goal[m])
  <2>1. /\ Cardinality(goal[m] \ Reach(m)) <= crashes + drops
        /\ (joins = 0 /\ drops = 0) => goal[m] \cap up \subseteq Reach(m)
        /\ (joins = 0 /\ REPLICATION_FACTOR > 1 /\ Several(known)) => Several(goal[m])
    BY <1>5 DEF CopiesInv
  <2>2. crashes + drops <= crashes' + drops'
    BY <1>0, <1>2
  <2>3. Cardinality(goal[m] \ Reach(m))' <= crashes' + drops'
    <3>1. Reach(m) \ {m} \subseteq Reach(m)'
      BY <1>4
    <3> QED BY <1>0, <1>4, <2>1, <2>2, <3>1, MissesPaid
  <2>4. drops' = 0 => drops = 0
    BY <1>0
  <2> QED BY <1>2, <1>4, <2>1, <2>3, <2>4
<1>6. CopiesInv(m)'
  BY <1>0, <1>5 DEF CopiesInv, Several
<1> QED BY <1>3, <1>6

LEMMA SendKeeps ==
    ASSUME TypeOK, TypeOK', NEW m \in Msgs, SendMessage(m)
    PROVE  StoredInv(m)' /\ CopiesInv(m)'
<1>1. \/ \E r \in Nodes : /\ data' = [data EXCEPT ![r] = @ \cup {m}]
                          /\ sent' = [sent EXCEPT ![m] = "stored"]
                          /\ at' = [at EXCEPT ![m] = r]
      \/ sent' = [sent EXCEPT ![m] = "failed"]
  BY DEF SendMessage
<1>2. \/ sent'[m] = "failed"
      \/ sent'[m] = "stored" /\ m \in data'[at'[m]]
  BY <1>1 DEF TypeOK
<1> QED BY <1>2 DEF StoredInv, CopiesInv

\* What get_replica_nodes gives at the node that stores a message served once,
\* and is not empty while nobody joins and there are others.
LEMMA ReplicasKnown ==
    ASSUME TypeOK, PointersInv, CountsInv, PairInv, NEW n \in Nodes, NEW key, NEW R,
           ReplicaNodes(n, key, R)
    PROVE  /\ R \subseteq known \ {n}
           /\ (joins = 0 /\ REPLICATION_FACTOR > 1 /\ n \in up /\ known # {n}) => R # {}
<1>0. /\ known \subseteq Nodes /\ up \subseteq known /\ list[n] \subseteq known \cup {n}
      /\ list[n] \in SUBSET Nodes
  BY DEF TypeOK, PointersInv
<1>1. PICK k \in Nat : k = REPLICATION_FACTOR - 1
  BY BoundsAssumption DEF BoundsAssumption
<1>2. PICK p \in Nodes : \E F \in SUBSET known :
         Primary(n, key, p) /\ R = ({p} \cup Smallest((list[n] \cup F) \ {n, p}, k)) \ {n}
  BY <1>1 DEF ReplicaNodes
<1>3. PICK F \in SUBSET known :
         Primary(n, key, p) /\ R = ({p} \cup Smallest((list[n] \cup F) \ {n, p}, k)) \ {n}
  BY <1>2
<1>4. p \in known \/ p = n
  BY <1>3, FindsKnown DEF Primary
<1> DEFINE C == (list[n] \cup F) \ {n, p}
           S == Smallest(C, k)
<1>5. C \in SUBSET Nodes
  BY <1>0
<1>6. S \in SUBSET C /\ (S = C \/ Cardinality(S) >= k)
  <2> HIDE DEF C
  <2> QED BY <1>5, SmallestEnough
<1>7. R = ({p} \cup S) \ {n}
  BY <1>3
<1> HIDE DEF S
<1>8. R \subseteq known \ {n}
  BY <1>0, <1>4, <1>6, <1>7
<1>9. ASSUME joins = 0, REPLICATION_FACTOR > 1, n \in up, known # {n}, R = {} PROVE FALSE
  <2>1. list[n] \ {n} # {}
    BY <1>9 DEF PairInv
  <2>2. p = n /\ S = {}
    BY <1>6, <1>7, <1>9
  <2>3. C # {}
    BY <2>1, <2>2
  <2>4. Cardinality({}) >= k
    BY <1>6, <2>2, <2>3
  <2>5. Cardinality({}) = 0 /\ k > 0
    BY <1>1, <1>9, FS_EmptySet, BoundsAssumption DEF BoundsAssumption
  <2> QED BY <1>1, <2>4, <2>5
<1> QED BY <1>8, <1>9

LEMMA SelectKeeps ==
    ASSUME TypeOK, TypeOK', RolesInv, PointersInv, CountsInv, PairInv, LifeInv,
           NEW m \in Msgs, StoredInv(m), SelectReplicas(m)
    PROVE  StoredInv(m)' /\ CopiesInv(m)'
<1>1. PICK R \in SUBSET Nodes : /\ ReplicaNodes(at[m], KeyOf[m], R)
                                /\ todo' = [todo EXCEPT ![m] = R]
                                /\ goal' = [goal EXCEPT ![m] = R \cup {at[m]}]
  BY DEF SelectReplicas
<1>2. /\ sent[m] = "stored" /\ sent'[m] = "replicating"
      /\ UNCHANGED <<up, known, data, at, crashes, joins, drops>>
  BY DEF SelectReplicas, members, budgets, TypeOK
<1>3. PICK n \in Nodes : n = at[m] /\ m \in data[n]
  <2>1. at[m] \in Nodes
    BY <1>2 DEF TypeOK
  <2>2. m \in data[at[m]]
    BY <1>2 DEF StoredInv
  <2> QED BY <2>1, <2>2
<1>4. StoredInv(m)'
  BY <1>2, <1>3 DEF StoredInv
<1>5. /\ R \subseteq known \ {n}
      /\ (joins = 0 /\ REPLICATION_FACTOR > 1 /\ n \in up /\ known # {n}) => R # {}
  BY <1>1, <1>3, ReplicasKnown
<1>6. goal'[m] = R \cup {n} /\ todo'[m] = R
  BY <1>1, <1>3 DEF TypeOK
<1>7. n \in Reach(m)' /\ R \cap up \subseteq Reach(m)'
  BY <1>2, <1>3, <1>6 DEF Reach, Holders
<1>8. Cardinality(goal[m] \ Reach(m))' <= crashes' + drops'
  <2>1. PICK A, B : A = goal'[m] \ Reach(m)' /\ B = known \ up
    OBVIOUS
  <2>2. A \in SUBSET Nodes /\ B \in SUBSET Nodes /\ A \subseteq B /\ A \ {n} \subseteq B
    BY <1>5, <1>6, <1>7, <2>1 DEF TypeOK
  <2>3. /\ Cardinality(A) \in Nat /\ Cardinality(B) \in Nat
        /\ Cardinality(A) <= Cardinality(B)
    BY <2>2, CardLess
  <2>4. Cardinality(B) <= crashes /\ crashes \in Nat /\ drops \in Nat
    BY <2>1 DEF CountsInv, TypeOK
  <2>5. Cardinality(A) <= crashes + drops
    <3>1. PICK a \in Nat, b \in Nat : a = Cardinality(A) /\ b = Cardinality(B)
      BY <2>3
    <3> QED BY <2>3, <2>4, <3>1
  <2> QED BY <1>2, <2>1, <2>5
<1>9. goal'[m] \cap up \subseteq Reach(m)'
  BY <1>6, <1>7
<1>10. ASSUME joins = 0, REPLICATION_FACTOR > 1, Several(known) PROVE Several(goal'[m])
  <2>1. n \in up
    BY <1>3, <1>10 DEF LifeInv, Lives, CountsInv
  <2>2. known # {n}
    BY <1>10 DEF Several
  <2>3. PICK r \in R : r # n
    BY <1>5, <1>10, <2>1, <2>2
  <2> QED BY <1>6, <2>3 DEF Several
<1>11. CopiesInv(m)'
  BY <1>2, <1>8, <1>9, <1>10 DEF CopiesInv, Several
<1> QED BY <1>4, <1>11

LEMMA ReplicateKeeps ==
    ASSUME TypeOK, TypeOK', NEW m \in Msgs, StoredInv(m), CopiesInv(m),
           NEW t \in Nodes, Replicate(m, t)
    PROVE  StoredInv(m)' /\ CopiesInv(m)'
<1>1. /\ sent[m] = "replicating" /\ sent'[m] = "replicating"
      /\ todo'[m] = todo[m] \ {t}
      /\ UNCHANGED <<up, known, at, goal, crashes, joins>>
  BY DEF Replicate, members, TypeOK
<1>2. \A n \in Nodes : data[n] \subseteq data'[n]
  <2>1. data \in [Nodes -> SUBSET Msgs]
    BY DEF TypeOK
  <2>2. data' = data \/ data' = [data EXCEPT ![t] = @ \cup {m}]
    BY DEF Replicate
  <2> QED BY <2>1, <2>2
<1>3. StoredInv(m)'
  <2>1. at[m] \in Nodes
    BY <1>1 DEF TypeOK
  <2> QED BY <1>1, <1>2, <2>1 DEF StoredInv
<1>4. Reach(m) \ {t} \subseteq Reach(m)'
  BY <1>1, <1>2 DEF Reach, Holders
<1>5. \/ Reach(m) \subseteq Reach(m)' /\ drops' = drops
      \/ drops' = drops + 1
  <2>1. CASE CallOk(t) /\ data' = [data EXCEPT ![t] = @ \cup {m}]
    <3>1. t \in Holders(m)' /\ drops' = drops
      BY <2>1 DEF CallOk, Holders, TypeOK
    <3> QED BY <1>4, <3>1 DEF Reach
  <2>2. CASE CallErr(t)
    <3>1. CASE t \notin up /\ UNCHANGED drops
      <4>1. Reach(m) \subseteq Reach(m)'
        BY <1>1, <1>2, <3>1 DEF Reach, Holders
      <4> QED BY <3>1, <4>1
    <3> QED BY <2>2, <3>1 DEF CallErr
  <2> QED BY <2>1, <2>2 DEF Replicate
<1>6. /\ Cardinality(goal[m] \ Reach(m)) <= crashes + drops
      /\ (joins = 0 /\ drops = 0) => goal[m] \cap up \subseteq Reach(m)
      /\ (joins = 0 /\ REPLICATION_FACTOR > 1 /\ Several(known)) => Several(goal[m])
  BY <1>1 DEF CopiesInv
<1>7. crashes \in Nat /\ drops \in Nat
  BY DEF TypeOK
<1>8. Cardinality(goal[m] \ Reach(m))' <= crashes' + drops'
  <2>1. \/ Reach(m) \subseteq Reach(m)' /\ crashes + drops <= crashes' + drops'
        \/ crashes + drops + 1 <= crashes' + drops'
    BY <1>1, <1>5, <1>7
  <2> QED BY <1>1, <1>4, <1>6, <2>1, MissesPaid
<1>9. drops' = 0 => drops = 0 /\ Reach(m) \subseteq Reach(m)'
  BY <1>5, <1>7
<1>10. CopiesInv(m)'
  BY <1>1, <1>6, <1>8, <1>9 DEF CopiesInv, Several
<1> QED BY <1>3, <1>10

LEMMA AcknowledgeKeeps ==
    ASSUME TypeOK, TypeOK', NEW m \in Msgs, CopiesInv(m), Acknowledge(m)
    PROVE  StoredInv(m)' /\ CopiesInv(m)'
<1>1. /\ sent[m] = "replicating" /\ sent'[m] = "acked" /\ todo[m] = {}
      /\ UNCHANGED <<up, known, data, todo, goal, crashes, joins, drops>>
  BY DEF Acknowledge, members, budgets, TypeOK
<1>2. Reach(m)' = Reach(m)
  BY <1>1 DEF Reach, Holders
<1>3. StoredInv(m)'
  BY <1>1 DEF StoredInv
<1>4. CopiesInv(m)'
  BY <1>1, <1>2 DEF CopiesInv, Several
<1> QED BY <1>3, <1>4

LEMMA CrashKeeps ==
    ASSUME TypeOK, TypeOK', NEW m \in Msgs, StoredInv(m), CopiesInv(m), NEW n \in Nodes, Crash(n)
    PROVE  StoredInv(m)' /\ CopiesInv(m)'
<1>0. crashes \in Nat /\ drops \in Nat
  BY DEF TypeOK
<1>1. /\ up' = up \ {n} /\ crashes' = crashes + 1
      /\ UNCHANGED <<known, goal, joins, drops>>
  BY DEF Crash
<1>1a. \A q \in Nodes \ {n} : data'[q] = data[q]
  <2>1. data \in [Nodes -> SUBSET Msgs] /\ data' = [data EXCEPT ![n] = {}]
    BY DEF Crash, TypeOK
  <2> QED BY <2>1
<1>2. CASE at[m] = n
  <2>1. sent'[m] = "failed"
    BY <1>2 DEF Crash
  <2> QED BY <2>1 DEF StoredInv, CopiesInv
<1>3. CASE at[m] # n
  <2>1. sent'[m] = sent[m] /\ at'[m] = at[m] /\ todo'[m] = todo[m]
    BY <1>3 DEF Crash
  <2>2. StoredInv(m)'
    <3>1. sent[m] \in {"stored", "replicating"} => at[m] \in Nodes \ {n}
      BY <1>3 DEF TypeOK
    <3> QED BY <1>1a, <2>1, <3>1 DEF StoredInv
  <2>3. Reach(m) \ {n} \subseteq Reach(m)'
    BY <1>1, <1>1a, <2>1 DEF Reach, Holders
  <2>4. ASSUME sent[m] \in {"replicating", "acked"}
        PROVE  /\ Cardinality(goal[m] \ Reach(m))' <= crashes' + drops'
               /\ (joins = 0 /\ drops = 0) => goal[m] \cap up' \subseteq Reach(m)'
               /\ (joins = 0 /\ REPLICATION_FACTOR > 1 /\ Several(known)) => Several(goal[m])
    <3>1. /\ Cardinality(goal[m] \ Reach(m)) <= crashes + drops
          /\ (joins = 0 /\ drops = 0) => goal[m] \cap up \subseteq Reach(m)
          /\ (joins = 0 /\ REPLICATION_FACTOR > 1 /\ Several(known)) => Several(goal[m])
      BY <2>4 DEF CopiesInv
    <3>2. crashes + drops + 1 <= crashes' + drops'
      BY <1>0, <1>1
    <3>3. Cardinality(goal[m] \ Reach(m))' <= crashes' + drops'
      BY <1>1, <2>3, <3>1, <3>2, MissesPaid
    <3> QED BY <1>1, <2>3, <3>1, <3>3
  <2>5. CopiesInv(m)'
    BY <1>1, <2>1, <2>4 DEF CopiesInv, Several
  <2> QED BY <2>2, <2>5
<1> QED BY <1>2, <1>3

LEMMA NextData ==
    ASSUME TypeOK, TypeOK', RolesInv, PointersInv, CountsInv, PairInv, LifeInv, DataInv,
           [Next]_vars
    PROVE  DataInv'
<1> SUFFICES ASSUME NEW m \in Msgs PROVE StoredInv(m)' /\ CopiesInv(m)'
  BY DEF DataInv
<1>1. StoredInv(m) /\ CopiesInv(m)
  BY DEF DataInv
<1>2. ASSUME NEW n \in Nodes, Crash(n) PROVE StoredInv(m)' /\ CopiesInv(m)'
  BY <1>1, <1>2, CrashKeeps
<1>3. CASE \A n \in Nodes : ~Crash(n)
  BY <1>1, <1>3, Touches, UntouchedKeeps, SendKeeps, SelectKeeps, ReplicateKeeps,
     AcknowledgeKeeps
<1> QED BY <1>2, <1>3

LEMMA InitData == Init => DataInv
BY DEF Init, DataInv, StoredInv, CopiesInv

StorageInv ==
    RolesInv /\ PointersInv /\ CountsInv /\ PairInv /\ LifeInv /\ DataInv

LEMMA StorageInvariant == Spec => [](TypeOK /\ StorageInv)
<1>1. Init => TypeOK /\ StorageInv
  BY InitTyped, InitPointers, InitLife, InitData DEF StorageInv
<1>2. TypeOK /\ StorageInv /\ [Next]_vars => (TypeOK /\ StorageInv)'
  BY NextTyped, NextRoles, NextPointers, NextCounts, NextPair, NextLife, NextData
     DEF StorageInv
<1> QED BY <1>1, <1>2, PTL DEF Spec

LEMMA InvSurvives == TypeOK /\ StorageInv => AckedSurvives
<1> SUFFICES ASSUME TypeOK, StorageInv, NEW m \in Acked,
                    crashes + drops < Cardinality(goal[m]), Holders(m) = {}
             PROVE  FALSE
  BY DEF AckedSurvives
<1>1. m \in Msgs /\ sent[m] = "acked"
  BY DEF Acked
<1>2. todo[m] = {} /\ Cardinality(goal[m] \ Reach(m)) <= crashes + drops
  BY <1>1 DEF StorageInv, DataInv, StoredInv, CopiesInv
<1>3. goal[m] \ Reach(m) = goal[m]
  BY <1>2 DEF Reach
<1>4. Cardinality(goal[m]) \in Nat /\ crashes \in Nat /\ drops \in Nat
  BY <1>1, NodesFinite DEF TypeOK
<1>5. Cardinality(goal[m]) <= crashes + drops
  BY <1>2, <1>3
<1> QED BY <1>4, <1>5

\* An acknowledged message is held by somebody as long as there were fewer
\* crashes and lost calls than nodes it was meant for, whatever joins,
\* transfers, failovers, forgotten lists and stray lookups came in between.
THEOREM AckedStays == Spec => []AckedSurvives
BY StorageInvariant, InvSurvives, PTL

LEMMA InvOneFault == TypeOK /\ StorageInv => SurvivesOneFault
<1> SUFFICES ASSUME TypeOK, StorageInv, joins = 0, crashes + drops <= 1, Cardinality(known) > 1,
                    REPLICATION_FACTOR > 1, NEW m \in Acked
             PROVE  Holders(m) # {}
  BY DEF SurvivesOneFault
<1>1. m \in Msgs /\ sent[m] = "acked" /\ goal[m] \in SUBSET Nodes /\ known \in SUBSET Nodes
  BY DEF Acked, TypeOK
<1>2. Several(known)
  <2>1. ASSUME ~Several(known) PROVE FALSE
    <3>1. known = {} \/ \E a \in known : known = {a}
      BY <2>1 DEF Several
    <3>2. ASSUME NEW a PROVE Cardinality({a}) = 1
      BY FS_Singleton
    <3>3. Cardinality({}) = 0
      BY FS_EmptySet
    <3>4. Cardinality(known) \in {0, 1}
      BY <3>1, <3>2, <3>3
    <3> QED BY <3>4
  <2> QED BY <2>1
<1>3. PICK a \in goal[m], b \in goal[m] : a # b
  BY <1>1, <1>2 DEF StorageInv, DataInv, CopiesInv, Several
<1>4. Cardinality({a, b}) = 2
  <2>1. IsFiniteSet({a}) /\ Cardinality({a}) = 1
    BY FS_Singleton
  <2>2. Cardinality({a} \cup {b}) = Cardinality({a}) + 1
    BY <1>3, <2>1, FS_AddElement
  <2>3. {a} \cup {b} = {a, b}
    OBVIOUS
  <2> QED BY <2>1, <2>2, <2>3
<1>5. IsFiniteSet(goal[m]) /\ Cardinality(goal[m]) \in Nat /\ Cardinality({a, b}) <= Cardinality(goal[m])
  <2>1. {a, b} \in SUBSET goal[m]
    BY <1>3
  <2> QED BY <1>1, <2>1, NodesFinite, FS_Subset
<1>6. crashes + drops < Cardinality(goal[m])
  <2>1. PICK g \in Nat : g = Cardinality(goal[m]) /\ g >= 2
    BY <1>4, <1>5
  <2>2. crashes \in Nat /\ drops \in Nat
    BY DEF TypeOK
  <2> QED BY <2>1, <2>2
<1> QED BY <1>6, InvSurvives DEF AckedSurvives

\* While nobody joins a ring of several nodes, one crash or one lost call loses
\* no acknowledged message: no list ends up empty, so each is meant for two.
THEOREM OneFaultLosesNothing == Spec => []SurvivesOneFault
BY StorageInvariant, InvOneFault, PTL

-----------------------------------------------------------------------------
(* Polls                                                                   *)

LEMMA InvComplete == TypeOK /\ StorageInv => PollComplete
<1> SUFFICES ASSUME TypeOK, StorageInv, joins = 0, drops = 0, NEW m \in Acked,
                    up \subseteq goal[m], NEW r \in up, NEW S, PollAnswers(KeyOf[m], r, {}, S)
             PROVE  m \in S
  BY DEF PollComplete
<1>1. m \in Msgs /\ sent[m] = "acked" /\ r \in Nodes
  BY DEF Acked, TypeOK
<1>2. todo[m] = {} /\ goal[m] \cap up \subseteq Reach(m)
  BY <1>1 DEF StorageInv, DataInv, StoredInv, CopiesInv
<1>3. m \in Mailbox(r, KeyOf[m])
  BY <1>1, <1>2 DEF Reach, Holders, Mailbox
<1>4. Retrieve(r, KeyOf[m], {}, S)
  BY DEF PollAnswers
<1> QED BY <1>3, <1>4 DEF Retrieve

\* While nodes only crash, a poll shows every acknowledged message that was meant
\* for every node that still serves, although lists may name only dead nodes.
THEOREM PollShowsAll == Spec => []PollComplete
BY StorageInvariant, InvComplete, PTL

\* In a settled ring that never had more nodes than a message has replicas, the
\* replicas of any key are all the other nodes.
LEMMA EverybodyAsked ==
    ASSUME TypeOK, StorageInv, Settled, Cardinality(known) <= REPLICATION_FACTOR,
           NEW r \in up, NEW key, NEW R, ReplicaNodes(r, key, R)
    PROVE  up \ {r} \subseteq R
<1>0. /\ up \in SUBSET Nodes /\ known \in SUBSET Nodes /\ up \subseteq known /\ r \in Nodes
      /\ list[r] \in SUBSET Nodes /\ list[r] \subseteq known
  BY DEF TypeOK, StorageInv, PointersInv
<1>1. PICK k \in Nat : k = REPLICATION_FACTOR - 1
  BY BoundsAssumption DEF BoundsAssumption
<1>2. ASSUME NEW T \in SUBSET (known \ {r}) PROVE Cardinality(T) <= k /\ Cardinality(T) \in Nat
  <2>1. IsFiniteSet(known) /\ Cardinality(known) \in Nat
    BY <1>0, NodesFinite
  <2>2. IsFiniteSet(known \ {r}) /\ Cardinality(known \ {r}) = Cardinality(known) - 1
    BY <1>0, <2>1, FS_RemoveElement
  <2>3. IsFiniteSet(T) /\ Cardinality(T) <= Cardinality(known \ {r})
    BY <2>2, FS_Subset
  <2>4. Cardinality(T) \in Nat
    BY <2>3, FS_CardinalityType
  <2> QED BY <1>1, <2>1, <2>2, <2>3, <2>4, BoundsAssumption DEF BoundsAssumption
<1>3. up \ {r} \subseteq list[r]
  <2>1. Cardinality(up \ {r}) <= SUCCESSOR_LIST_SIZE
    <3>1. Cardinality(up \ {r}) <= k /\ Cardinality(up \ {r}) \in Nat
      BY <1>0, <1>2
    <3> QED BY <1>1, <3>1, BoundsAssumption, ListAssumption DEF BoundsAssumption, ListAssumption
  <2>2. Successors(up, r) = up \ {r}
    BY <1>0, <2>1, SuccessorsEnough
  <2> QED BY <2>2 DEF Settled
<1>4. PICK p \in Nodes : \E F \in SUBSET known :
         R = ({p} \cup Smallest((list[r] \cup F) \ {r, p}, k)) \ {r}
  BY <1>1 DEF ReplicaNodes
<1>5. PICK F \in SUBSET known : R = ({p} \cup Smallest((list[r] \cup F) \ {r, p}, k)) \ {r}
  BY <1>4
<1>6. PICK C : C = (list[r] \cup F) \ {r, p}
  OBVIOUS
<1>7. C \in SUBSET Nodes /\ C \in SUBSET (known \ {r})
  BY <1>0, <1>6
<1>8. Smallest(C, k) = C
  BY <1>2, <1>7, SmallestEnough
<1> QED BY <1>3, <1>5, <1>6, <1>8

LEMMA InvFound == TypeOK /\ StorageInv => MailboxFound
<1> SUFFICES ASSUME TypeOK, StorageInv, Settled, Cardinality(known) <= REPLICATION_FACTOR,
                    NEW m \in Acked, NEW r \in Nodes, NEW failed \in SUBSET Nodes,
                    r \notin failed, Holders(m) \ failed # {},
                    PollAnswers(KeyOf[m], r, failed, {})
             PROVE  FALSE
  BY DEF MailboxFound
<1>0. m \in Msgs /\ \A n \in Nodes : xfer[n].pc \notin {"start", "join"}
  BY DEF Acked, Settled, Starting
<1>1. r \in up
  <2>1. FindSuccessor(KeyOf[m], r)
    BY <1>0 DEF PollAnswers, Responsible
  <2>2. \A p \in up : succ[p] \in up
    BY DEF Settled, After
  <2> QED BY <1>0, <2>1, <2>2 DEF FindSuccessor
<1>2. PICK h \in Nodes \ failed : m \in data[h]
  BY DEF Holders
<1>3. h \in up
  BY <1>0, <1>2 DEF StorageInv, LifeInv, Lives
<1> DEFINE key == KeyOf[m]
<1>4. m \in Mailbox(h, key)
  BY <1>2 DEF Mailbox
<1>5. Retrieve(r, key, failed, {})
  BY <1>1 DEF PollAnswers
<1> HIDE DEF key
<1>6. Mailbox(r, key) = {}
  BY <1>5 DEF Retrieve
<1>7. PICK R \in SUBSET Nodes :
         /\ ReplicaNodes(r, key, R)
         /\ {t \in R \cap (up \ failed) : Mailbox(t, key) # {}} = {}
  BY <1>5, <1>6 DEF Retrieve
<1>8. h \in R
  BY <1>1, <1>3, <1>4, <1>6, <1>7, EverybodyAsked
<1> QED BY <1>2, <1>3, <1>4, <1>7, <1>8

\* In a ring that never had more nodes than a message has replicas, whatever joins,
\* crashes and lost calls there were: as soon as maintenance has caught up, a poll
\* does not find the mailbox of an acknowledged message empty, unless the calls it
\* makes fail, because the node responsible asks everybody.
THEOREM PollFinds == Spec => []MailboxFound
BY StorageInvariant, InvFound, PTL

-----------------------------------------------------------------------------
(* Walking around the ring                                                 *)

\* A node is the first one after one node only.
LEMMA AfterOne ==
    ASSUME NEW S \in SUBSET Ids, NEW p \in S, NEW n \in S, NEW s,
           After(S, p, s), After(S, n, s)
    PROVE  p = n
<1> SUFFICES ASSUME p # n PROVE FALSE
  OBVIOUS
<1>1. PICK W \in Nat : W = 2^M
  BY PowersOfTwo
<1>2. s \in 0 .. W - 1 /\ p \in 0 .. W - 1 /\ n \in 0 .. W - 1 /\ s # n /\ s # p
  BY <1>1 DEF After, Ids
<1>3. Distance(n, s) <= Distance(n, p) /\ Distance(p, s) <= Distance(p, n)
  BY DEF After
<1> QED BY <1>1, <1>2, <1>3 DEF Distance

\* From a to b without passing n.
LEMMA StepOut ==
    ASSUME NEW n \in Ids, NEW a \in Ids, NEW b \in Ids, a # n, b # n, b # a,
           Distance(a, b) <= Distance(a, n)
    PROVE  Distance(n, a) < Distance(n, b)
<1>1. PICK W \in Nat : W = 2^M
  BY PowersOfTwo
<1>2. n \in 0 .. W - 1 /\ a \in 0 .. W - 1 /\ b \in 0 .. W - 1
  BY <1>1 DEF Ids
<1> QED BY <1>1, <1>2 DEF Distance

\* From a to b without passing m.
LEMMA StepUpTo ==
    ASSUME NEW n \in Ids, NEW a \in Ids, NEW b \in Ids, NEW m \in Ids, a # n, b # m,
           Distance(n, a) < Distance(n, m), Distance(a, b) <= Distance(a, m)
    PROVE  b # n /\ Distance(n, b) < Distance(n, m)
<1>1. PICK W \in Nat : W = 2^M
  BY PowersOfTwo
<1>2. n \in 0 .. W - 1 /\ a \in 0 .. W - 1 /\ b \in 0 .. W - 1 /\ m \in 0 .. W - 1
  BY <1>1 DEF Ids
<1> QED BY <1>1, <1>2 DEF Distance

\* Induction, with the property given as the set of the numbers that have it.
LEMMA Induction ==
    ASSUME NEW S \in SUBSET Nat, 0 \in S, \A n \in S : n + 1 \in S
    PROVE  S = Nat
<1> SUFFICES ASSUME Nat \ S # {} PROVE FALSE
  OBVIOUS
<1>1. PICK x \in Nat \ S : \A y \in Nat \ S : x <= y
  BY LeastNat
<1>2. x # 0 /\ x - 1 \in Nat
  BY <1>1
<1>3. x - 1 \in S
  BY <1>1, <1>2
<1> QED BY <1>1, <1>2, <1>3

\* c goes around S from n, one node at a time, and does not come back to n.
Walk(S, n, k, c) ==
    /\ After(S, n, c[1])
    /\ \A i \in 1 .. k - 1 : After(S, c[i], c[i + 1]) /\ c[i + 1] # n

LEMMA WalkIn ==
    ASSUME NEW S \in SUBSET Ids, NEW n \in S, NEW k \in Nat \ {0}, NEW c, Walk(S, n, k, c),
           NEW i \in 1 .. k
    PROVE  c[i] \in S \ {n}
<1>1. CASE i = 1
  BY <1>1 DEF Walk, After
<1>2. CASE i # 1
  <2>1. PICK j \in 1 .. k - 1 : i = j + 1
    BY <1>2
  <2> QED BY <2>1 DEF Walk, After
<1> QED BY <1>1, <1>2

LEMMA WalkStep ==
    ASSUME NEW S \in SUBSET Ids, NEW n \in S, NEW k \in Nat \ {0}, NEW c, Walk(S, n, k, c),
           NEW i \in 1 .. k - 1
    PROVE  Distance(n, c[i]) < Distance(n, c[i + 1])
<1>1. c[i] \in S \ {n} /\ c[i + 1] \in S \ {n}
  <2>1. i \in 1 .. k /\ i + 1 \in 1 .. k
    OBVIOUS
  <2> QED BY <2>1, WalkIn
<1>2. After(S, c[i], c[i + 1])
  BY DEF Walk
<1>3. c[i + 1] # c[i] /\ Distance(c[i], c[i + 1]) <= Distance(c[i], n)
  BY <1>1, <1>2 DEF After
<1> QED BY <1>1, <1>3, StepOut

LEMMA DistanceNat == ASSUME NEW a \in Ids, NEW b \in Ids PROVE Distance(a, b) \in Nat
BY PowersOfTwo DEF Ids, Distance

\* It meets as many nodes as it makes steps.
LEMMA WalkCounts ==
    ASSUME NEW S \in SUBSET Nodes, NEW n \in S, NEW k \in Nat \ {0}, NEW c \in [1 .. k -> Nodes],
           Walk(S, n, k, c)
    PROVE  Cardinality({c[i] : i \in 1 .. k}) = k
<1>0. S \in SUBSET Ids
  BY NodesAssumption DEF NodesAssumption
<1> DEFINE d == [i \in 1 .. k |-> Distance(n, c[i])]
           U == {e \in Nat : \A i \in 1 .. k : i + e + 1 \in 1 .. k => d[i] < d[i + e + 1]}
<1>1. d \in [1 .. k -> Nat]
  BY <1>0, WalkIn, DistanceNat
<1>2. \A i \in 1 .. k : i + 1 \in 1 .. k => d[i] < d[i + 1]
  BY <1>0, WalkStep
<1> HIDE DEF d
<1>3. 0 \in U
  BY <1>2
<1>4. ASSUME NEW e \in U PROVE e + 1 \in U
  <2> SUFFICES ASSUME NEW i \in 1 .. k, i + (e + 1) + 1 \in 1 .. k
               PROVE  d[i] < d[i + (e + 1) + 1]
    OBVIOUS
  <2>1. PICK j \in 1 .. k : j = i + e + 1 /\ j + 1 \in 1 .. k /\ j + 1 = i + (e + 1) + 1
    OBVIOUS
  <2>2. d[i] < d[j] /\ d[j] < d[j + 1]
    BY <1>2, <2>1
  <2>3. d[i] \in Nat /\ d[j] \in Nat /\ d[j + 1] \in Nat
    BY <1>1, <2>1
  <2> QED BY <2>1, <2>2, <2>3
<1>5. U = Nat
  <2>1. U \in SUBSET Nat
    OBVIOUS
  <2> HIDE DEF U
  <2> QED BY <1>3, <1>4, <2>1, Induction
<1>6. ASSUME NEW i \in 1 .. k, NEW j \in 1 .. k, i < j PROVE c[i] # c[j]
  <2>1. PICK e \in Nat : j = i + e + 1
    <3>1. j - i - 1 \in Nat /\ j = i + (j - i - 1) + 1
      BY <1>6
    <3> QED BY <3>1
  <2>2. e \in U
    BY <1>5
  <2>3. d[i] < d[j]
    BY <2>1, <2>2
  <2>4. d[i] \in Nat /\ d[j] \in Nat
    BY <1>1
  <2>5. d[i] # d[j]
    BY <2>3, <2>4
  <2> QED BY <2>5 DEF d
<1> DEFINE L == {c[i] : i \in 1 .. k}
<1>7. c \in Bijection(1 .. k, L)
  <2>1. \A i, j \in 1 .. k : c[i] = c[j] => i = j
    <3> SUFFICES ASSUME NEW i \in 1 .. k, NEW j \in 1 .. k, c[i] = c[j], i # j PROVE FALSE
      OBVIOUS
    <3>1. i < j \/ j < i
      OBVIOUS
    <3> QED BY <1>6, <3>1
  <2>2. c \in [1 .. k -> L]
    OBVIOUS
  <2>3. \A t \in L : \E i \in 1 .. k : c[i] = t
    OBVIOUS
  <2> HIDE DEF L
  <2> QED BY <2>1, <2>2, <2>3 DEF Bijection, Injection, Surjection, IsInjective
<1>8. IsFiniteSet(1 .. k) /\ Cardinality(1 .. k) = k
  BY FS_Interval
<1> HIDE DEF L
<1>9. Cardinality(L) = Cardinality(1 .. k)
  BY <1>7, <1>8, FS_Bijection DEF ExistsBijection
<1> QED BY <1>8, <1>9 DEF L

\* When it could only go on to n, it has met everybody.
LEMMA WalkAll ==
    ASSUME NEW S \in SUBSET Nodes, NEW n \in S, NEW k \in Nat \ {0}, NEW c, Walk(S, n, k, c),
           After(S, c[k], n), NEW m \in S \ {n}, \A i \in 1 .. k : c[i] # m
    PROVE  FALSE
<1>0. S \in SUBSET Ids
  BY NodesAssumption DEF NodesAssumption
<1>1. \A i \in 1 .. k : c[i] \in S \ {n}
  BY <1>0, WalkIn
<1> DEFINE U == {e \in Nat : e + 1 \in 1 .. k => Distance(n, c[e + 1]) < Distance(n, m)}
<1>2. 0 \in U
  <2>1. 1 \in 1 .. k /\ Distance(n, c[1]) <= Distance(n, m)
    BY DEF Walk, After
  <2>2. PICK b \in S : b = c[1] /\ b # m
    BY <1>1, <2>1
  <2>3. PICK W \in Nat : W = 2^M
    BY PowersOfTwo
  <2>4. n \in 0 .. W - 1 /\ b \in 0 .. W - 1 /\ m \in 0 .. W - 1
    BY <1>0, <2>3 DEF Ids
  <2>5. Distance(n, b) < Distance(n, m)
    BY <2>1, <2>2, <2>3, <2>4 DEF Distance
  <2> QED BY <2>2, <2>5
<1>3. ASSUME NEW e \in U PROVE e + 1 \in U
  <2> SUFFICES ASSUME e + 1 + 1 \in 1 .. k PROVE Distance(n, c[e + 1 + 1]) < Distance(n, m)
    OBVIOUS
  <2>1. PICK j \in 1 .. k - 1 : j = e + 1
    OBVIOUS
  <2>2. j \in 1 .. k /\ j + 1 \in 1 .. k /\ Distance(n, c[j]) < Distance(n, m)
    BY <2>1
  <2>3. After(S, c[j], c[j + 1])
    BY DEF Walk
  <2>4. Distance(c[j], c[j + 1]) <= Distance(c[j], m)
    BY <1>1, <2>2, <2>3 DEF After
  <2>5. Distance(n, c[j + 1]) < Distance(n, m)
    BY <1>0, <1>1, <2>2, <2>4, StepUpTo
  <2> QED BY <2>1, <2>5
<1>4. k - 1 \in U
  <2>1. U \in SUBSET Nat
    OBVIOUS
  <2> HIDE DEF U
  <2>2. U = Nat
    BY <1>2, <1>3, <2>1, Induction
  <2> QED BY <2>2
<1>5. k \in 1 .. k /\ Distance(n, c[k]) < Distance(n, m)
  BY <1>4
<1>6. Distance(c[k], n) <= Distance(c[k], m)
  BY <1>1, <1>5 DEF After
<1>7. n # m
  OBVIOUS
<1> QED BY <1>0, <1>1, <1>5, <1>6, <1>7, StepUpTo

-----------------------------------------------------------------------------
(* Before anything fails or joins                                          *)

Fresh == crashes = 0 /\ drops = 0 /\ joins = 0

\* The list of n has as many nodes as fit, or all there are.
ListFull(n) == up \ {n} \subseteq list[n] \/ Cardinality(list[n] \ {n}) >= SUCCESSOR_LIST_SIZE

\* The ring is the one it was founded as, and lists are full.
FreshInv ==
    Fresh => /\ up = known
             /\ \A n \in up : /\ IF up = {n}
                                 THEN succ[n] = n
                                 ELSE /\ After(up, n, succ[n])
                                      /\ pred[n] \in up /\ After(up, pred[n], n)
                              /\ ListFull(n)

\* Messages are meant for as many nodes as they should be.
GoalsInv ==
    Fresh => \A m \in Msgs : sent[m] \in {"replicating", "acked"} =>
                 \/ Cardinality(goal[m]) >= REPLICATION_FACTOR
                 \/ Cardinality(goal[m]) >= Cardinality(known)

\* Lost calls stay counted.
LEMMA DropSteps ==
    ASSUME TypeOK, [Next]_vars
    PROVE  drops' = drops \/ drops' = drops + 1
<1> USE CallSteps DEF budgets
<1>1. ASSUME NEW m \in Msgs, SendMessage(m) PROVE drops' = drops \/ drops' = drops + 1
  BY <1>1 DEF SendMessage
<1>2. ASSUME NEW m \in Msgs, NEW t \in Nodes, Replicate(m, t)
      PROVE  drops' = drops \/ drops' = drops + 1
  BY <1>2 DEF Replicate
<1>3. ASSUME NEW m \in Msgs, SelectReplicas(m) \/ Acknowledge(m) PROVE drops' = drops
  BY <1>3 DEF SelectReplicas, Acknowledge
<1>4. ASSUME NEW n \in Nodes, NEW m \in Msgs, TransferStore(n, m)
      PROVE  drops' = drops \/ CallOk(n) \/ CallErr(n)
  BY <1>4, Zenon DEF TransferStore, CallOk
<1>5. ASSUME NEW n \in Nodes,
             \/ Start(n) \/ TransferDone(n) \/ ReconcileRange(n) \/ ReconcileDone(n)
             \/ Adopt(n) \/ Crash(n) \/ \E t \in Nodes : Notify(n, t)
      PROVE  drops' = drops
  BY <1>5 DEF Start, TransferDone, ReconcileRange, ReconcileDone, Adopt, Crash, Notify
<1>6. ASSUME NEW n \in Nodes, CheckPredecessor(n) PROVE drops' = drops \/ drops' = drops + 1
  BY <1>6 DEF CheckPredecessor
<1>7. ASSUME NEW n \in Nodes, UpdateSuccessorList(n)
      PROVE  drops' = drops \/ drops' = drops + 1
  <2>1. PICK k \in 1 .. SUCCESSOR_LIST_SIZE : \E c \in [1 .. k -> Nodes] : ListChain(n, k, c)
    BY <1>7, ListChains
  <2>2. drops' = drops \/ \E t : CallOk(t) \/ CallErr(t)
    BY <2>1 DEF ListChain
  <2> QED BY <2>2
<1>8. ASSUME NEW n \in Nodes, NEW t \in Nodes,
             \/ JoinFails(n, t) \/ TransferReplicate(n, t) \/ ReconcileAsk(n, t)
             \/ Failover(n, t) \/ \E s \in Nodes : Join(n, t, s)
      PROVE  \E c : CallOk(c) \/ CallErr(c)
  BY <1>8 DEF JoinFails, TransferReplicate, ReconcileAsk, Failover, Join
<1>9. CASE UNCHANGED vars
  BY <1>9 DEF vars
<1> QED BY <1>1, <1>2, <1>3, <1>4, <1>5, <1>6, <1>7, <1>8, <1>9 DEF Next

LEMMA FreshBack ==
    ASSUME TypeOK, CountsInv, [Next]_vars, Fresh'
    PROVE  /\ Fresh /\ up' = up /\ known' = known
           /\ \A n \in Nodes : ~Crash(n)
<1>0. crashes \in Nat /\ drops \in Nat /\ joins \in Nat
  BY DEF TypeOK
<1>1. crashes' = 0 /\ drops' = 0 /\ joins' = 0
  BY DEF Fresh
<1>2. ASSUME NEW n \in Nodes, Crash(n) PROVE FALSE
  <2>1. crashes' = crashes + 1
    BY <1>2 DEF Crash
  <2> QED BY <1>0, <1>1, <2>1
<1>3. joins = 0 /\ known' = known /\ up' = up /\ crashes' = crashes
  BY <1>1, <1>2, Serving
<1>4. drops = 0
  BY <1>0, <1>1, DropSteps
<1> QED BY <1>1, <1>2, <1>3, <1>4 DEF Fresh

LEMMA InitFresh == Init => FreshInv /\ GoalsInv
<1> SUFFICES ASSUME Init PROVE FreshInv /\ GoalsInv
  OBVIOUS
<1>0. up \in SUBSET Nodes /\ known = up
  BY QuotasAssumption DEF Init, QuotasAssumption
<1>1. GoalsInv
  BY DEF Init, GoalsInv
<1>2. ASSUME NEW n \in up
      PROVE  /\ IF up = {n}
                THEN succ[n] = n
                ELSE After(up, n, succ[n]) /\ pred[n] \in up /\ After(up, pred[n], n)
             /\ ListFull(n)
  <2>0. /\ n \in Nodes
        /\ IF n \in up /\ up # {n}
           THEN After(up, n, succ[n]) /\ pred[n] \in up /\ After(up, pred[n], n)
           ELSE succ[n] = n /\ pred[n] = None
    BY <1>0 DEF Init
  <2>1. ListFull(n)
    <3>1. CASE up = {n}
      BY <3>1 DEF ListFull
    <3>2. CASE up # {n}
      <4>1. list[n] = Successors(up, n)
        BY <2>0, <3>2 DEF Init
      <4>2. /\ Successors(up, n) \in SUBSET (up \ {n})
            /\ \/ Successors(up, n) = up \ {n}
               \/ Cardinality(Successors(up, n)) >= SUCCESSOR_LIST_SIZE
        BY <1>0, <2>0, SuccessorsEnough
      <4>3. list[n] \ {n} = Successors(up, n)
        BY <4>1, <4>2
      <4> QED BY <4>1, <4>2, <4>3 DEF ListFull
    <3> QED BY <3>1, <3>2
  <2> QED BY <2>0, <2>1
<1> QED BY <1>0, <1>1, <1>2 DEF FreshInv

\* What update_successor_list finds in such a ring fills the list.
LEMMA ChainFills ==
    ASSUME TypeOK, PointersInv, CountsInv, FreshInv, Fresh, drops' = 0, NEW n \in up, up # {n},
           NEW k \in 1 .. SUCCESSOR_LIST_SIZE, NEW c \in [1 .. k -> Nodes], ListChain(n, k, c),
           NEW L, L = {c[i] : i \in 1 .. k}
    PROVE  up \ {n} \subseteq L \/ Cardinality(L \ {n}) >= SUCCESSOR_LIST_SIZE
<1>0. /\ up \in SUBSET Nodes /\ n \in Nodes /\ up = known /\ SUCCESSOR_LIST_SIZE \in Nat
      /\ k \in Nat \ {0} /\ up \in SUBSET Ids
  BY BoundsAssumption, NodesAssumption
  DEF TypeOK, FreshInv, BoundsAssumption, NodesAssumption
<1>1. \A x \in up : up # {x} => After(up, x, succ[x])
  BY DEF FreshInv
<1>2. Walk(up, n, k, c)
  <2>1. After(up, n, c[1])
    BY <1>1 DEF ListChain
  <2>2. ASSUME NEW i \in 1 .. k - 1 PROVE After(up, c[i], c[i + 1]) /\ c[i + 1] # n
    <3>1. c[i] \in up \ {n} /\ c[i + 1] = succ[c[i]] /\ c[i + 1] # n
      BY DEF ListChain
    <3>2. up # {c[i]}
      BY <3>1
    <3> QED BY <1>1, <3>1, <3>2
  <2> QED BY <2>1, <2>2 DEF Walk
<1>3. \A i \in 1 .. k : c[i] \in up \ {n}
  BY <1>0, <1>2, WalkIn
<1>4. k \in 1 .. k
  BY <1>0
<1>5. CASE k = SUCCESSOR_LIST_SIZE
  <2>1. Cardinality(L) = k
    BY <1>0, <1>2, WalkCounts
  <2>2. L \ {n} = L
    BY <1>3
  <2>3. Cardinality(L \ {n}) = SUCCESSOR_LIST_SIZE
    BY <1>5, <2>1, <2>2
  <2>4. SUCCESSOR_LIST_SIZE >= SUCCESSOR_LIST_SIZE
    BY <1>0
  <2> QED BY <2>3, <2>4
<1>6. CASE succ[c[k]] = n
  <2>1. After(up, c[k], n)
    BY <1>1, <1>3, <1>4, <1>6
  <2>2. \A x \in up \ {n} : \E i \in 1 .. k : c[i] = x
    BY <1>0, <1>2, <2>1, WalkAll
  <2> QED BY <2>2
<1>7. CASE CallErr(c[k])
  <2>1. c[k] \in up
    BY <1>3, <1>4
  <2>2. drops' = drops + 1
    BY <1>7, <2>1 DEF CallErr
  <2> QED BY <2>2 DEF Fresh
<1>8. c[k] # n
  BY <1>3, <1>4
<1> QED BY <1>5, <1>6, <1>7, <1>8 DEF ListChain

LEMMA NextFresh ==
    ASSUME TypeOK, TypeOK', PointersInv, CountsInv, FreshInv, [Next]_vars
    PROVE  FreshInv'
<1> SUFFICES ASSUME Fresh' PROVE FreshInv'
  BY DEF FreshInv
<1>0. Fresh /\ up' = up /\ known' = known /\ \A n \in Nodes : ~Crash(n)
  BY FreshBack
<1>1. /\ up \in SUBSET Nodes /\ up \in SUBSET Ids /\ up = known /\ None \notin Nodes
      /\ succ \in [Nodes -> Nodes] /\ list \in [Nodes -> SUBSET Nodes]
      /\ drops = 0 /\ drops' = 0
  BY <1>0, NoneIsNoNode, NodesAssumption DEF TypeOK, FreshInv, Fresh, NodesAssumption
<1>2. \A n \in up : IF up = {n}
                    THEN succ[n] = n
                    ELSE After(up, n, succ[n]) /\ pred[n] \in up /\ After(up, pred[n], n)
  BY <1>0 DEF FreshInv
<1>3. \A n \in up : ListFull(n)
  BY <1>0 DEF FreshInv
<1>4. ASSUME UNCHANGED <<succ, pred>>, \A n \in up : ListFull(n)' PROVE FreshInv'
  BY <1>0, <1>1, <1>2, <1>4 DEF FreshInv
<1>5. ASSUME UNCHANGED <<succ, list, pred>> PROVE FreshInv'
  BY <1>0, <1>3, <1>4, <1>5 DEF ListFull
<1>6. ASSUME NEW n \in up, NEW s \in up, s # n, succ[n] = s PROVE pred[s] = n
  <2>1. up # {n} /\ up # {s}
    BY <1>6
  <2>2. After(up, n, s) /\ pred[s] \in up /\ After(up, pred[s], s)
    BY <1>2, <1>6, <2>1
  <2> QED BY <1>1, <2>2, AfterOne
<1>7. ASSUME NEW t \in up, CallErr(t) PROVE FALSE
  BY <1>1, <1>7 DEF CallErr
<1>8. ASSUME NEW n \in Nodes, Start(n) \/ TransferDone(n) PROVE UNCHANGED <<succ, list, pred>>
  BY <1>8 DEF Start, TransferDone, members
<1>9. ASSUME NEW n \in Nodes, NEW t \in Nodes, JoinFails(n, t) \/ \E s \in Nodes : Join(n, t, s)
      PROVE  FALSE
  BY <1>0, <1>9 DEF Join, JoinFails, CountsInv, Fresh
<1>10. ASSUME NEW n \in Nodes, CheckPredecessor(n) PROVE FALSE
  <2>1. pred[n] \in up /\ CallErr(pred[n])
    BY <1>1, <1>10 DEF CheckPredecessor, PointersInv
  <2> QED BY <1>7, <2>1
<1>11. ASSUME NEW n \in Nodes, NEW c \in Nodes, Failover(n, c) PROVE FALSE
  <2>1. succ[n] \in up /\ CallErr(succ[n])
    BY <1>1, <1>11 DEF Failover, PointersInv
  <2> QED BY <1>7, <2>1
<1>12. ASSUME NEW n \in Nodes, Adopt(n) PROVE FALSE
  <2>1. /\ n \in up /\ succ[n] \in up \ {n} /\ is_between(pred[succ[n]], n, succ[n])
    BY <1>12 DEF Adopt
  <2>2. pred[succ[n]] = n
    BY <1>6, <2>1
  <2>3. is_between(n, n, succ[n])
    BY <2>1, <2>2
  <2> QED BY <1>1, <2>1, <2>3, NotBetween
<1>13. ASSUME NEW n \in Nodes, NEW s \in Nodes, Notify(n, s) PROVE FALSE
  <2>1. /\ n \in up /\ s \in up /\ succ[n] = s /\ s # n
        /\ pred[s] # None => is_between(n, pred[s], s)
    BY <1>13 DEF Notify
  <2>2. pred[s] = n
    BY <1>6, <2>1
  <2>3. is_between(n, n, s)
    BY <1>1, <2>1, <2>2
  <2> QED BY <1>1, <2>1, <2>3, NotBetween
<1>14. ASSUME NEW n \in Nodes, UpdateSuccessorList(n) PROVE FreshInv'
  <2>0. n \in up /\ UNCHANGED <<succ, pred>>
    BY <1>14 DEF UpdateSuccessorList
  <2>1. PICK k \in 1 .. SUCCESSOR_LIST_SIZE : \E c \in [1 .. k -> Nodes] : ListChain(n, k, c)
    BY <1>14, ListChains
  <2>2. PICK c \in [1 .. k -> Nodes] : ListChain(n, k, c)
    BY <2>1
  <2>3. PICK L : L = {c[i] : i \in 1 .. k}
    OBVIOUS
  <2>4. list' = [list EXCEPT ![n] = L]
    BY <2>2, <2>3 DEF ListChain
  <2>5. up \ {n} \subseteq L \/ Cardinality(L \ {n}) >= SUCCESSOR_LIST_SIZE
    <3>1. CASE up = {n}
      BY <3>1
    <3>2. CASE up # {n}
      BY <1>0, <1>1, <2>0, <2>2, <2>3, <3>2, ChainFills
    <3> QED BY <3>1, <3>2
  <2>6. ASSUME NEW x \in up PROVE ListFull(x)'
    <3>1. CASE x = n
      <4>1. list'[x] = L
        BY <1>1, <2>4, <3>1
      <4> QED BY <1>0, <2>5, <3>1, <4>1 DEF ListFull
    <3>2. CASE x # n
      <4>1. list'[x] = list[x] /\ ListFull(x)
        BY <1>1, <1>3, <2>4, <3>2
      <4> QED BY <1>0, <4>1 DEF ListFull
    <3> QED BY <3>1, <3>2
  <2> QED BY <1>4, <2>0, <2>6
<1>15. Quiet => UNCHANGED <<succ, list, pred>>
  BY DEF Quiet, members
<1> QED
  BY <1>0, <1>5, <1>8, <1>9, <1>10, <1>11, <1>12, <1>13, <1>14, <1>15, StepKinds

\* In such a ring get_replica_nodes gives enough nodes, or all.
LEMMA ReplicasEnough ==
    ASSUME TypeOK, PointersInv, FreshInv, Fresh, NEW n \in up, NEW key, NEW R \in SUBSET Nodes,
           ReplicaNodes(n, key, R)
    PROVE  \/ Cardinality(R \cup {n}) >= REPLICATION_FACTOR
           \/ Cardinality(R \cup {n}) >= Cardinality(known)
<1>0. /\ known \in SUBSET Nodes /\ up = known /\ n \in Nodes /\ list[n] \in SUBSET Nodes
      /\ ListFull(n)
  BY DEF TypeOK, FreshInv
<1>1. /\ REPLICATION_FACTOR \in Nat \ {0} /\ SUCCESSOR_LIST_SIZE \in Nat
      /\ REPLICATION_FACTOR <= SUCCESSOR_LIST_SIZE + 1
  BY BoundsAssumption, ListAssumption DEF BoundsAssumption, ListAssumption
<1>2. PICK k \in Nat : k = REPLICATION_FACTOR - 1
  BY <1>1
<1>3. PICK p \in Nodes : \E F \in SUBSET known :
         R = ({p} \cup Smallest((list[n] \cup F) \ {n, p}, k)) \ {n}
  BY <1>2 DEF ReplicaNodes
<1>4. PICK F \in SUBSET known : R = ({p} \cup Smallest((list[n] \cup F) \ {n, p}, k)) \ {n}
  BY <1>3
<1>5. PICK C : C = (list[n] \cup F) \ {n, p}
  OBVIOUS
<1>6. C \in SUBSET Nodes
  BY <1>0, <1>5
<1>7. PICK S : S = Smallest(C, k)
  OBVIOUS
<1>8. S \in SUBSET C /\ (S = C \/ Cardinality(S) >= k)
  BY <1>6, <1>7, SmallestEnough
<1>9. R \cup {n} = {n, p} \cup S /\ n \notin S
  BY <1>4, <1>5, <1>7, <1>8
<1>10. PICK Q \in SUBSET Nodes : Q = R \cup {n}
  BY <1>0
<1>11. IsFiniteSet(Q) /\ Cardinality(Q) \in Nat
  BY <1>10, NodesFinite
<1>12. ASSUME NEW X \in SUBSET Q, n \notin X, Cardinality(X) >= k
       PROVE  Cardinality(Q) >= REPLICATION_FACTOR
  <2>1. IsFiniteSet(X) /\ Cardinality(X) \in Nat
    BY <1>11, FS_Subset, FS_CardinalityType
  <2>2. IsFiniteSet(X \cup {n}) /\ Cardinality(X \cup {n}) = Cardinality(X) + 1
    BY <1>12, <2>1, FS_AddElement
  <2>3. X \cup {n} \in SUBSET Q
    BY <1>10
  <2>4. Cardinality(X \cup {n}) <= Cardinality(Q)
    BY <1>11, <2>3, FS_Subset
  <2> QED BY <1>1, <1>2, <1>11, <1>12, <2>1, <2>2, <2>4
<1>13. CASE Cardinality(S) >= k
  <2>1. S \in SUBSET Q
    BY <1>9, <1>10
  <2> QED BY <1>9, <1>10, <1>12, <1>13, <2>1
<1>14. CASE S = C
  <2>1. list[n] \ {n} \in SUBSET Q
    BY <1>5, <1>9, <1>10, <1>14
  <2>2. CASE up \ {n} \subseteq list[n]
    <3>1. known \in SUBSET Q
      BY <1>0, <1>10, <2>1, <2>2
    <3>2. Cardinality(known) <= Cardinality(Q) /\ Cardinality(known) \in Nat
      BY <1>11, <3>1, FS_Subset, FS_CardinalityType
    <3>3. Cardinality(Q) >= Cardinality(known)
      BY <1>11, <3>2
    <3> QED BY <1>10, <3>3
  <2>3. CASE Cardinality(list[n] \ {n}) >= SUCCESSOR_LIST_SIZE
    <3>1. Cardinality(list[n] \ {n}) \in Nat
      BY <1>0, NodesFinite
    <3>2. Cardinality(list[n] \ {n}) >= k
      BY <1>1, <1>2, <2>3, <3>1
    <3>3. Cardinality(Q) >= REPLICATION_FACTOR
      BY <1>12, <2>1, <3>2
    <3> QED BY <1>10, <3>3
  <2> QED BY <1>0, <2>2, <2>3 DEF ListFull
<1> QED BY <1>8, <1>13, <1>14

LEMMA NextGoals ==
    ASSUME TypeOK, TypeOK', StorageInv, FreshInv, GoalsInv, [Next]_vars
    PROVE  GoalsInv'
<1> SUFFICES ASSUME Fresh', NEW m \in Msgs, sent'[m] \in {"replicating", "acked"}
             PROVE  \/ Cardinality(goal'[m]) >= REPLICATION_FACTOR
                    \/ Cardinality(goal'[m]) >= Cardinality(known')
  BY DEF GoalsInv
<1>0. Fresh /\ known' = known /\ \A n \in Nodes : ~Crash(n)
  BY FreshBack DEF StorageInv
<1>1. CASE sent[m] \in {"replicating", "acked"} /\ goal'[m] = goal[m]
  BY <1>0, <1>1 DEF GoalsInv
<1>2. CASE Untouched(m)
  BY <1>1, <1>2 DEF Untouched
<1>3. CASE SendMessage(m)
  <2>1. sent'[m] \in {"stored", "failed"}
    BY <1>3 DEF SendMessage, TypeOK
  <2> QED BY <2>1
<1>4. CASE SelectReplicas(m)
  <2>1. PICK R \in SUBSET Nodes : /\ ReplicaNodes(at[m], KeyOf[m], R)
                                  /\ goal' = [goal EXCEPT ![m] = R \cup {at[m]}]
    BY <1>4 DEF SelectReplicas
  <2>2. goal'[m] = R \cup {at[m]}
    BY <2>1 DEF TypeOK
  <2>3. at[m] \in Nodes /\ m \in data[at[m]]
    BY <1>4 DEF SelectReplicas, TypeOK, StorageInv, DataInv, StoredInv
  <2>4. at[m] \in up
    BY <1>0, <2>3 DEF StorageInv, LifeInv, Lives, CountsInv, Fresh
  <2>5. \/ Cardinality(R \cup {at[m]}) >= REPLICATION_FACTOR
        \/ Cardinality(R \cup {at[m]}) >= Cardinality(known)
    BY <1>0, <2>1, <2>4, ReplicasEnough DEF StorageInv
  <2> QED BY <1>0, <2>2, <2>5
<1>5. CASE Acknowledge(m) \/ \E t \in Nodes : Replicate(m, t)
  <2>1. sent[m] = "replicating" /\ goal' = goal
    BY <1>5 DEF Acknowledge, Replicate
  <2> QED BY <1>1, <2>1
<1> QED BY <1>0, <1>2, <1>3, <1>4, <1>5, Touches

LEMMA FreshInvariant == Spec => [](TypeOK /\ StorageInv /\ FreshInv /\ GoalsInv)
<1>1. TypeOK /\ TypeOK' /\ StorageInv /\ FreshInv /\ GoalsInv /\ [Next]_vars
         => FreshInv' /\ GoalsInv'
  BY NextFresh, NextGoals DEF StorageInv
<1> QED BY <1>1, StorageInvariant, InitFresh, PTL DEF Spec

LEMMA InvEnough == TypeOK /\ GoalsInv => EnoughReplicas
<1> SUFFICES ASSUME TypeOK, GoalsInv, crashes + drops + joins = 0, NEW m \in Acked
             PROVE  \/ Cardinality(goal[m]) >= REPLICATION_FACTOR
                    \/ Cardinality(goal[m]) >= Cardinality(known)
  BY DEF EnoughReplicas
<1>1. crashes \in Nat /\ drops \in Nat /\ joins \in Nat
  BY DEF TypeOK
<1>2. Fresh
  BY <1>1 DEF Fresh
<1> QED BY <1>2 DEF GoalsInv, Acked

\* Until something fails or joins, every message goes to REPLICATION_FACTOR nodes
\* or to all there are, wherever lookups and fingers lead: walking from successor
\* to successor fills the list, and a full list is enough.
THEOREM FreshRingReplicates == Spec => []EnoughReplicas
BY FreshInvariant, InvEnough, PTL

=============================================================================
