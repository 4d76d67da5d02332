---------------------------- MODULE Lookup_proofs ---------------------------
(***************************************************************************)
(* Facts about the circular intervals of lib/src/lib.rs, for every width   *)
(* M, and lemmas about one step of a lookup, shared by the modules that    *)
(* run lookups.                                                            *)
(***************************************************************************)
EXTENDS Lookup, TLAPS, WellFoundedInduction, SequenceTheorems

-----------------------------------------------------------------------------
(* Numbers and intervals                                                   *)

\* Every nonempty set of naturals has a least element.
LEMMA LeastNat ==
    ASSUME NEW T \in SUBSET Nat, T # {}
    PROVE  \E x \in T : \A y \in T : x <= y
<1>1. IsWellFoundedOn(OpToRel(<, Nat), Nat)
  BY NatLessThanWellFounded
<1>2. PICK x \in T : \A y \in T : ~(<<y, x>> \in OpToRel(<, Nat))
  BY <1>1, WFMin
<1>3. \A y \in T : ~(y < x)
  BY <1>2 DEF OpToRel
<1> QED BY <1>3

\* Induction, with the property given as the set of the numbers that have it.
LEMMA Induction ==
    ASSUME NEW S \in SUBSET Nat, 0 \in S, \A n \in S : n + 1 \in S
    PROVE  S = Nat
<1> SUFFICES ASSUME Nat \ S # {} PROVE FALSE
  OBVIOUS
<1>1. PICK x \in Nat \ S : \A y \in Nat \ S : x <= y
  BY LeastNat
<1>2. x # 0 /\ x - 1 \in Nat
  BY <1>1
<1>3. x - 1 \in S
  BY <1>1, <1>2
<1> QED BY <1>1, <1>2, <1>3

\* is_between is the interval test by clockwise distance from start.
THEOREM BetweenIsDistance ==
    ASSUME NEW id \in Ids, NEW start \in Ids, NEW end \in Ids
    PROVE  is_between(id, start, end) <=>
              0 < Distance(start, id) /\ Distance(start, id) <= Distance(start, end)
BY PowersOfTwo DEF Ids, is_between, Distance

\* (start, b] is contained in (start, end] when b lies in it.
LEMMA BetweenShrinks ==
    ASSUME NEW a \in Ids, NEW b \in Ids, NEW start \in Ids, NEW end \in Ids,
           is_between(a, start, b), is_between(b, start, end)
    PROVE  is_between(a, start, end)
BY PowersOfTwo DEF Ids, is_between

\* The interval contains its end, and never its start.
LEMMA BetweenEnds ==
    ASSUME NEW start \in Ids, NEW end \in Ids
    PROVE  /\ start # end => is_between(end, start, end)
           /\ ~is_between(start, start, end)
BY PowersOfTwo DEF Ids, is_between

\* A point of (start, id] is strictly closer to id than start is.
LEMMA BetweenIsCloser ==
    ASSUME NEW x \in Ids, NEW start \in Ids, NEW id \in Ids,
           is_between(x, start, id)
    PROVE  Distance(x, id) < Distance(start, id)
BY PowersOfTwo DEF Ids, is_between, Distance

\* Of two points other than start, one comes first clockwise.
LEMMA BetweenTotal ==
    ASSUME NEW a \in Ids, NEW b \in Ids, NEW start \in Ids,
           a # start, b # start
    PROVE  is_between(a, start, b) \/ is_between(b, start, a)
BY PowersOfTwo DEF Ids, is_between

\* From a point of (start, s], s comes before start and all that follows s.
LEMMA BetweenNearest ==
    ASSUME NEW id \in Ids, NEW start \in Ids, NEW s \in Ids, NEW m \in Ids,
           is_between(id, start, s), m = start \/ is_between(s, start, m)
    PROVE  Distance(id, s) <= Distance(id, m)
BY PowersOfTwo DEF Ids, is_between, Distance

LEMMA FingerTargetInIds ==
    ASSUME NEW id \in Ids, NEW i \in 0 .. M - 1
    PROVE  add_id_power_of_2(id, i) \in Ids
<1> DEFINE p == 2^M
<1>1. p \in Nat \ {0} /\ id + 2^i \in Nat
  BY PowersOfTwo, MAssumption DEF Ids
<1> HIDE DEF p
<1>2. (id + 2^i) % p \in 0 .. p - 1
  BY <1>1
<1> QED
  BY <1>2 DEF Ids, add_id_power_of_2, p

-----------------------------------------------------------------------------
(* Lookups                                                                 *)

LEMMA ListIsSeq ==
    ASSUME NEW l \in [1 .. SUCCESSOR_LIST_SIZE -> Nodes]
    PROVE  l \in Seq(Nodes)
BY SizesAssumption, SeqDef

LEMMA CallDrops ==
    ASSUME NEW t, drops \in 0 .. MaxDrops, CallOk(t) \/ CallErr(t)
    PROVE  drops' \in 0 .. MaxDrops
BY SizesAssumption DEF CallOk, CallErr

\* The candidate returned is a node, and lies in (m, id] unless it is m.
LEMMA ClosestPreceding ==
    ASSUME NEW m \in Nodes, NEW id \in Ids, NEW r,
           finger_table \in [Nodes -> [0 .. M - 1 -> Nodes]],
           closest_preceding_node(m, id, r)
    PROVE  r \in Nodes /\ (r = m \/ is_between(r, m, id))
BY DEF closest_preceding_node

\* The list of a quiet ring is one of nodes: its recursive definition has a
\* solution, and every solution stays within the nodes.
LEMMA ExactListTyped ==
    ASSUME NEW n \in Nodes, successor \in [Nodes -> Nodes]
    PROVE  ExactList(n) \in [1 .. SUCCESSOR_LIST_SIZE -> Nodes]
<1> USE SizesAssumption
<1> DEFINE K == SUCCESSOR_LIST_SIZE
           nxt(m) == IF successor[m] = n THEN m ELSE successor[m]
           T == {k \in Nat : \E g \in [1 .. k -> Nodes] : \A j \in 1 .. k :
                    g[j] = IF j = 1 THEN successor[n] ELSE nxt(g[j - 1])}
<1>1. 0 \in T
  <2>1. [j \in 1 .. 0 |-> n] \in [1 .. 0 -> Nodes] /\ 1 .. 0 = {}
    OBVIOUS
  <2> QED BY <2>1
<1>2. ASSUME NEW k \in T PROVE k + 1 \in T
  <2>1. PICK g \in [1 .. k -> Nodes] : \A j \in 1 .. k :
           g[j] = IF j = 1 THEN successor[n] ELSE nxt(g[j - 1])
    OBVIOUS
  <2> DEFINE v == IF k = 0 THEN successor[n] ELSE nxt(g[k])
             h == [j \in 1 .. k + 1 |-> IF j = k + 1 THEN v ELSE g[j]]
  <2>2. v \in Nodes
    BY <2>1
  <2> HIDE DEF v
  <2>3. h \in [1 .. k + 1 -> Nodes]
    BY <2>1, <2>2
  <2>4. ASSUME NEW j \in 1 .. k + 1
        PROVE  h[j] = IF j = 1 THEN successor[n] ELSE nxt(h[j - 1])
    <3>1. CASE j = k + 1
      BY <2>1, <2>2, <3>1 DEF v
    <3>2. CASE j # k + 1
      BY <2>1, <3>2
    <3> QED BY <3>1, <3>2
  <2> HIDE DEF h
  <2> QED BY <2>3, <2>4
<1>3. K \in T
  <2> HIDE DEF T
  <2>1. T \in SUBSET Nat
    BY DEF T
  <2>2. T = Nat
    BY <1>1, <1>2, <2>1, Induction
  <2> QED BY <2>2
<1>4. PICK g \in [1 .. K -> Nodes] : \A j \in 1 .. K :
         g[j] = IF j = 1 THEN successor[n] ELSE nxt(g[j - 1])
  BY <1>3
<1> DEFINE e == ExactList(n)
           U == {k \in Nat : k \in 1 .. K => e[k] \in Nodes}
<1>5. e = [j \in 1 .. K |-> IF j = 1 THEN successor[n]
                           ELSE IF successor[e[j - 1]] = n THEN e[j - 1]
                           ELSE successor[e[j - 1]]]
  <2>1. g = [j \in 1 .. K |-> IF j = 1 THEN successor[n]
                             ELSE IF successor[g[j - 1]] = n THEN g[j - 1]
                             ELSE successor[g[j - 1]]]
    BY <1>4
  <2> HIDE DEF K
  <2> QED BY <2>1, Zenon DEF ExactList, K
<1> HIDE DEF e
<1>6. 0 \in U
  OBVIOUS
<1>7. ASSUME NEW k \in U PROVE k + 1 \in U
  <2>1. CASE k = 0
    BY <1>5, <2>1
  <2>2. CASE k # 0
    BY <1>5, <2>2
  <2> QED BY <2>1, <2>2
<1>8. U = Nat
  <2> HIDE DEF U
  <2>1. U \in SUBSET Nat
    BY DEF U
  <2> QED BY <1>6, <1>7, <2>1, Induction
<1>9. \A k \in 1 .. K : e[k] \in Nodes
  BY <1>8
<1>10. e \in [1 .. K -> Nodes]
  BY <1>5, <1>9
<1> QED BY <1>10 DEF e

LEMMA BeginTyped ==
    ASSUME NEW p \in Nodes, NEW a \in Nodes, NEW id \in Ids,
           NEW i \in 0 .. M - 1, NEW P,
           LookupTypeOK, BeginLookup(p, a, id, i),
           UNCHANGED <<successor, successor_list, finger_table>>,
           status' \in [Nodes -> {"down", "joining", "up"}],
           pc \in [Nodes -> P]
    PROVE  LookupTypeOK'
<1> USE SizesAssumption, MAssumption
<1>1. lk' \in [Nodes -> Lookups]
  BY DEF LookupTypeOK, BeginLookup, Lookups
<1>2. \A q \in Nodes : /\ pc'[q] = "find" => lk'[q].retry < MAX_RETRIES
                       /\ pc'[q] = "done" => resp'[q] \in Nodes
  <2> SUFFICES ASSUME NEW q \in Nodes
               PROVE  /\ pc'[q] = "find" => lk'[q].retry < MAX_RETRIES
                      /\ pc'[q] = "done" => resp'[q] \in Nodes
    OBVIOUS
  <2>1. CASE q = p
    BY <2>1 DEF LookupTypeOK, BeginLookup, LoopPc
  <2>2. CASE q # p
    BY <2>2 DEF LookupTypeOK, BeginLookup
  <2> QED BY <2>1, <2>2
<1> QED
  BY <1>1, <1>2 DEF LookupTypeOK, BeginLookup

LEMMA StepTyped ==
    ASSUME NEW p \in Nodes, NEW P, LookupTypeOK, LookupStep(p),
           pc \in [Nodes -> P]
    PROVE  LookupTypeOK'
<1> USE SizesAssumption, MAssumption, NodesAssumption
<1> DEFINE Rest == \A q \in Nodes :
              /\ pc'[q] = "find" => lk'[q].retry < MAX_RETRIES
              /\ pc'[q] = "done" => resp'[q] \in Nodes
<1>1. CASE FindHop(p)
  <2>1. drops' \in 0 .. MaxDrops
    BY <1>1, CallDrops DEF FindHop, LookupTypeOK
  <2>2. lk[p] \in Lookups /\ lk[p].retry + 1 \in 0 .. MAX_RETRIES
    <3>1. pc[p] = "find"
      BY <1>1 DEF FindHop
    <3>2. lk[p] \in Lookups /\ lk[p].retry < MAX_RETRIES
      BY <3>1 DEF LookupTypeOK
    <3>3. lk[p].retry \in 0 .. MAX_RETRIES
      BY <3>2 DEF Lookups
    <3> QED BY <3>2, <3>3
  <2>3. lk' \in [Nodes -> Lookups]
    <3>1. PICK np \in Nodes :
             lk' = [lk EXCEPT ![p] = Moved(p, np, lk[p].retry + 1)]
      BY <1>1, <2>2 DEF FindHop, Lookups
    <3>2. Moved(p, np, lk[p].retry + 1) \in Lookups
      BY <2>2 DEF Moved, Lookups
    <3> QED BY <3>1, <3>2 DEF LookupTypeOK
  <2>4. Rest
    <3>1. pc'[p] \in {"final", "getsucc"}
      BY <1>1 DEF FindHop
    <3>2. \A q \in Nodes \ {p} : pc'[q] = pc[q] /\ lk'[q] = lk[q]
      BY <1>1 DEF FindHop, LookupTypeOK
    <3> QED BY <1>1, <3>1, <3>2 DEF FindHop, LookupTypeOK
  <2> QED BY <1>1, <2>1, <2>3, <2>4 DEF FindHop, LookupTypeOK, ringPointers
<1>2. CASE FindGetSuccessor(p)
  <2>1. drops' \in 0 .. MaxDrops
    BY <1>2, CallDrops DEF FindGetSuccessor, LookupTypeOK
  <2>2. lk' \in [Nodes -> Lookups] /\ lk'[p].retry = lk[p].retry
    <3>1. lk[p] \in Lookups /\ successor[lk[p].np] \in Nodes
      BY DEF LookupTypeOK, Lookups
    <3>2. CASE lk' = lk
      BY <3>2 DEF LookupTypeOK
    <3>3. CASE lk' = [lk EXCEPT ![p].cs = successor[lk[p].np]]
      BY <3>1, <3>3 DEF LookupTypeOK, Lookups
    <3> QED BY <1>2, <3>2, <3>3 DEF FindGetSuccessor
  <2>3. pc'[p] # "done" /\ (pc'[p] = "find" => lk[p].retry # MAX_RETRIES)
    BY <1>2 DEF FindGetSuccessor, LoopPc
  <2>4. \A q \in Nodes \ {p} : pc'[q] = pc[q] /\ lk'[q] = lk[q]
    BY <1>2 DEF FindGetSuccessor, LookupTypeOK
  <2>5. lk[p].retry \in 0 .. MAX_RETRIES
    BY DEF LookupTypeOK, Lookups
  <2>6. Rest
    BY <1>2, <2>2, <2>3, <2>4, <2>5 DEF FindGetSuccessor, LookupTypeOK
  <2> QED
    BY <1>2, <2>1, <2>2, <2>6 DEF FindGetSuccessor, LookupTypeOK, ringPointers
<1>3. CASE FindFinal(p)
  <2>1. drops' \in 0 .. MaxDrops
    BY <1>3, CallDrops DEF FindFinal, LookupTypeOK
  <2>2. lk[p].np \in Nodes /\ lk[p].at \in Nodes
    BY DEF LookupTypeOK, Lookups
  <2>3. list' \in [Nodes -> Seq(Nodes)]
    <3>1. successor_list[lk[p].at] \in Seq(Nodes)
      BY <2>2, ListIsSeq DEF LookupTypeOK
    <3> QED BY <1>3, <3>1 DEF FindFinal, LookupTypeOK
  <2>4. resp' \in [Nodes -> Nodes \cup {None}]
    BY <1>3, <2>2 DEF FindFinal, LookupTypeOK
  <2>5. Rest
    <3>1. pc'[p] = "backup" \/ (pc'[p] = "done" /\ resp'[p] \in Nodes)
      BY <1>3, <2>2 DEF FindFinal, LookupTypeOK
    <3>2. lk' = lk /\ \A q \in Nodes \ {p} : pc'[q] = pc[q] /\ resp'[q] = resp[q]
      BY <1>3 DEF FindFinal, LookupTypeOK
    <3> QED BY <3>1, <3>2 DEF LookupTypeOK
  <2> QED
    BY <1>3, <2>1, <2>3, <2>4, <2>5 DEF FindFinal, LookupTypeOK, ringPointers
<1>4. CASE FindBackup(p)
  <2>1. drops' \in 0 .. MaxDrops
    BY <1>4, CallDrops
    DEF FindBackup, LookupTypeOK, SkipCandidate, FoundCandidate, Exhausted
  <2>2. lk[p].at \in Nodes /\ list[p] \in Seq(Nodes)
    BY DEF LookupTypeOK, Lookups
  <2>3. list[p] # << >> => Head(list[p]) \in Nodes /\ Tail(list[p]) \in Seq(Nodes)
    BY <2>2
  <2>4. << >> \in Seq(Nodes)
    OBVIOUS
  <2>5. list' \in [Nodes -> Seq(Nodes)]
    BY <1>4, <2>3, <2>4 DEF FindBackup, LookupTypeOK, SkipCandidate
  <2>6. \/ resp' = resp /\ pc' = pc
        \/ \E r \in Nodes : /\ resp' = [resp EXCEPT ![p] = r]
                            /\ pc' = [pc EXCEPT ![p] = "done"]
    <3>1. successor[lk[p].at] \in Nodes
      BY <2>2 DEF LookupTypeOK
    <3>2. FoundCandidate(p, lk[p].at) => Head(list[p]) \in Nodes
      BY <2>3 DEF FoundCandidate
    <3> QED BY <1>4, <3>1, <3>2 DEF FindBackup
  <2>7. resp' \in [Nodes -> Nodes \cup {None}]
    <3>1. resp \in [Nodes -> Nodes \cup {None}]
      BY DEF LookupTypeOK
    <3>2. ASSUME NEW r \in Nodes, resp' = [resp EXCEPT ![p] = r]
          PROVE  resp' \in [Nodes -> Nodes \cup {None}]
      BY <3>1, <3>2
    <3> QED BY <2>6, <3>1, <3>2
  <2>8. Rest
    <3>1. lk' = lk
      BY <1>4 DEF FindBackup
    <3> QED BY <2>6, <3>1 DEF LookupTypeOK
  <2> QED
    BY <1>4, <2>1, <2>5, <2>7, <2>8 DEF FindBackup, LookupTypeOK, ringPointers
<1> QED
  BY <1>1, <1>2, <1>3, <1>4 DEF LookupStep

\* A lookup step moves only its own task, and leaves the pointers alone.
LEMMA StepPc ==
    ASSUME NEW p \in Nodes, NEW P, LookupStep(p), pc \in [Nodes -> P]
    PROVE  /\ pc[p] \in LookupPcs
           /\ \E l \in LookupPcs \cup {"done"} : pc' = [pc EXCEPT ![p] = l]
           /\ UNCHANGED <<status, successor, successor_list, finger_table>>
<1>1. CASE FindHop(p)
  BY <1>1 DEF FindHop, LookupPcs, ringPointers
<1>2. CASE FindGetSuccessor(p)
  BY <1>2 DEF FindGetSuccessor, LookupPcs, LoopPc, ringPointers
<1>3. CASE FindFinal(p)
  BY <1>3 DEF FindFinal, LookupPcs, ringPointers
<1>4. CASE FindBackup(p)
  BY <1>4 DEF FindBackup, LookupPcs, ringPointers
<1> QED
  BY <1>1, <1>2, <1>3, <1>4 DEF LookupStep

=============================================================================
