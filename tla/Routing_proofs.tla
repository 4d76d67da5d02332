--------------------------- MODULE Routing_proofs ---------------------------
(***************************************************************************)
(* Theorems about lookups over a ring with exact successors, for any set   *)
(* of nodes, any width of the identifiers, any stale fingers and any       *)
(* number of failing calls.                                                *)
(***************************************************************************)
EXTENDS Routing, Lookup_proofs

USE NodesAssumption, NoneAssumption, SizesAssumption, MAssumption,
    CallersAssumption, TargetsAssumption, FixIdxAssumption

-----------------------------------------------------------------------------
(* Type correctness                                                        *)

LEMMA InitTyped == Init => TypeOK
<1> SUFFICES ASSUME Init PROVE TypeOK
  OBVIOUS
<1>1. lk \in [Nodes -> Lookups]
  BY DEF Init, NoLookup, Lookups
<1>2. << >> \in Seq(Nodes)
  OBVIOUS
<1>3. successor_list \in [Nodes -> [1 .. SUCCESSOR_LIST_SIZE -> Nodes]]
  BY ExactListTyped DEF Init
<1>4. finger_table \in [Nodes -> [0 .. M - 1 -> Nodes]]
  BY DEF Init
<1>5. LookupTypeOK
  <2>1. /\ status \in [Nodes -> {"down", "joining", "up"}]
        /\ successor \in [Nodes -> Nodes]
        /\ list \in [Nodes -> Seq(Nodes)]
        /\ resp \in [Nodes -> Nodes \cup {None}]
        /\ drops \in 0 .. MaxDrops
    BY <1>2 DEF Init
  <2>2. \A p \in Nodes : pc[p] = "idle"
    BY DEF Init
  <2> QED BY <1>1, <1>3, <1>4, <2>1, <2>2 DEF LookupTypeOK
<1> QED BY <1>5 DEF Init, TypeOK

LEMMA NextTyped == TypeOK /\ [Next]_lookupVars => TypeOK'
<1> SUFFICES ASSUME TypeOK, [Next]_lookupVars PROVE TypeOK'
  OBVIOUS
<1> DEFINE P == LookupPcs \cup {"idle", "done"}
<1>0. LookupTypeOK /\ pc \in [Nodes -> P]
  BY DEF TypeOK
<1>1. ASSUME NEW p \in Callers, NEW id \in Ids, NEW i \in 0 .. M - 1,
             BeginLookup(p, p, id, i), UNCHANGED ringPointers
      PROVE  TypeOK'
  <2>1. LookupTypeOK'
    <3>1. status' \in [Nodes -> {"down", "joining", "up"}]
      BY <1>0, <1>1 DEF LookupTypeOK, ringPointers
    <3> QED BY <1>0, <1>1, <3>1, BeginTyped DEF ringPointers
  <2>2. pc' \in [Nodes -> P]
    BY <1>0, <1>1 DEF BeginLookup, LoopPc, LookupPcs
  <2> QED BY <2>1, <2>2 DEF TypeOK
<1>2. ASSUME NEW p \in Callers, NEW id \in Targets, StartLookup(p, id) PROVE TypeOK'
  BY <1>1, <1>2 DEF StartLookup
<1>3. ASSUME NEW p \in Callers, NEW i \in FixIdx, FixFingers(p, i) PROVE TypeOK'
  <2>1. i \in 0 .. M - 1 /\ p \in Ids
    OBVIOUS
  <2>2. add_id_power_of_2(p, i) \in Ids
    BY <2>1, FingerTargetInIds
  <2> QED BY <1>1, <1>3, <2>1, <2>2 DEF FixFingers
<1>4. ASSUME NEW p \in Callers, LookupStep(p) PROVE TypeOK'
  <2>1. LookupTypeOK'
    BY <1>0, <1>4, StepTyped
  <2>2. PICK l \in LookupPcs \cup {"done"} : pc' = [pc EXCEPT ![p] = l]
    BY <1>0, <1>4, StepPc
  <2> QED BY <1>0, <2>1, <2>2 DEF TypeOK
<1>5. ASSUME NEW p \in Callers, FinishLookup(p) PROVE TypeOK'
  <2>1. resp[p] \in Nodes /\ lk[p].i \in 0 .. M - 1
    BY <1>0, <1>5 DEF FinishLookup, LookupTypeOK, Lookups
  <2>2. finger_table' \in [Nodes -> [0 .. M - 1 -> Nodes]]
    BY <1>0, <1>5, <2>1 DEF FinishLookup, LookupTypeOK
  <2>3. NoLookup(p) \in Lookups
    BY DEF NoLookup, Lookups
  <2>4. /\ lk' \in [Nodes -> Lookups] /\ resp' \in [Nodes -> Nodes \cup {None}]
        /\ pc' \in [Nodes -> P] /\ pc'[p] = "idle"
        /\ \A q \in Nodes \ {p} : pc'[q] = pc[q] /\ lk'[q] = lk[q] /\ resp'[q] = resp[q]
    BY <1>0, <1>5, <2>3 DEF FinishLookup, LookupTypeOK
  <2>5. LookupTypeOK'
    BY <1>0, <1>5, <2>2, <2>4 DEF FinishLookup, LookupTypeOK
  <2> QED BY <2>4, <2>5 DEF TypeOK
<1>6. CASE UNCHANGED lookupVars
  BY <1>6 DEF lookupVars, TypeOK, LookupTypeOK
<1> QED BY <1>2, <1>3, <1>4, <1>5, <1>6 DEF Next

\* Lookups keep the types: hop counts stay within the limit, and whatever calls
\* fail a finished lookup has a node for an answer.
THEOREM TypeCorrect == Spec => []TypeOK
BY InitTyped, NextTyped, PTL DEF Spec

-----------------------------------------------------------------------------
(* Hops                                                                    *)

\* Every hop of every lookup gets strictly closer to its identifier.
THEOREM HopsCloser == Spec => HopsAdvance
<1> DEFINE Adv == \A p \in Callers :
        (lk'[p].id = lk[p].id /\ lk[p].np # lk'[p].np /\ pc[p] = "find") =>
            Distance(lk'[p].np, lk[p].id) < Distance(lk[p].np, lk[p].id)
<1>1. ASSUME TypeOK, [Next]_lookupVars PROVE [Adv]_lookupVars
  <2> SUFFICES ASSUME Next, NEW p \in Callers,
                      lk[p].np # lk'[p].np, pc[p] = "find"
               PROVE  Distance(lk'[p].np, lk[p].id) < Distance(lk[p].np, lk[p].id)
    BY <1>1
  <2>0. LookupTypeOK /\ pc \in [Nodes -> LookupPcs \cup {"idle", "done"}] /\ lk[p] \in Lookups
    BY <1>1 DEF TypeOK, LookupTypeOK
  <2>1. PICK q \in Callers : \/ \E id \in Targets : StartLookup(q, id)
                             \/ \E i \in FixIdx : FixFingers(q, i)
                             \/ LookupStep(q)
                             \/ FinishLookup(q)
    BY DEF Next
  <2>2. q = p
    BY <2>0, <2>1 DEF StartLookup, FixFingers, BeginLookup, FinishLookup, LookupStep, FindHop,
                      FindGetSuccessor, FindFinal, FindBackup, LookupTypeOK
  <2>3. FindHop(p)
    BY <2>1, <2>2 DEF StartLookup, FixFingers, FinishLookup, LookupStep,
                      FindGetSuccessor, FindFinal, FindBackup
  <2>4. PICK next \in Nodes : /\ closest_preceding_node(lk[p].np, lk[p].id, next)
                              /\ lk' = [lk EXCEPT ![p] = Moved(p, next, lk[p].retry + 1)]
    BY <2>0, <2>3 DEF FindHop, Moved, LookupTypeOK
  <2>5. lk'[p].np = next
    BY <2>0, <2>4 DEF Moved, LookupTypeOK
  <2>6. lk[p].np \in Nodes /\ lk[p].id \in Ids
    BY <2>0 DEF Lookups
  <2>7. is_between(next, lk[p].np, lk[p].id)
    BY <2>0, <2>4, <2>5, <2>6, ClosestPreceding DEF LookupTypeOK
  <2> QED BY <2>5, <2>6, <2>7, BetweenIsCloser
<1> QED BY <1>1, TypeCorrect, PTL DEF Spec, HopsAdvance

-----------------------------------------------------------------------------
(* The answers                                                             *)

\* The ring stays as it is: lookups write fingers, never successors.
ExactRing == \A n \in Nodes : status[n] = "up" /\ NextNode(Nodes, n, successor[n])

\* A lookup that leaves the loop at np for its successor is right to do so.
Ends(np, id) == is_between(id, np, successor[np]) \/ np = id \/ successor[np] = np

Right(id, r) == Owner(Nodes, id, r) \/ (id \in Nodes /\ NextNode(Nodes, id, r))

\* Where the lookup of p stands, and what it knows there.
Progress(p) ==
    /\ lk[p].at = p
    /\ pc[p] = "find" => /\ lk[p].cs = successor[lk[p].np]
                         /\ ~is_between(lk[p].id, lk[p].np, lk[p].cs)
    /\ pc[p] = "backup" => drops > 0
    /\ (pc[p] = "final" /\ drops = 0 /\ lk[p].retry < MAX_RETRIES) =>
          Ends(lk[p].np, lk[p].id)
    /\ (pc[p] = "done" /\ drops = 0 /\ lk[p].retry < MAX_RETRIES) =>
          Right(lk[p].id, resp[p])

\* A finger under repair whose target the successor owns needs no call.
Repair(p) ==
    pc[p] # "idle" =>
        /\ lk[p].i # 0 => lk[p].id = add_id_power_of_2(p, lk[p].i)
        /\ is_between(lk[p].id, p, successor[p]) =>
              /\ pc[p] \in {"final", "done"} /\ lk[p].np = p
              /\ pc[p] = "done" => resp[p] = successor[p]

\* The finger of SuccessorFingerKept, and why refreshing it leaves it.
KeptFinger(n) ==
    \E i \in 0 .. M - 1 :
        /\ finger_table[n][i] = successor[n]
        /\ \/ is_between(add_id_power_of_2(n, i), n, successor[n])
           \/ successor[n] = n

RoutingInv ==
    /\ TypeOK
    /\ ExactRing
    /\ \A p \in Nodes : Progress(p) /\ Repair(p) /\ KeptFinger(p)

\* The owner of the identifiers up to a node's successor is that successor.
LEMMA SuccessorOwns ==
    ASSUME NEW np \in Nodes, NEW s \in Nodes, NEW id \in Ids,
           NextNode(Nodes, np, s), Ends(np, id), s = successor[np]
    PROVE  Right(id, s)
<1>1. CASE is_between(id, np, s)
  <2>1. ASSUME NEW m \in Nodes PROVE Distance(id, s) <= Distance(id, m)
    <3>1. m = np \/ is_between(s, np, m)
      BY DEF NextNode
    <3> QED BY <1>1, <3>1, BetweenNearest
  <2> QED BY <2>1 DEF Right, Owner
<1>2. CASE np = id
  BY <1>2 DEF Right
<1>3. CASE s = np
  <2>1. Nodes = {s}
    BY <1>3 DEF NextNode
  <2>2. Distance(id, s) \in Int
    BY PowersOfTwo DEF Distance, Ids
  <2> QED BY <2>1, <2>2 DEF Right, Owner
<1> QED BY <1>1, <1>2, <1>3 DEF Ends

\* When a node names itself as closest preceding, its successor is the answer:
\* the finger it keeps to its successor was not short of the identifier.
LEMMA NoHopLeft ==
    ASSUME NEW np \in Nodes, NEW id \in Ids, TypeOK, KeptFinger(np),
           ~is_between(id, np, successor[np]),
           closest_preceding_node(np, id, np)
    PROVE  Ends(np, id)
<1>1. \A i \in 0 .. M - 1 : finger_table[np][i] \in Nodes
  BY DEF TypeOK, LookupTypeOK
<1>2. \A i \in 0 .. M - 1 : ~is_between(finger_table[np][i], np, id)
  <2>1. ~is_between(np, np, id)
    BY BetweenEnds
  <2> QED BY <2>1 DEF closest_preceding_node
<1>3. ~is_between(successor[np], np, id) /\ successor[np] \in Ids
  BY <1>1, <1>2 DEF KeptFinger
<1> QED BY <1>3, BetweenTotal DEF Ends

LEMMA InitRoutingInv == Init => RoutingInv
<1> SUFFICES ASSUME Init PROVE RoutingInv
  OBVIOUS
<1>1. TypeOK
  BY InitTyped
<1>2. ExactRing
  BY DEF Init, ExactRing
<1>3. ASSUME NEW p \in Nodes PROVE Progress(p) /\ Repair(p)
  <2>1. pc[p] = "idle" /\ lk[p].at = p
    BY DEF Init, NoLookup
  <2> QED BY <2>1 DEF Progress, Repair
<1>4. ASSUME NEW p \in Nodes PROVE KeptFinger(p)
  <2>1. PICK f \in [Nodes -> [FixIdx -> Nodes]] :
          /\ \A n \in Nodes : \A i \in FixIdx : PastFinger(n, i, f[n][i])
          /\ \A n \in Nodes : \E i \in FixIdx : f[n][i] = successor[n]
          /\ finger_table = [n \in Nodes |-> [i \in 0 .. M - 1 |->
                                IF i \in FixIdx THEN f[n][i] ELSE n]]
    BY DEF Init
  <2>2. PICK i \in FixIdx : f[p][i] = successor[p]
    BY <2>1
  <2>3. PastFinger(p, i, successor[p])
    BY <2>1, <2>2
  <2>4. i \in 0 .. M - 1 /\ finger_table[p][i] = successor[p]
    BY <2>1, <2>2
  <2> QED BY <2>3, <2>4 DEF KeptFinger, PastFinger
<1> QED BY <1>1, <1>2, <1>3, <1>4 DEF RoutingInv

\* What a step that touches neither successors nor other tasks leaves alone.
LEMMA OthersKeep ==
    ASSUME NEW p \in Nodes, NEW q \in Nodes \ {p}, TypeOK, Progress(q), Repair(q),
           successor' = successor, drops' = drops \/ drops' > 0, drops \in Nat,
           pc'[q] = pc[q], lk'[q] = lk[q], resp'[q] = resp[q]
    PROVE  Progress(q)' /\ Repair(q)'
<1>1. \A np, id : Ends(np, id)' <=> Ends(np, id)
  BY DEF Ends
<1>2. Progress(q)'
  BY <1>1 DEF Progress
<1>3. Repair(q)'
  BY DEF Repair
<1> QED BY <1>2, <1>3

LEMMA BeginRoutingInv ==
    ASSUME NEW p \in Nodes, NEW id \in Ids, NEW i \in 0 .. M - 1,
           RoutingInv, TypeOK', BeginLookup(p, p, id, i), UNCHANGED ringPointers,
           i # 0 => id = add_id_power_of_2(p, i)
    PROVE  RoutingInv'
<1>1. TypeOK /\ ExactRing
  BY DEF RoutingInv
<1>2. ExactRing'
  BY <1>1 DEF ExactRing, ringPointers
<1>3. \A q \in Nodes : KeptFinger(q)'
  BY DEF RoutingInv, KeptFinger, ringPointers
<1>4. ASSUME NEW q \in Nodes \ {p} PROVE Progress(q)' /\ Repair(q)'
  <2>1. /\ pc'[q] = pc[q] /\ lk'[q] = lk[q] /\ resp'[q] = resp[q]
        /\ drops' = drops /\ drops \in Nat /\ successor' = successor
    BY <1>1 DEF BeginLookup, TypeOK, LookupTypeOK, ringPointers
  <2> QED BY <1>1, <2>1, OthersKeep DEF RoutingInv
<1>5. /\ lk'[p] = [at |-> p, id |-> id, np |-> p, cs |-> successor[p], retry |-> 0, i |-> i]
      /\ pc'[p] = LoopPc(id, p, successor[p], 0)
      /\ successor' = successor
  BY <1>1 DEF BeginLookup, TypeOK, LookupTypeOK, ringPointers
<1>6. Progress(p)'
  BY <1>5 DEF Progress, LoopPc, Ends
<1>7. Repair(p)'
  BY <1>5 DEF Repair, LoopPc
<1> QED BY <1>2, <1>3, <1>4, <1>6, <1>7 DEF RoutingInv

\* Every step of find_successor: a failed call to a node that is up shows in
\* drops, and each way out of the loop is one of those of Ends.
LEMMA StepRoutingInv ==
    ASSUME NEW p \in Nodes, RoutingInv, TypeOK', LookupStep(p)
    PROVE  RoutingInv'
<1>0. PICK np \in Nodes, id \in Ids : np = lk[p].np /\ id = lk[p].id
  BY DEF RoutingInv, TypeOK, LookupTypeOK, Lookups
<1>1. /\ TypeOK /\ LookupTypeOK /\ ExactRing /\ Progress(p) /\ Repair(p)
      /\ pc \in [Nodes -> LookupPcs \cup {"idle", "done"}]
  BY DEF RoutingInv, TypeOK
<1>2. UNCHANGED <<status, successor, successor_list, finger_table>>
  BY <1>1, StepPc
<1>3. ExactRing'
  BY <1>1, <1>2 DEF ExactRing
<1>4. \A q \in Nodes : KeptFinger(q)'
  BY <1>2 DEF RoutingInv, KeptFinger
<1>5. /\ np \in Nodes /\ id \in Ids /\ lk[p] \in Lookups /\ successor[np] \in Nodes
      /\ lk[p].at = p /\ lk[p].retry \in Nat /\ status[np] = "up" /\ drops \in Nat
  <2>1. drops \in 0 .. MaxDrops /\ lk[p] \in Lookups /\ successor[np] \in Nodes
    BY <1>1 DEF LookupTypeOK
  <2>2. lk[p].retry \in 0 .. MAX_RETRIES
    BY <2>1 DEF Lookups
  <2> QED BY <1>0, <1>1, <2>1, <2>2 DEF Progress, ExactRing
<1>6. \A t \in Nodes : CallErr(t) => drops' > 0
  BY <1>1, <1>5 DEF CallErr, ExactRing
<1>7. drops' = drops \/ drops' > 0
  <2>1. list[p] # << >> => Head(list[p]) \in Nodes
    BY <1>1 DEF LookupTypeOK
  <2>2. CASE FindHop(p) \/ FindGetSuccessor(p) \/ FindFinal(p)
    BY <1>0, <1>6, <2>2 DEF FindHop, FindGetSuccessor, FindFinal, CallOk
  <2>3. CASE FindBackup(p)
    BY <1>6, <2>1, <2>3 DEF FindBackup, CallOk, SkipCandidate, FoundCandidate, Exhausted
  <2> QED BY <2>2, <2>3 DEF LookupStep
<1>8. ASSUME NEW q \in Nodes \ {p} PROVE Progress(q)' /\ Repair(q)'
  <2>1. pc'[q] = pc[q] /\ lk'[q] = lk[q] /\ resp'[q] = resp[q]
    BY <1>1 DEF LookupStep, FindHop, FindGetSuccessor, FindFinal, FindBackup, LookupTypeOK
  <2> QED BY <1>1, <1>2, <1>5, <1>7, <2>1, OthersKeep DEF RoutingInv
<1>9. CASE FindHop(p)
  <2>0. /\ pc[p] = "find" /\ ~is_between(id, np, successor[np])
        /\ ~is_between(id, p, successor[p])
    BY <1>0, <1>1, <1>9 DEF FindHop, Progress, Repair
  <2>1. PICK next \in Nodes :
          /\ lk' = [lk EXCEPT ![p] = Moved(p, next, lk[p].retry + 1)]
          /\ \/ /\ closest_preceding_node(np, id, next)
                /\ pc' = [pc EXCEPT ![p] = IF next = np THEN "final" ELSE "getsucc"]
             \/ pc' = [pc EXCEPT ![p] = "final"] /\ drops' > 0
    BY <1>0, <1>5, <1>6, <1>9 DEF FindHop
  <2>2. /\ lk'[p].at = p /\ lk'[p].id = id /\ lk'[p].np = next /\ lk'[p].i = lk[p].i
        /\ pc'[p] \in {"final", "getsucc"}
    BY <1>0, <1>1, <1>5, <2>1 DEF Moved, LookupTypeOK
  <2>3. ASSUME pc'[p] = "final", drops' = 0 PROVE Ends(next, id)'
    <3>1. closest_preceding_node(np, id, np) /\ next = np
      BY <1>1, <2>1, <2>3 DEF LookupTypeOK
    <3>2. Ends(np, id)
      BY <1>1, <1>5, <2>0, <3>1, NoHopLeft DEF RoutingInv
    <3> QED BY <1>2, <3>1, <3>2 DEF Ends
  <2>4. Progress(p)'
    BY <2>2, <2>3 DEF Progress
  <2>5. Repair(p)'
    BY <1>0, <1>1, <1>2, <2>0, <2>2 DEF Repair
  <2> QED BY <1>3, <1>4, <1>8, <2>4, <2>5 DEF RoutingInv
<1>10. CASE FindGetSuccessor(p)
  <2>0. pc[p] = "getsucc" /\ ~is_between(id, p, successor[p])
    BY <1>0, <1>1, <1>10 DEF FindGetSuccessor, Repair
  <2>1. /\ lk'[p].at = p /\ lk'[p].id = id /\ lk'[p].np = np /\ lk'[p].i = lk[p].i
        /\ lk'[p].retry = lk[p].retry
    <3>1. CASE lk' = lk
      BY <1>0, <1>5, <3>1
    <3>2. CASE lk' = [lk EXCEPT ![p].cs = successor[lk[p].np]]
      BY <1>0, <1>1, <1>5, <3>2 DEF LookupTypeOK, Lookups
    <3> QED BY <1>10, <3>1, <3>2 DEF FindGetSuccessor
  <2>2. lk' = [lk EXCEPT ![p].cs = successor[lk[p].np]] => lk'[p].cs = successor[np]
    BY <1>0, <1>1, <1>5 DEF LookupTypeOK, Lookups
  <2>3. \/ /\ lk'[p].cs = successor[np]
           /\ pc'[p] = LoopPc(id, np, successor[np], lk[p].retry)
        \/ pc'[p] = "final" /\ drops' > 0
    BY <1>0, <1>1, <1>5, <1>6, <1>10, <2>2, Zenon DEF FindGetSuccessor
  <2>4. Progress(p)'
    BY <1>2, <1>5, <2>1, <2>3 DEF Progress, LoopPc, Ends
  <2>5. Repair(p)'
    BY <1>0, <1>1, <1>2, <2>0, <2>1 DEF Repair
  <2> QED BY <1>3, <1>4, <1>8, <2>4, <2>5 DEF RoutingInv
<1>11. CASE FindFinal(p)
  <2>0. pc[p] = "final" /\ lk' = lk
    BY <1>11 DEF FindFinal
  <2>1. \/ pc'[p] = "done" /\ resp'[p] = successor[np] /\ drops' = drops
        \/ pc'[p] = "backup" /\ drops' > 0 /\ np # p
    BY <1>0, <1>1, <1>5, <1>6, <1>11 DEF FindFinal, LookupTypeOK, CallOk
  <2>2. NextNode(Nodes, np, successor[np])
    BY <1>1, <1>5 DEF ExactRing
  <2>3. Ends(np, id) => Right(id, successor[np])
    BY <1>5, <2>2, SuccessorOwns
  <2>4. Progress(p)'
    <3>1. CASE pc'[p] = "done" /\ resp'[p] = successor[np] /\ drops' = drops
      BY <1>0, <1>1, <1>5, <2>0, <2>3, <3>1 DEF Progress, Right
    <3>2. CASE pc'[p] = "backup" /\ drops' > 0
      BY <1>5, <2>0, <3>2 DEF Progress
    <3> QED BY <2>1, <3>1, <3>2
  <2>5. Repair(p)'
    BY <1>0, <1>1, <1>2, <2>0, <2>1 DEF Repair
  <2> QED BY <1>3, <1>4, <1>8, <2>4, <2>5 DEF RoutingInv
<1>12. CASE FindBackup(p)
  <2>0. pc[p] = "backup" /\ lk' = lk /\ drops > 0
    BY <1>1, <1>12 DEF FindBackup, Progress
  <2>1. pc'[p] \in {"backup", "done"} /\ drops' > 0
    BY <1>1, <1>7, <1>12, <2>0 DEF FindBackup
  <2>2. Progress(p)'
    BY <1>5, <2>0, <2>1 DEF Progress
  <2>3. Repair(p)'
    BY <1>1, <1>2, <2>0 DEF Repair
  <2> QED BY <1>3, <1>4, <1>8, <2>2, <2>3 DEF RoutingInv
<1> QED BY <1>9, <1>10, <1>11, <1>12 DEF LookupStep

\* fix_fingers may overwrite the kept finger only with the same node.
LEMMA FinishRoutingInv ==
    ASSUME NEW p \in Nodes, RoutingInv, TypeOK', FinishLookup(p)
    PROVE  RoutingInv'
<1>1. /\ TypeOK /\ LookupTypeOK /\ ExactRing /\ Repair(p)
      /\ pc \in [Nodes -> LookupPcs \cup {"idle", "done"}] /\ drops \in Nat
  <2>1. TypeOK /\ ExactRing /\ Repair(p)
    BY DEF RoutingInv
  <2>2. LookupTypeOK /\ pc \in [Nodes -> LookupPcs \cup {"idle", "done"}]
    BY <2>1 DEF TypeOK
  <2>3. drops \in 0 .. MaxDrops
    BY <2>2 DEF LookupTypeOK
  <2> QED BY <2>1, <2>2, <2>3
<1>2. ExactRing' /\ drops' = drops /\ successor' = successor
  BY <1>1 DEF ExactRing, FinishLookup
<1>3. ASSUME NEW q \in Nodes \ {p} PROVE Progress(q)' /\ Repair(q)'
  <2>1. pc'[q] = pc[q] /\ lk'[q] = lk[q] /\ resp'[q] = resp[q]
    BY <1>1 DEF FinishLookup, LookupTypeOK
  <2> QED BY <1>1, <1>2, <2>1, OthersKeep DEF RoutingInv
<1>4. Progress(p)' /\ Repair(p)'
  <2>1. pc'[p] = "idle" /\ lk'[p].at = p
    BY <1>1 DEF FinishLookup, LookupTypeOK, NoLookup
  <2> QED BY <2>1 DEF Progress, Repair
<1>5. ASSUME NEW q \in Nodes PROVE KeptFinger(q)'
  <2>1. PICK i \in 0 .. M - 1 :
          /\ finger_table[q][i] = successor[q]
          /\ \/ is_between(add_id_power_of_2(q, i), q, successor[q])
             \/ successor[q] = q
    BY DEF RoutingInv, KeptFinger
  <2>2. finger_table'[q][i] = successor[q]
    <3>1. CASE q # p \/ lk[p].i = 0 \/ lk[p].i # i
      BY <1>1, <2>1, <3>1 DEF FinishLookup, LookupTypeOK
    <3>2. CASE q = p /\ lk[p].i # 0 /\ lk[p].i = i
      <4>1. pc[p] = "done" /\ lk[p].id = add_id_power_of_2(p, i) /\ resp[p] \in Nodes
        BY <1>1, <3>2 DEF FinishLookup, Repair, LookupTypeOK
      <4>2. resp[p] = successor[p]
        <5>1. CASE successor[p] = p
          BY <1>1, <4>1, <5>1 DEF ExactRing, NextNode
        <5>2. CASE is_between(add_id_power_of_2(p, i), p, successor[p])
          BY <1>1, <4>1, <5>2 DEF Repair
        <5> QED BY <2>1, <3>2, <5>1, <5>2
      <4>3. finger_table' = [finger_table EXCEPT ![p][i] = resp[p]]
        BY <3>2 DEF FinishLookup
      <4> QED BY <1>1, <3>2, <4>2, <4>3 DEF LookupTypeOK
    <3> QED BY <3>1, <3>2
  <2> QED BY <1>2, <2>1, <2>2 DEF KeptFinger
<1> QED BY <1>2, <1>3, <1>4, <1>5 DEF RoutingInv

LEMMA NextRoutingInv == RoutingInv /\ [Next]_lookupVars => RoutingInv'
<1> SUFFICES ASSUME RoutingInv, [Next]_lookupVars PROVE RoutingInv'
  OBVIOUS
<1>1. TypeOK'
  BY NextTyped DEF RoutingInv
<1>2. ASSUME NEW p \in Callers, NEW id \in Targets, StartLookup(p, id) PROVE RoutingInv'
  <2>1. 0 \in 0 .. M - 1 /\ id \in Ids /\ p \in Nodes
    OBVIOUS
  <2> QED BY <1>1, <1>2, <2>1, BeginRoutingInv DEF StartLookup
<1>3. ASSUME NEW p \in Callers, NEW i \in FixIdx, FixFingers(p, i) PROVE RoutingInv'
  <2>1. i \in 0 .. M - 1 /\ p \in Nodes /\ p \in Ids
    OBVIOUS
  <2>2. add_id_power_of_2(p, i) \in Ids
    BY <2>1, FingerTargetInIds
  <2> QED BY <1>1, <1>3, <2>1, <2>2, BeginRoutingInv DEF FixFingers
<1>4. ASSUME NEW p \in Callers, LookupStep(p) PROVE RoutingInv'
  BY <1>1, <1>4, StepRoutingInv
<1>5. ASSUME NEW p \in Callers, FinishLookup(p) PROVE RoutingInv'
  BY <1>1, <1>5, FinishRoutingInv
<1>6. CASE UNCHANGED lookupVars
  BY <1>1, <1>6 DEF lookupVars, RoutingInv, ExactRing, Progress, Repair, KeptFinger, Ends
<1> QED BY <1>2, <1>3, <1>4, <1>5, <1>6 DEF Next

THEOREM RoutingInvariant == Spec => []RoutingInv
BY InitRoutingInv, NextRoutingInv, PTL DEF Spec

\* Over exact successors and any stale fingers, find_successor answers with
\* the owner of the identifier (or, for a node's identifier, the node after
\* it) unless a call failed or the hop limit was reached.
THEOREM AnswersRight == Spec => []LookupCorrect
<1>1. RoutingInv => LookupCorrect
  BY DEF RoutingInv, Progress, Right, LookupCorrect
<1> QED BY <1>1, RoutingInvariant, PTL

\* fix_fingers never overwrites the last finger that names the successor.
THEOREM FingerKept == Spec => []SuccessorFingerKept
<1>1. RoutingInv => SuccessorFingerKept
  BY DEF RoutingInv, KeptFinger, SuccessorFingerKept
<1> QED BY <1>1, RoutingInvariant, PTL

=============================================================================
