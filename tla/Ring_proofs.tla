----------------------------- MODULE Ring_proofs ----------------------------
(* Theorems about the ring maintenance of module Ring.                      *)
EXTENDS Ring, Lookup_proofs, FiniteSetTheorems

USE NodesAssumption, NoneAssumption, SizesAssumption, MAssumption,
    BootAssumption, FixIdxAssumption, CrashesAssumption

-----------------------------------------------------------------------------
(* Type correctness.                                                       *)

LEMMA NoLookupTyped ==
    ASSUME NEW n \in Nodes
    PROVE  NoLookup(n) \in Lookups
BY DEF NoLookup, Lookups

LEMMA InitTyped == Init => TypeOK
<1> SUFFICES ASSUME Init PROVE TypeOK
  OBVIOUS
<1>1. lk \in [Nodes -> Lookups]
  BY NoLookupTyped DEF Init
<1>2. << >> \in Seq(Nodes)
  OBVIOUS
<1>3. LookupTypeOK
  BY <1>1, <1>2 DEF Init, LookupTypeOK
<1> QED
  BY <1>3 DEF Init, TypeOK, Pcs

\* GoUp(n) resets the locals of n to typed values.
LEMMA GoUpTyped ==
    ASSUME NEW n \in Nodes, TypeOK, GoUp(n),
           successor' \in [Nodes -> Nodes],
           successor_list' \in [Nodes -> [1 .. SUCCESSOR_LIST_SIZE -> Nodes]],
           finger_table' = finger_table,
           drops' \in 0 .. MaxDrops,
           predecessor' \in [Nodes -> Nodes \cup {None}],
           UNCHANGED <<peer, late, crashes>>
    PROVE  TypeOK'
<1>1. << >> \in Seq(Nodes) /\ NoLookup(n) \in Lookups
  BY NoLookupTyped
<1>2. LookupTypeOK'
  BY <1>1 DEF TypeOK, LookupTypeOK, GoUp
<1>3. pc' \in [Nodes -> Pcs]
  BY DEF TypeOK, GoUp, Pcs
<1>4. \A q \in Nodes : pc'[q] = "ulist" => list'[q] # << >>
  BY DEF TypeOK, LookupTypeOK, GoUp
<1> QED
  BY <1>2, <1>3, <1>4 DEF TypeOK

\* The locals of stabilize are reset when it returns.
LEMMA LeaveTyped ==
    ASSUME NEW n \in Nodes, TypeOK, LeaveStabilize(n)
    PROVE  /\ pc' \in [Nodes -> Pcs]
           /\ peer' \in [Nodes -> Nodes]
           /\ resp' \in [Nodes -> Nodes \cup {None}]
           /\ list' \in [Nodes -> Seq(Nodes)]
           /\ pc'[n] = "fix"
           /\ \A q \in Nodes \ {n} : /\ pc'[q] = pc[q] /\ resp'[q] = resp[q]
                                     /\ list'[q] = list[q]
<1>1. << >> \in Seq(Nodes)
  OBVIOUS
<1> QED
  BY <1>1 DEF TypeOK, LookupTypeOK, LeaveStabilize, Goto, Pcs

LEMMA NextTyped == TypeOK /\ [Next]_vars => TypeOK'
<1> SUFFICES ASSUME TypeOK, [Next]_vars PROVE TypeOK'
  OBVIOUS
<1> USE DEF ringPointers, ringVars
<1>0. CASE UNCHANGED vars
  BY <1>0 DEF vars, lookupVars, TypeOK, LookupTypeOK
<1>1. ASSUME NEW n \in Nodes, StartNewNetwork(n) PROVE TypeOK'
  BY <1>1, GoUpTyped DEF StartNewNetwork, TypeOK, LookupTypeOK
<1>2. ASSUME NEW n \in Nodes, JoinCall(n) PROVE TypeOK'
  <2>1. CASE CallErr(Boot) /\ GoUp(n)
    <3>1. drops' \in 0 .. MaxDrops
      BY <2>1, CallDrops DEF TypeOK, LookupTypeOK
    <3> QED BY <1>2, <2>1, <3>1, GoUpTyped DEF JoinCall, TypeOK, LookupTypeOK
  <2>2. CASE /\ status' = [status EXCEPT ![n] = "joining"]
             /\ BeginLookup(n, Boot, n, 0)
    <3>1. n \in Ids /\ 0 \in 0 .. M - 1
      OBVIOUS
    <3>2. LookupTypeOK'
      BY <1>2, <2>2, <3>1, BeginTyped DEF JoinCall, TypeOK, LookupTypeOK
    <3>3. pc' \in [Nodes -> Pcs] /\ pc'[n] # "ulist"
      BY <2>2 DEF BeginLookup, LoopPc, TypeOK, Pcs, LookupPcs
    <3> QED BY <1>2, <2>2, <3>2, <3>3 DEF JoinCall, TypeOK, BeginLookup
  <2> QED BY <1>2, <2>1, <2>2 DEF JoinCall
<1>3. ASSUME NEW n \in Nodes, JoinDone(n) PROVE TypeOK'
  <2>1. CASE resp[n] = n
    BY <1>3, <2>1, GoUpTyped DEF JoinDone, TypeOK, LookupTypeOK
  <2>2. CASE resp[n] # n
    <3>1. successor' \in [Nodes -> Nodes]
      BY <1>3, <2>2 DEF JoinDone, TypeOK, LookupTypeOK
    <3>2. pc' = [pc EXCEPT ![n] = "transfer"]
      BY <1>3, <2>2 DEF JoinDone
    <3>3. pc' \in [Nodes -> Pcs]
      BY <3>2 DEF TypeOK, Pcs
    <3>4. /\ lk' = [lk EXCEPT ![n] = NoLookup(n)]
          /\ resp' = [resp EXCEPT ![n] = None]
      BY <1>3, <2>2 DEF JoinDone
    <3>7. /\ lk' \in [Nodes -> Lookups] /\ resp' \in [Nodes -> Nodes \cup {None}]
          /\ \A q \in Nodes \ {n} :
                pc'[q] = pc[q] /\ lk'[q] = lk[q] /\ resp'[q] = resp[q]
      BY <3>2, <3>4, NoLookupTyped DEF TypeOK, LookupTypeOK
    <3>5. pc'[n] = "transfer"
      BY <3>2 DEF TypeOK
    <3>6. LookupTypeOK'
      BY <1>3, <2>2, <3>1, <3>5, <3>7 DEF JoinDone, TypeOK, LookupTypeOK
    <3> QED BY <1>3, <2>2, <3>3, <3>5, <3>6, <3>7 DEF JoinDone, TypeOK
  <2> QED BY <2>1, <2>2
<1>3a. ASSUME NEW n \in Nodes, JoinTransferred(n) PROVE TypeOK'
  BY <1>3a, GoUpTyped DEF JoinTransferred, TypeOK, LookupTypeOK
<1>4. ASSUME NEW n \in Nodes, JoinFail(n) PROVE TypeOK'
  <2>1. drops \in 0 .. MaxDrops
    BY DEF TypeOK, LookupTypeOK
  <2>2. drops' \in 0 .. MaxDrops
    BY <1>4, <2>1 DEF JoinFail
  <2> QED BY <1>4, <2>2, GoUpTyped DEF JoinFail, TypeOK, LookupTypeOK
<1>5. ASSUME NEW n \in Nodes, StabilizeStart(n) PROVE TypeOK'
  <2>1. \E l \in {"clear_pred", "ask_pred"} : pc' = [pc EXCEPT ![n] = l]
    BY <1>5 DEF StabilizeStart, Goto
  <2>2. peer' \in [Nodes -> Nodes]
    BY <1>5 DEF StabilizeStart, TypeOK, LookupTypeOK
  <2>3. pc' \in [Nodes -> Pcs]
    BY <2>1 DEF TypeOK, Pcs
  <2>4. LookupTypeOK'
    BY <1>5, <2>1 DEF StabilizeStart, TypeOK, LookupTypeOK
  <2> QED BY <1>5, <2>1, <2>2, <2>3, <2>4 DEF StabilizeStart, TypeOK
<1>6. ASSUME NEW n \in Nodes, ClearPredecessor(n) PROVE TypeOK'
  BY <1>6, LeaveTyped DEF ClearPredecessor, TypeOK, LookupTypeOK
<1>7. ASSUME NEW n \in Nodes, AskPredecessor(n) PROVE TypeOK'
  <2>1. drops' \in 0 .. MaxDrops
    BY <1>7, CallDrops DEF AskPredecessor, TypeOK, LookupTypeOK
  <2>2. successor_list[n] \in Seq(Nodes)
    BY ListIsSeq DEF TypeOK, LookupTypeOK
  <2>3. \E l \in {"adopt", "failover"} : pc' = [pc EXCEPT ![n] = l]
    BY <1>7 DEF AskPredecessor, Goto
  <2>4. pc' \in [Nodes -> Pcs]
    BY <2>3 DEF TypeOK, Pcs
  <2>5. /\ resp' \in [Nodes -> Nodes \cup {None}]
        /\ list' \in [Nodes -> Seq(Nodes)]
        /\ peer' \in [Nodes -> Nodes]
    <3>1. predecessor[peer[n]] \in Nodes \cup {None}
      BY DEF TypeOK
    <3>2. CASE resp' = [resp EXCEPT ![n] = predecessor[peer[n]]]
               /\ UNCHANGED <<list, peer>>
      BY <3>1, <3>2 DEF TypeOK, LookupTypeOK
    <3>3. CASE list' = [list EXCEPT ![n] = successor_list[n]]
               /\ peer' = [peer EXCEPT ![n] = n] /\ UNCHANGED resp
      BY <2>2, <3>3 DEF TypeOK, LookupTypeOK
    <3> QED BY <1>7, <3>2, <3>3 DEF AskPredecessor
  <2>6. \A q \in Nodes \ {n} : resp'[q] = resp[q] /\ list'[q] = list[q]
    BY <1>7 DEF AskPredecessor, TypeOK, LookupTypeOK
  <2> QED
    BY <1>7, <2>1, <2>3, <2>4, <2>5, <2>6 DEF AskPredecessor, TypeOK, LookupTypeOK
<1>8. ASSUME NEW n \in Nodes, Failover(n) PROVE TypeOK'
  <2>1. drops' \in 0 .. MaxDrops
    BY <1>8, CallDrops DEF Failover, SkipCandidate, FoundCandidate, Exhausted,
                           TypeOK, LookupTypeOK
  <2>2. list[n] \in Seq(Nodes)
    BY DEF TypeOK, LookupTypeOK
  <2>3. CASE SkipCandidate(n, n) /\ UNCHANGED <<successor, pc, peer, resp>>
    <3>1. Tail(list[n]) \in Seq(Nodes)
      BY <2>2, <2>3 DEF SkipCandidate
    <3> QED BY <1>8, <2>1, <2>3, <3>1
            DEF Failover, SkipCandidate, TypeOK, LookupTypeOK
  <2>4. CASE FoundCandidate(n, n) /\ BeginListUpdate(n, Head(list[n]))
             /\ successor' = [successor EXCEPT ![n] = Head(list[n])]
             /\ UNCHANGED <<peer, resp>>
    <3>1. Head(list[n]) \in Nodes /\ <<Head(list[n])>> \in Seq(Nodes)
          /\ <<Head(list[n])>> # << >>
      BY <2>2, <2>4 DEF FoundCandidate
    <3> QED BY <1>8, <2>1, <2>4, <3>1
            DEF Failover, BeginListUpdate, Goto, TypeOK, LookupTypeOK, Pcs
  <2>5. CASE LeaveStabilize(n) /\ UNCHANGED successor
    BY <1>8, <2>1, <2>5, LeaveTyped DEF Failover, TypeOK, LookupTypeOK
  <2> QED BY <1>8, <2>3, <2>4, <2>5 DEF Failover
<1>9. ASSUME NEW n \in Nodes, AdoptCloser(n) PROVE TypeOK'
  <2>1. successor' \in [Nodes -> Nodes]
    BY <1>9 DEF AdoptCloser, TypeOK, LookupTypeOK
  <2>2. pc' = [pc EXCEPT ![n] = "notify"] /\ pc' \in [Nodes -> Pcs]
    BY <1>9 DEF AdoptCloser, Goto, TypeOK, Pcs
  <2>3. /\ peer' \in [Nodes -> Nodes]
        /\ resp' \in [Nodes -> Nodes \cup {None}]
    BY <1>9, <2>1 DEF AdoptCloser, TypeOK, LookupTypeOK
  <2>4. \A q \in Nodes : /\ pc'[q] = "find" => lk'[q].retry < MAX_RETRIES
                         /\ pc'[q] = "done" => resp'[q] \in Nodes
                         /\ pc'[q] = "ulist" => list'[q] # << >>
    BY <1>9, <2>2 DEF AdoptCloser, TypeOK, LookupTypeOK
  <2>5. LookupTypeOK'
    BY <1>9, <2>1, <2>3, <2>4 DEF AdoptCloser, TypeOK, LookupTypeOK
  <2> QED BY <1>9, <2>2, <2>3, <2>4, <2>5 DEF AdoptCloser, TypeOK
<1>10. ASSUME NEW n \in Nodes, NEW t \in Nodes, HandleNotify(t, n)
       PROVE  /\ predecessor' \in [Nodes -> Nodes \cup {None}]
              /\ successor' \in [Nodes -> Nodes]
  <2>1. CASE UNCHANGED <<predecessor, successor>>
    BY <2>1 DEF TypeOK, LookupTypeOK
  <2>2. CASE /\ predecessor' = [predecessor EXCEPT ![t] = n]
             /\ successor' = [successor EXCEPT ![t] = IF @ = t THEN n ELSE @]
    BY <2>2 DEF TypeOK, LookupTypeOK
  <2> QED BY <1>10, <2>1, <2>2 DEF HandleNotify
<1>11. ASSUME NEW n \in Nodes, NotifySuccessor(n) PROVE TypeOK'
  <2>1. drops' \in 0 .. MaxDrops
    BY <1>11, CallDrops DEF NotifySuccessor, TypeOK, LookupTypeOK
  <2>2. peer[n] \in Nodes
    BY DEF TypeOK
  <2>3. /\ predecessor' \in [Nodes -> Nodes \cup {None}]
        /\ successor' \in [Nodes -> Nodes]
    BY <1>10, <1>11, <2>2 DEF NotifySuccessor, TypeOK, LookupTypeOK
  <2>4. <<successor'[n]>> \in Seq(Nodes) /\ <<successor'[n]>> # << >>
    BY <2>3
  <2>5. pc' = [pc EXCEPT ![n] = "ulist"] /\ pc' \in [Nodes -> Pcs]
    BY <1>11 DEF NotifySuccessor, BeginListUpdate, Goto, TypeOK, Pcs
  <2>6. /\ list' = [list EXCEPT ![n] = <<successor'[n]>>]
        /\ list' \in [Nodes -> Seq(Nodes)]
    BY <1>11, <2>4 DEF NotifySuccessor, BeginListUpdate, TypeOK, LookupTypeOK
  <2>7. \A q \in Nodes : pc'[q] = "ulist" => list'[q] # << >>
    BY <2>4, <2>5, <2>6 DEF TypeOK, LookupTypeOK
  <2>8. LookupTypeOK'
    BY <1>11, <2>1, <2>3, <2>5, <2>6 DEF NotifySuccessor, TypeOK, LookupTypeOK
  <2> QED BY <1>11, <2>3, <2>5, <2>7, <2>8 DEF NotifySuccessor, TypeOK
<1>12. ASSUME NEW n \in Nodes, NotifyAttemptTimesOut(n) PROVE TypeOK'
  <2>1. late' \subseteq Nodes \X Nodes
    BY <1>12 DEF NotifyAttemptTimesOut, TypeOK
  <2>2. drops \in 0 .. MaxDrops
    BY DEF TypeOK, LookupTypeOK
  <2>3. drops' \in 0 .. MaxDrops
    BY <1>12, <2>2 DEF NotifyAttemptTimesOut
  <2>4. LookupTypeOK'
    BY <1>12, <2>3 DEF NotifyAttemptTimesOut, TypeOK, LookupTypeOK
  <2> QED BY <1>12, <2>1, <2>4 DEF NotifyAttemptTimesOut, TypeOK
<1>13. ASSUME NEW n \in Nodes, NEW t \in Nodes, LateNotify(n, t) PROVE TypeOK'
  BY <1>10, <1>13 DEF LateNotify, TypeOK, LookupTypeOK
<1>14. ASSUME NEW n \in Nodes, ExtendList(n) PROVE TypeOK'
  <2> DEFINE cur  == list[n][Len(list[n])]
             more == Append(list[n], successor[cur])
  <2>1. list[n] \in Seq(Nodes) /\ list[n] # << >>
    BY <1>14 DEF ExtendList, TypeOK, LookupTypeOK
  <2>2. cur \in Nodes
    BY <2>1
  <2>3. successor[cur] \in Nodes
    BY <2>2 DEF TypeOK, LookupTypeOK
  <2>4. more \in Seq(Nodes) /\ more # << >>
    BY <2>1, <2>3
  <2>5. drops' \in 0 .. MaxDrops
    BY <1>14, CallDrops DEF ExtendList, TypeOK, LookupTypeOK
  <2> HIDE DEF cur, more
  <2>6. ASSUME NEW l \in Seq(Nodes), l # << >>, WriteList(n, l)
        PROVE  TypeOK'
    <3>1. Filled(l) \in [1 .. SUCCESSOR_LIST_SIZE -> Nodes]
      BY <2>6 DEF Filled
    <3>2. successor_list' \in [Nodes -> [1 .. SUCCESSOR_LIST_SIZE -> Nodes]]
      BY <2>6, <3>1 DEF WriteList, TypeOK, LookupTypeOK
    <3>3. LeaveStabilize(n)
      BY <2>6 DEF WriteList
    <3> QED BY <1>14, <2>5, <3>2, <3>3, LeaveTyped
            DEF ExtendList, TypeOK, LookupTypeOK
  <2>7. CASE /\ list' = [list EXCEPT ![n] = more]
             /\ UNCHANGED <<successor_list, pc, peer, resp>>
    BY <1>14, <2>4, <2>5, <2>7 DEF ExtendList, TypeOK, LookupTypeOK
  <2>8. \/ WriteList(n, list[n]) \/ WriteList(n, more)
        \/ /\ list' = [list EXCEPT ![n] = more]
           /\ UNCHANGED <<successor_list, pc, peer, resp>>
    BY <1>14 DEF ExtendList, cur, more
  <2> QED BY <2>1, <2>4, <2>6, <2>7, <2>8
<1>15. ASSUME NEW n \in Nodes, NEW i \in FixIdx, FixFingers(n, i) PROVE TypeOK'
  <2>1. i \in 0 .. M - 1 /\ add_id_power_of_2(n, i) \in Ids
    BY FingerTargetInIds
  <2>2. LookupTypeOK'
    BY <1>15, <2>1, BeginTyped DEF FixFingers, TypeOK, LookupTypeOK
  <2>3. pc' \in [Nodes -> Pcs] /\ pc'[n] # "ulist"
    BY <1>15 DEF FixFingers, BeginLookup, LoopPc, TypeOK, Pcs, LookupPcs
  <2> QED BY <1>15, <2>2, <2>3 DEF FixFingers, TypeOK, BeginLookup
<1>16. ASSUME NEW n \in Nodes, LookupStep(n), UNCHANGED ringVars PROVE TypeOK'
  <2>1. LookupTypeOK'
    BY <1>16, StepTyped DEF TypeOK
  <2>2. \E l \in LookupPcs \cup {"done"} : pc' = [pc EXCEPT ![n] = l]
    BY <1>16, StepPc DEF TypeOK
  <2>3. pc' \in [Nodes -> Pcs]
    BY <2>2 DEF TypeOK, Pcs
  <2>4. \A q \in Nodes \ {n} : list'[q] = list[q]
    BY <1>16 DEF LookupStep, FindHop, FindGetSuccessor, FindFinal, FindBackup,
                 SkipCandidate, TypeOK, LookupTypeOK
  <2>5. \A q \in Nodes : pc'[q] = "ulist" => list'[q] # << >>
    BY <2>2, <2>4 DEF TypeOK, LookupPcs
  <2> QED BY <1>16, <2>1, <2>3, <2>5 DEF TypeOK
<1>17. ASSUME NEW n \in Nodes, FixFingersDone(n) PROVE TypeOK'
  <2>1. resp[n] \in Nodes /\ lk[n].i \in 0 .. M - 1 /\ NoLookup(n) \in Lookups
    BY <1>17, NoLookupTyped DEF FixFingersDone, TypeOK, LookupTypeOK, Lookups
  <2>2. finger_table' \in [Nodes -> [0 .. M - 1 -> Nodes]]
    BY <1>17, <2>1 DEF FixFingersDone, TypeOK, LookupTypeOK
  <2>3. pc' = [pc EXCEPT ![n] = "check"] /\ pc' \in [Nodes -> Pcs]
    BY <1>17 DEF FixFingersDone, Goto, TypeOK, Pcs
  <2>4. /\ lk' \in [Nodes -> Lookups]
        /\ resp' \in [Nodes -> Nodes \cup {None}]
    BY <1>17, <2>1 DEF FixFingersDone, TypeOK, LookupTypeOK
  <2> QED BY <1>17, <2>2, <2>3, <2>4 DEF FixFingersDone, TypeOK, LookupTypeOK
<1>18. ASSUME NEW n \in Nodes, CheckPredecessor(n) PROVE TypeOK'
  <2>1. \E l \in {"idle", "ping_pred"} : pc' = [pc EXCEPT ![n] = l]
    BY <1>18 DEF CheckPredecessor, Goto
  <2>2. peer' \in [Nodes -> Nodes]
    BY <1>18 DEF CheckPredecessor, TypeOK, LookupTypeOK
  <2> QED BY <1>18, <2>1, <2>2 DEF CheckPredecessor, TypeOK, LookupTypeOK, Pcs
<1>19. ASSUME NEW n \in Nodes, PingPredecessor(n) PROVE TypeOK'
  <2>1. drops' \in 0 .. MaxDrops
    BY <1>19, CallDrops DEF PingPredecessor, TypeOK, LookupTypeOK
  <2> QED BY <1>19, <2>1 DEF PingPredecessor, Goto, TypeOK, LookupTypeOK, Pcs
<1>20. ASSUME NEW n \in Nodes, Crash(n) PROVE TypeOK'
  <2>1. << >> \in Seq(Nodes) /\ NoLookup(n) \in Lookups
    BY NoLookupTyped
  <2>2. /\ successor_list' \in [Nodes -> [1 .. SUCCESSOR_LIST_SIZE -> Nodes]]
        /\ finger_table' \in [Nodes -> [0 .. M - 1 -> Nodes]]
    BY <1>20 DEF Crash, TypeOK, LookupTypeOK
  <2>3. /\ status' \in [Nodes -> {"down", "joining", "up"}]
        /\ successor' \in [Nodes -> Nodes]
        /\ predecessor' \in [Nodes -> Nodes \cup {None}]
        /\ peer' \in [Nodes -> Nodes]
        /\ resp' \in [Nodes -> Nodes \cup {None}]
        /\ drops' \in 0 .. MaxDrops
    BY <1>20 DEF Crash, TypeOK, LookupTypeOK
  <2>4. lk' \in [Nodes -> Lookups] /\ list' \in [Nodes -> Seq(Nodes)]
    BY <1>20, <2>1 DEF Crash, TypeOK, LookupTypeOK
  <2>5. late' \subseteq Nodes \X Nodes /\ crashes' \in 0 .. MaxCrashes
    BY <1>20 DEF Crash, TypeOK
  <2>6. /\ pc' \in [Nodes -> Pcs]
        /\ \A q \in Nodes : pc'[q] \in {"off", "lk_err"}
                               \/ (q # n /\ pc'[q] = pc[q])
    BY <1>20 DEF Crash, TypeOK, Pcs
  <2>7. \A q \in Nodes \ {n} : /\ lk'[q] = lk[q] /\ resp'[q] = resp[q]
                               /\ list'[q] = list[q]
    BY <1>20 DEF Crash, TypeOK, LookupTypeOK
  <2>8. \A q \in Nodes : /\ pc'[q] = "find" => lk'[q].retry < MAX_RETRIES
                         /\ pc'[q] = "done" => resp'[q] \in Nodes
                         /\ pc'[q] = "ulist" => list'[q] # << >>
    BY <2>6, <2>7 DEF TypeOK, LookupTypeOK
  <2> QED BY <2>2, <2>3, <2>4, <2>5, <2>6, <2>8 DEF TypeOK, LookupTypeOK
<1> QED
  BY <1>0, <1>1, <1>2, <1>3, <1>3a, <1>4, <1>5, <1>6, <1>7, <1>8, <1>9, <1>11,
     <1>12, <1>13, <1>14, <1>15, <1>16, <1>17, <1>18, <1>19, <1>20
  DEF Next, Task, Environment

\* Every reachable state of the ring protocol is well typed, whatever joins,
\* crashes and failed calls happen; in particular find_predecessor's hop count
\* stays within its limit and a finger is only ever set to a node.
THEOREM TypeCorrect == Spec => []TypeOK
<1>1. Init => TypeOK
  BY InitTyped
<1>2. TypeOK /\ [Next]_vars => TypeOK'
  BY NextTyped
<1> QED
  BY <1>1, <1>2, PTL DEF Spec

-----------------------------------------------------------------------------
(* While nodes only join: no pointer is dead, and no predecessor pointer is *)
(* ahead of the successor pointer it mirrors.                              *)

NodeInv(n) == KnownIsUp(n) /\ TaskFollowsStatus(n) /\ SuccessorHeld(n)

\* A step leaves the pointers and the locals of q alone.
Same(q) ==
    /\ status'[q] = status[q] /\ successor'[q] = successor[q]
    /\ predecessor'[q] = predecessor[q] /\ finger_table'[q] = finger_table[q]
    /\ pc'[q] = pc[q] /\ lk'[q] = lk[q] /\ resp'[q] = resp[q]
    /\ peer'[q] = peer[q]

UpStaysUp == \A x \in Nodes : status[x] = "up" => status'[x] = "up"

LEMMA JoinInit == Init => JoinInv /\ PredBehindSucc
BY DEF Init, JoinInv, KnownIsUp, TaskFollowsStatus, SuccessorHeld,
       PredBehindSucc, LookupPcs

\* Without a budget for failures a call fails only at a node that is not up.
LEMMA NoDrops ==
    ASSUME MaxDrops = 0, drops \in 0 .. MaxDrops, NEW t, CallErr(t)
    PROVE  status[t] # "up"
BY DEF CallErr

LEMMA PointersStay ==
    ASSUME NEW n \in Nodes, TypeOK, NodeInv(n), UpStaysUp
    PROVE  /\ successor[n] = n \/ status'[successor[n]] = "up"
           /\ predecessor[n] = None \/ status'[predecessor[n]] = "up"
           /\ \A i \in 0 .. M - 1 : \/ finger_table[n][i] = n
                                    \/ status'[finger_table[n][i]] = "up"
<1>1. successor[n] = n \/ status'[successor[n]] = "up"
  BY DEF NodeInv, KnownIsUp, UpStaysUp, TypeOK, LookupTypeOK
<1>2. predecessor[n] = None \/ status'[predecessor[n]] = "up"
  <2>1. predecessor[n] \in Nodes \cup {None}
    BY DEF TypeOK
  <2> QED BY <2>1 DEF NodeInv, KnownIsUp, UpStaysUp
<1>3. ASSUME NEW i \in 0 .. M - 1
      PROVE  finger_table[n][i] = n \/ status'[finger_table[n][i]] = "up"
  <2>1. finger_table[n][i] \in Nodes
    BY DEF TypeOK, LookupTypeOK
  <2> QED BY <2>1 DEF NodeInv, KnownIsUp, UpStaysUp
<1> QED
  BY <1>1, <1>2, <1>3

\* What a step does not touch stays as good as it was.
LEMMA SameKeeps ==
    ASSUME NEW q \in Nodes, TypeOK, NodeInv(q), Same(q), UpStaysUp
    PROVE  NodeInv(q)'
<1>1. lk[q].np \in Nodes /\ lk[q].at \in Nodes
  BY DEF TypeOK, LookupTypeOK, Lookups
<1>2. resp[q] \in Nodes \cup {None} /\ (pc[q] = "done" => resp[q] \in Nodes)
  BY DEF TypeOK, LookupTypeOK
<1>3. KnownIsUp(q)'
  BY <1>1, <1>2, PointersStay DEF NodeInv, KnownIsUp, Same, UpStaysUp
<1>4. TaskFollowsStatus(q)' /\ SuccessorHeld(q)'
  BY DEF NodeInv, TaskFollowsStatus, SuccessorHeld, Same
<1> QED
  BY <1>3, <1>4 DEF NodeInv

\* A step of node n alone: only n itself needs an argument.
LEMMA OneNode ==
    ASSUME NEW n \in Nodes, TypeOK, JoinInv, late' = {}, UpStaysUp,
           \A q \in Nodes \ {n} : Same(q), NodeInv(n)'
    PROVE  JoinInv'
<1>1. \A q \in Nodes \ {n} : NodeInv(q)'
  BY SameKeeps DEF JoinInv, NodeInv
<1> QED
  BY <1>1 DEF JoinInv, NodeInv

LEMMA JoinNext ==
    ASSUME MaxCrashes = 0, MaxDrops = 0, TypeOK, JoinInv, PredBehindSucc,
           [Next]_vars
    PROVE  JoinInv' /\ PredBehindSucc'
<1> USE DEF ringPointers, ringVars
<1> DEFINE Goal == JoinInv' /\ PredBehindSucc'
<1>a. \A q \in Nodes : NodeInv(q)
  BY DEF JoinInv, NodeInv
<1>b. late = {} /\ drops = 0 /\ crashes = 0
  BY DEF JoinInv, TypeOK, LookupTypeOK
<1>c. ASSUME UNCHANGED <<successor, predecessor>> PROVE PredBehindSucc'
  BY <1>c DEF PredBehindSucc
<1>1. ASSUME NEW n \in Nodes, StartNewNetwork(n) PROVE Goal
  <2>1. UpStaysUp /\ late' = {} /\ \A q \in Nodes \ {n} : Same(q)
    BY <1>1, <1>b DEF StartNewNetwork, GoUp, UpStaysUp, Same, TypeOK, LookupTypeOK
  <2>2. successor'[n] = n /\ predecessor'[n] = None /\ pc'[n] = "idle"
        /\ status'[n] = "up" /\ finger_table'[n] = finger_table[n]
    BY <1>1 DEF StartNewNetwork, GoUp, TypeOK, LookupTypeOK
  <2>3. NodeInv(n)'
    <3>1. \A i \in 0 .. M - 1 : \/ finger_table[n][i] = n
                                \/ status'[finger_table[n][i]] = "up"
      BY <1>a, <2>1, PointersStay
    <3> QED BY <2>2, <3>1
            DEF NodeInv, KnownIsUp, TaskFollowsStatus, SuccessorHeld, LookupPcs
  <2>4. PredBehindSucc'
    <3>1. successor[n] = n
      BY <1>1, <1>a DEF StartNewNetwork, NodeInv, TaskFollowsStatus
    <3>2. \A q \in Nodes : successor'[q] = successor[q]
      BY <2>1, <2>2, <3>1 DEF Same
    <3>3. \A q \in Nodes : predecessor'[q] \in Nodes =>
                              predecessor'[q] = predecessor[q]
      BY <2>1, <2>2, NoneAssumption, NodesAssumption DEF Same
    <3> QED BY <3>2, <3>3 DEF PredBehindSucc
  <2> QED BY <2>1, <2>3, <2>4, OneNode
<1>2. ASSUME NEW n \in Nodes, JoinCall(n) PROVE Goal
  <2>1. UpStaysUp /\ late' = {} /\ \A q \in Nodes \ {n} : Same(q)
    <3>1. CASE GoUp(n)
      BY <1>2, <1>b, <3>1 DEF JoinCall, GoUp, UpStaysUp, Same,
                              TypeOK, LookupTypeOK
    <3>2. CASE /\ status' = [status EXCEPT ![n] = "joining"]
               /\ BeginLookup(n, Boot, n, 0)
      BY <1>2, <1>b, <3>2 DEF JoinCall, BeginLookup, UpStaysUp, Same,
                              TypeOK, LookupTypeOK
    <3> QED BY <1>2, <3>1, <3>2 DEF JoinCall
  <2>2. successor'[n] = successor[n] /\ predecessor'[n] = predecessor[n]
        /\ finger_table'[n] = finger_table[n] /\ successor[n] = n
    BY <1>2, <1>a DEF JoinCall, NodeInv, TaskFollowsStatus
  <2>3. \/ status'[n] = "up" /\ pc'[n] = "idle"
        \/ /\ status'[n] = "joining" /\ pc'[n] \in {"find", "final"}
           /\ lk'[n].np = Boot /\ lk'[n].at = Boot
           /\ status'[Boot] = "up"
    <3>1. CASE GoUp(n)
      BY <3>1 DEF GoUp, TypeOK, LookupTypeOK
    <3>2. CASE /\ CallOk(Boot)
               /\ status' = [status EXCEPT ![n] = "joining"]
               /\ BeginLookup(n, Boot, n, 0)
      <4>1. lk'[n].np = Boot /\ lk'[n].at = Boot
        BY <3>2 DEF BeginLookup, TypeOK, LookupTypeOK
      <4>2. pc'[n] \in {"find", "final"}
        BY <3>2 DEF BeginLookup, LoopPc, TypeOK
      <4>3. status'[n] = "joining" /\ status'[Boot] = "up"
        BY <1>2, <3>2 DEF JoinCall, CallOk, TypeOK, LookupTypeOK
      <4> QED BY <4>1, <4>2, <4>3
    <3> QED BY <1>2, <3>1, <3>2 DEF JoinCall
  <2>4. NodeInv(n)'
    <3>1. KnownIsUp(n)'
      BY <1>a, <2>1, <2>2, <2>3, PointersStay DEF KnownIsUp, LookupPcs
    <3> QED BY <2>2, <2>3, <3>1
            DEF NodeInv, TaskFollowsStatus, SuccessorHeld, LookupPcs
  <2> QED BY <1>2, <1>c, <2>1, <2>4, OneNode DEF JoinCall
<1>3. ASSUME NEW n \in Nodes, JoinDone(n) PROVE Goal
  <2>2. resp[n] \in Nodes /\ status[resp[n]] = "up" /\ resp[n] # n
    BY <1>3, <1>a DEF JoinDone, TypeOK, LookupTypeOK, NodeInv, KnownIsUp
  <2>1. UpStaysUp /\ late' = {} /\ \A q \in Nodes \ {n} : Same(q)
    BY <1>3, <1>b, <2>2 DEF JoinDone, UpStaysUp, Same, TypeOK, LookupTypeOK
  <2>3. successor'[n] = resp[n] /\ predecessor'[n] = predecessor[n]
        /\ pc'[n] = "transfer" /\ status'[n] = "joining"
        /\ finger_table'[n] = finger_table[n]
    BY <1>3, <2>2 DEF JoinDone, TypeOK, LookupTypeOK
  <2>4. NodeInv(n)'
    <3>1. status'[resp[n]] = "up"
      BY <2>1, <2>2 DEF UpStaysUp
    <3>2. KnownIsUp(n)'
      BY <1>a, <2>1, <2>3, <3>1, PointersStay DEF KnownIsUp, LookupPcs
    <3> QED BY <2>3, <3>2
            DEF NodeInv, TaskFollowsStatus, SuccessorHeld, LookupPcs
  <2>5. PredBehindSucc'
    <3>1. \A m \in Nodes : predecessor[m] # n
      BY <1>3, <1>a DEF JoinDone, NodeInv, KnownIsUp
    <3> QED BY <1>3, <2>1, <3>1 DEF JoinDone, PredBehindSucc, Same
  <2> QED BY <2>1, <2>4, <2>5, OneNode
<1>3a. ASSUME NEW n \in Nodes, JoinTransferred(n) PROVE Goal
  <2>1. UpStaysUp /\ late' = {} /\ \A q \in Nodes \ {n} : Same(q)
    BY <1>3a, <1>b DEF JoinTransferred, GoUp, UpStaysUp, Same, TypeOK, LookupTypeOK
  <2>2. successor'[n] = successor[n] /\ predecessor'[n] = predecessor[n]
        /\ pc'[n] = "idle" /\ status'[n] = "up"
        /\ finger_table'[n] = finger_table[n]
    BY <1>3a DEF JoinTransferred, GoUp, TypeOK, LookupTypeOK
  <2>3. NodeInv(n)'
    <3>1. KnownIsUp(n)'
      BY <1>a, <2>1, <2>2, PointersStay DEF KnownIsUp, LookupPcs
    <3> QED BY <2>2, <3>1
            DEF NodeInv, TaskFollowsStatus, SuccessorHeld, LookupPcs
  <2> QED BY <1>3a, <1>c, <2>1, <2>3, OneNode DEF JoinTransferred
<1>4. ASSUME NEW n \in Nodes, JoinFail(n) PROVE Goal
  BY <1>4, <1>a, <1>b DEF JoinFail, NodeInv, TaskFollowsStatus
<1>5. ASSUME NEW n \in Nodes, StabilizeStart(n) PROVE Goal
  <2>1. UpStaysUp /\ late' = {} /\ \A q \in Nodes \ {n} : Same(q)
    BY <1>5, <1>b DEF StabilizeStart, Goto, UpStaysUp, Same, TypeOK, LookupTypeOK
  <2>2. /\ peer'[n] = successor[n]
        /\ pc'[n] = IF successor[n] = n THEN "clear_pred" ELSE "ask_pred"
    BY <1>5 DEF StabilizeStart, Goto, TypeOK, LookupTypeOK
  <2>3. status[n] = "up"
    BY <1>5, <1>a DEF StabilizeStart, NodeInv, TaskFollowsStatus, LookupPcs,
                      TypeOK, LookupTypeOK
  <2>4. NodeInv(n)'
    BY <1>5, <1>a, <2>2, <2>3
    DEF StabilizeStart, NodeInv, KnownIsUp, TaskFollowsStatus, SuccessorHeld,
        LookupPcs
  <2> QED BY <1>5, <1>c, <2>1, <2>4, OneNode DEF StabilizeStart
<1>6. ASSUME NEW n \in Nodes, ClearPredecessor(n) PROVE Goal
  <2>1. UpStaysUp /\ late' = {} /\ \A q \in Nodes \ {n} : Same(q)
    BY <1>6, <1>b DEF ClearPredecessor, LeaveStabilize, Goto, UpStaysUp, Same,
                      TypeOK, LookupTypeOK
  <2>2. predecessor'[n] = None /\ pc'[n] = "fix"
    BY <1>6 DEF ClearPredecessor, LeaveStabilize, Goto, TypeOK, LookupTypeOK
  <2>3. status[n] = "up"
    BY <1>6, <1>a DEF ClearPredecessor, NodeInv, TaskFollowsStatus, LookupPcs,
                      TypeOK, LookupTypeOK
  <2>4. NodeInv(n)'
    BY <1>6, <1>a, <2>2, <2>3
    DEF ClearPredecessor, NodeInv, KnownIsUp, TaskFollowsStatus, SuccessorHeld,
        LookupPcs
  <2>5. PredBehindSucc'
    BY <1>6, <2>1, <2>2 DEF ClearPredecessor, PredBehindSucc, Same
  <2> QED BY <2>1, <2>4, <2>5, OneNode
<1>7. ASSUME NEW n \in Nodes, AskPredecessor(n) PROVE Goal
  <2>0. status[n] = "up"
    BY <1>7, <1>a DEF AskPredecessor, NodeInv, TaskFollowsStatus, LookupPcs,
                      TypeOK, LookupTypeOK
  <2>2. /\ peer[n] = successor[n] /\ successor[n] # n /\ peer[n] \in Nodes
        /\ status[peer[n]] = "up"
    BY <1>7, <1>a DEF AskPredecessor, NodeInv, SuccessorHeld, KnownIsUp, TypeOK
  <2>a. /\ resp' = [resp EXCEPT ![n] = predecessor[peer[n]]]
        /\ Goto(n, "adopt") /\ UNCHANGED peer
    BY <1>7, <1>b, <2>2, NoDrops DEF AskPredecessor, TypeOK, LookupTypeOK
  <2>1. UpStaysUp /\ late' = {} /\ \A q \in Nodes \ {n} : Same(q)
    BY <1>7, <1>b, <2>a DEF AskPredecessor, Goto, UpStaysUp, Same,
                            TypeOK, LookupTypeOK
  <2>3. /\ pc'[n] = "adopt" /\ peer'[n] = peer[n]
        /\ resp'[n] = predecessor[peer[n]]
    BY <2>a DEF Goto, TypeOK, LookupTypeOK
  <2>4. predecessor[peer[n]] = None \/ status[predecessor[peer[n]]] = "up"
    BY <1>a, <2>2 DEF NodeInv, KnownIsUp
  <2>5. NodeInv(n)'
    BY <1>7, <1>a, <2>0, <2>2, <2>3, <2>4
    DEF AskPredecessor, NodeInv, KnownIsUp, TaskFollowsStatus, SuccessorHeld,
        LookupPcs
  <2> QED BY <1>7, <1>c, <2>1, <2>5, OneNode DEF AskPredecessor
<1>8. ASSUME NEW n \in Nodes, Failover(n) PROVE Goal
  BY <1>8, <1>a DEF Failover, NodeInv, TaskFollowsStatus
<1>9. ASSUME NEW n \in Nodes, AdoptCloser(n) PROVE Goal
  <2>0. status[n] = "up"
    BY <1>9, <1>a DEF AdoptCloser, NodeInv, TaskFollowsStatus, LookupPcs,
                      TypeOK, LookupTypeOK
  <2>1. UpStaysUp /\ late' = {} /\ \A q \in Nodes \ {n} : Same(q)
    BY <1>9, <1>b DEF AdoptCloser, Goto, UpStaysUp, Same, TypeOK, LookupTypeOK
  <2>2. /\ peer[n] = successor[n] /\ successor[n] # n /\ successor[n] \in Nodes
        /\ status[successor[n]] = "up"
    BY <1>9, <1>a DEF AdoptCloser, NodeInv, SuccessorHeld, KnownIsUp,
                      TypeOK, LookupTypeOK
  <2>3. /\ pc'[n] = "notify" /\ peer'[n] = successor'[n]
        /\ \/ successor'[n] = successor[n]
           \/ /\ successor'[n] = resp[n] /\ resp[n] # None
              /\ is_between(resp[n], n, successor[n])
    BY <1>9, <2>2 DEF AdoptCloser, Goto, TypeOK, LookupTypeOK
  <2>4. /\ resp[n] = None \/ (resp[n] \in Nodes /\ status[resp[n]] = "up")
    BY <1>9, <1>a DEF AdoptCloser, NodeInv, KnownIsUp, TypeOK, LookupTypeOK
  <2>5. successor'[n] \in Nodes /\ successor'[n] # n /\ status[successor'[n]] = "up"
    BY <2>2, <2>3, <2>4, BetweenEnds
  <2>6. NodeInv(n)'
    BY <1>9, <1>a, <2>0, <2>3, <2>5
    DEF AdoptCloser, NodeInv, KnownIsUp, TaskFollowsStatus, SuccessorHeld,
        LookupPcs
  <2>7. PredBehindSucc'
    <3> SUFFICES ASSUME NEW a \in Nodes, NEW m \in Nodes, predecessor'[m] = a
                 PROVE  is_between(successor'[a], a, m)
      BY DEF PredBehindSucc
    <3>1. is_between(successor[a], a, m)
      BY <1>9 DEF AdoptCloser, PredBehindSucc
    <3>2. CASE successor'[a] = successor[a]
      BY <3>1, <3>2
    <3>3. CASE a = n /\ resp[n] # None /\ is_between(resp[n], n, successor[n])
               /\ successor'[n] = resp[n]
      BY <2>2, <2>4, <3>1, <3>3, BetweenShrinks
    <3> QED BY <2>1, <2>3, <3>2, <3>3 DEF Same
  <2> QED BY <2>1, <2>6, <2>7, OneNode
<1>10. ASSUME NEW n \in Nodes, NotifySuccessor(n) PROVE Goal
  <2>0. status[n] = "up"
    BY <1>10, <1>a DEF NotifySuccessor, NodeInv, TaskFollowsStatus, LookupPcs,
                       TypeOK, LookupTypeOK
  <2>1. PICK t \in Nodes : /\ t = successor[n] /\ peer[n] = t
                           /\ t # n /\ status[t] = "up"
    BY <1>10, <1>a DEF NotifySuccessor, NodeInv, SuccessorHeld, KnownIsUp,
                       TypeOK, LookupTypeOK
  <2>2. HandleNotify(t, n)
    BY <1>10, <1>b, <2>1, NoDrops DEF NotifySuccessor, TypeOK, LookupTypeOK
  <2>3. /\ UNCHANGED <<status, finger_table, lk, resp, late>>
        /\ pc' = [pc EXCEPT ![n] = "ulist"] /\ peer' = [peer EXCEPT ![n] = n]
    BY <1>10 DEF NotifySuccessor, BeginListUpdate, Goto
  <2>4. \A q \in Nodes \ {t} : /\ successor'[q] = successor[q]
                               /\ predecessor'[q] = predecessor[q]
    BY <2>2 DEF HandleNotify, TypeOK, LookupTypeOK
  <2>5. /\ predecessor'[t] \in {predecessor[t], n}
        /\ successor'[t] = successor[t]
              \/ (successor[t] = t /\ successor'[t] = n)
    BY <2>1, <2>2 DEF HandleNotify, TypeOK, LookupTypeOK
  <2>6. UpStaysUp /\ \A q \in Nodes \ {n, t} : Same(q)
    BY <2>3, <2>4 DEF UpStaysUp, Same, TypeOK
  <2>7. NodeInv(n)'
    BY <1>a, <2>0, <2>1, <2>3, <2>4
    DEF NodeInv, KnownIsUp, TaskFollowsStatus, SuccessorHeld, LookupPcs, TypeOK
  <2>8. NodeInv(t)'
    <3>1. KnownIsUp(t)'
      BY <1>a, <2>0, <2>1, <2>3, <2>5 DEF NodeInv, KnownIsUp, TypeOK
    <3>2. TaskFollowsStatus(t)'
      BY <1>a, <2>1, <2>3, <2>5 DEF NodeInv, TaskFollowsStatus, TypeOK
    <3>3. SuccessorHeld(t)'
      BY <1>a, <2>1, <2>3, <2>5 DEF NodeInv, SuccessorHeld, TypeOK
    <3> QED BY <3>1, <3>2, <3>3 DEF NodeInv
  <2>9. \A q \in Nodes \ {n, t} : NodeInv(q)'
    BY <1>a, <2>6, SameKeeps
  <2>10. JoinInv'
    BY <1>b, <2>3, <2>7, <2>8, <2>9 DEF JoinInv, NodeInv
  <2>11. PredBehindSucc'
    <3> SUFFICES ASSUME NEW a \in Nodes, NEW m \in Nodes, predecessor'[m] = a
                 PROVE  is_between(successor'[a], a, m)
      BY DEF PredBehindSucc
    <3>1. successor'[n] = t /\ is_between(t, n, t)
      BY <2>1, <2>4, BetweenEnds
    <3>2. CASE predecessor[m] = a
      <4>1. is_between(successor[a], a, m)
        BY <3>2 DEF PredBehindSucc
      <4>2. CASE successor'[a] = successor[a]
        BY <4>1, <4>2
      <4>3. CASE a = t /\ successor[t] = t
        BY <2>1, <4>1, <4>3, BetweenEnds
      <4> QED BY <2>4, <2>5, <4>2, <4>3
    <3>3. CASE a = n /\ m = t
      BY <3>1, <3>3
    <3> QED BY <2>4, <2>5, <3>2, <3>3
  <2> QED BY <2>10, <2>11
<1>11. ASSUME NEW n \in Nodes, NotifyAttemptTimesOut(n) PROVE Goal
  BY <1>11, <1>b DEF NotifyAttemptTimesOut
<1>12. ASSUME NEW n \in Nodes, NEW t \in Nodes, LateNotify(n, t) PROVE Goal
  BY <1>12, <1>b DEF LateNotify
<1>13. ASSUME NEW n \in Nodes, ExtendList(n) PROVE Goal
  <2>0. status[n] = "up"
    BY <1>13, <1>a DEF ExtendList, NodeInv, TaskFollowsStatus, LookupPcs,
                       TypeOK, LookupTypeOK
  <2>1. UNCHANGED <<status, successor, predecessor, finger_table, lk, late>>
    BY <1>13 DEF ExtendList
  <2>2. \/ UNCHANGED <<pc, peer, resp>> \/ LeaveStabilize(n)
    BY <1>13 DEF ExtendList, WriteList
  <2>3. UpStaysUp /\ late' = {} /\ \A q \in Nodes \ {n} : Same(q)
    <3>1. \A q \in Nodes \ {n} : pc'[q] = pc[q] /\ peer'[q] = peer[q]
                                 /\ resp'[q] = resp[q]
      <4>1. CASE UNCHANGED <<pc, peer, resp>>
        BY <4>1
      <4>2. CASE LeaveStabilize(n)
        BY <4>2 DEF LeaveStabilize, Goto, TypeOK, LookupTypeOK
      <4> QED BY <2>2, <4>1, <4>2
    <3> QED BY <1>b, <2>1, <3>1 DEF UpStaysUp, Same
  <2>4. pc'[n] \in {"ulist", "fix"}
    BY <1>13, <2>2 DEF ExtendList, LeaveStabilize, Goto, TypeOK
  <2>5. NodeInv(n)'
    BY <1>a, <2>0, <2>1, <2>4
    DEF NodeInv, KnownIsUp, TaskFollowsStatus, SuccessorHeld, LookupPcs
  <2> QED BY <1>c, <2>1, <2>3, <2>5, OneNode
<1>14. ASSUME NEW n \in Nodes, NEW i \in FixIdx, FixFingers(n, i) PROVE Goal
  <2>0. status[n] = "up"
    BY <1>14, <1>a DEF FixFingers, NodeInv, TaskFollowsStatus, LookupPcs,
                       TypeOK, LookupTypeOK
  <2>1. UpStaysUp /\ late' = {} /\ \A q \in Nodes \ {n} : Same(q)
    BY <1>14, <1>b DEF FixFingers, BeginLookup, UpStaysUp, Same,
                       TypeOK, LookupTypeOK
  <2>2. lk'[n].np = n /\ lk'[n].at = n
    BY <1>14 DEF FixFingers, BeginLookup, TypeOK, LookupTypeOK
  <2>3. pc'[n] \in {"find", "final"}
    BY <1>14 DEF FixFingers, BeginLookup, LoopPc, TypeOK
  <2>4. NodeInv(n)'
    BY <1>14, <1>a, <2>0, <2>2, <2>3
    DEF FixFingers, NodeInv, KnownIsUp, TaskFollowsStatus, SuccessorHeld,
        LookupPcs
  <2> QED BY <1>14, <1>c, <2>1, <2>4, OneNode DEF FixFingers
<1>15. ASSUME NEW n \in Nodes, LookupStep(n), UNCHANGED ringVars PROVE Goal
  <2> DEFINE np == lk[n].np
  <2>1. /\ np \in Nodes /\ lk[n].id \in Ids
        /\ UNCHANGED <<status, successor, finger_table>>
        /\ pc[n] \in LookupPcs
    BY <1>15, StepPc DEF TypeOK, LookupTypeOK, Lookups
  <2>2. status[np] = "up" /\ status[lk[n].at] = "up"
    BY <1>a, <2>1 DEF NodeInv, KnownIsUp
  <2>3. ~CallErr(np)
    BY <1>b, <2>2, NoDrops DEF TypeOK, LookupTypeOK
  <2>4. pc[n] # "backup"
    BY <1>a DEF NodeInv, TaskFollowsStatus
  <2> HIDE DEF np
  <2>5. \A q \in Nodes \ {n} : Same(q)
    BY <1>15, <2>1, <2>4 DEF LookupStep, FindHop, FindGetSuccessor, FindFinal,
       FindBackup, Same, TypeOK, LookupTypeOK
  <2>6. UpStaysUp /\ late' = {}
    BY <1>15, <1>b, <2>1 DEF UpStaysUp
  <2>7. CASE FindHop(n)
    <3>1. PICK next \in Nodes :
             /\ closest_preceding_node(np, lk[n].id, next)
             /\ lk' = [lk EXCEPT ![n] = Moved(n, next, lk[n].retry + 1)]
      BY <2>3, <2>7 DEF FindHop, np
    <3>2. next = np \/ \E i \in 0 .. M - 1 : next = finger_table[np][i]
      BY <3>1 DEF closest_preceding_node
    <3>3. status[next] = "up"
      BY <1>a, <2>1, <2>2, <3>2 DEF NodeInv, KnownIsUp
    <3>4. lk'[n].np = next /\ lk'[n].at = lk[n].at
      BY <3>1 DEF Moved, TypeOK, LookupTypeOK
    <3>5. pc'[n] \in {"final", "getsucc"}
      BY <2>7 DEF FindHop, TypeOK
    <3>6. NodeInv(n)'
      BY <1>15, <1>a, <2>1, <2>2, <3>3, <3>4, <3>5
      DEF NodeInv, KnownIsUp, TaskFollowsStatus, SuccessorHeld, LookupPcs
    <3> QED BY <1>15, <1>c, <2>1, <2>5, <2>6, <3>6, OneNode
  <2>8. CASE FindGetSuccessor(n)
    <3>1. lk' = [lk EXCEPT ![n].cs = successor[np]]
      BY <2>3, <2>8 DEF FindGetSuccessor, np
    <3>2. lk'[n].np = np /\ lk'[n].at = lk[n].at
      BY <3>1 DEF TypeOK, LookupTypeOK, Lookups, np
    <3>3. pc'[n] \in {"final", "find"}
      BY <2>8 DEF FindGetSuccessor, LoopPc, TypeOK
    <3>4. NodeInv(n)'
      BY <1>15, <1>a, <2>1, <2>2, <3>2, <3>3
      DEF NodeInv, KnownIsUp, TaskFollowsStatus, SuccessorHeld, LookupPcs
    <3> QED BY <1>15, <1>c, <2>1, <2>5, <2>6, <3>4, OneNode
  <2>9. CASE FindFinal(n)
    <3>1. pc'[n] = "done" /\ resp'[n] = successor[np] /\ lk' = lk
      BY <2>3, <2>9 DEF FindFinal, np, TypeOK, LookupTypeOK
    <3>2. status[successor[np]] = "up"
      BY <1>a, <2>1, <2>2 DEF NodeInv, KnownIsUp
    <3>3. NodeInv(n)'
      BY <1>15, <1>a, <2>1, <3>1, <3>2
      DEF NodeInv, KnownIsUp, TaskFollowsStatus, SuccessorHeld, LookupPcs
    <3> QED BY <1>15, <1>c, <2>1, <2>5, <2>6, <3>3, OneNode
  <2> QED BY <1>15, <2>4, <2>7, <2>8, <2>9 DEF LookupStep, FindBackup
<1>16. ASSUME NEW n \in Nodes, FixFingersDone(n) PROVE Goal
  <2>1. UpStaysUp /\ late' = {} /\ \A q \in Nodes \ {n} : Same(q)
    BY <1>16, <1>b DEF FixFingersDone, Goto, UpStaysUp, Same, TypeOK, LookupTypeOK
  <2>2. status[resp[n]] = "up" /\ pc'[n] = "check"
    BY <1>16, <1>a DEF FixFingersDone, Goto, NodeInv, KnownIsUp, TypeOK
  <2>3. \A i \in 0 .. M - 1 : finger_table'[n][i] \in {finger_table[n][i], resp[n]}
    BY <1>16 DEF FixFingersDone, TypeOK, LookupTypeOK
  <2>4. NodeInv(n)'
    BY <1>16, <1>a, <2>2, <2>3
    DEF FixFingersDone, NodeInv, KnownIsUp, TaskFollowsStatus, SuccessorHeld,
        LookupPcs
  <2> QED BY <1>16, <1>c, <2>1, <2>4, OneNode DEF FixFingersDone
<1>17. ASSUME NEW n \in Nodes, CheckPredecessor(n) PROVE Goal
  <2>0. status[n] = "up"
    BY <1>17, <1>a DEF CheckPredecessor, NodeInv, TaskFollowsStatus, LookupPcs,
                       TypeOK, LookupTypeOK
  <2>1. UpStaysUp /\ late' = {} /\ \A q \in Nodes \ {n} : Same(q)
    BY <1>17, <1>b DEF CheckPredecessor, Goto, UpStaysUp, Same, TypeOK, LookupTypeOK
  <2>2. pc'[n] \in {"idle", "ping_pred"}
    BY <1>17 DEF CheckPredecessor, Goto, TypeOK
  <2>3. NodeInv(n)'
    BY <1>17, <1>a, <2>0, <2>2
    DEF CheckPredecessor, NodeInv, KnownIsUp, TaskFollowsStatus, SuccessorHeld,
        LookupPcs
  <2> QED BY <1>17, <1>c, <2>1, <2>3, OneNode DEF CheckPredecessor
<1>18. ASSUME NEW n \in Nodes, PingPredecessor(n) PROVE Goal
  <2>0. status[n] = "up"
    BY <1>18, <1>a DEF PingPredecessor, NodeInv, TaskFollowsStatus, LookupPcs,
                       TypeOK, LookupTypeOK
  <2>1. UpStaysUp /\ late' = {} /\ \A q \in Nodes \ {n} : Same(q)
    BY <1>18, <1>b DEF PingPredecessor, Goto, UpStaysUp, Same, TypeOK, LookupTypeOK
  <2>2. pc'[n] = "idle" /\ predecessor'[n] \in {predecessor[n], None}
    BY <1>18 DEF PingPredecessor, Goto, TypeOK
  <2>3. NodeInv(n)'
    BY <1>18, <1>a, <2>0, <2>2
    DEF PingPredecessor, NodeInv, KnownIsUp, TaskFollowsStatus, SuccessorHeld,
        LookupPcs
  <2>4. PredBehindSucc'
    BY <1>18, <2>1, <2>2 DEF PingPredecessor, PredBehindSucc, Same
  <2> QED BY <2>1, <2>3, <2>4, OneNode
<1>19. ASSUME NEW n \in Nodes, Crash(n) PROVE Goal
  BY <1>19, <1>b DEF Crash
<1>20. CASE UNCHANGED vars
  BY <1>20 DEF vars, lookupVars, JoinInv, KnownIsUp, TaskFollowsStatus,
               SuccessorHeld, PredBehindSucc
<1> QED
  BY <1>1, <1>2, <1>3, <1>3a, <1>4, <1>5, <1>6, <1>7, <1>8, <1>9, <1>10, <1>11,
     <1>12, <1>13, <1>14, <1>15, <1>16, <1>17, <1>18, <1>19, <1>20
  DEF Next, Task, Environment

LEMMA JoinInvariant ==
    ASSUME MaxCrashes = 0, MaxDrops = 0
    PROVE  Spec => [](TypeOK /\ JoinInv /\ PredBehindSucc)
<1>1. Init => TypeOK /\ JoinInv /\ PredBehindSucc
  BY InitTyped, JoinInit
<1>2. TypeOK /\ JoinInv /\ PredBehindSucc /\ [Next]_vars
         => (TypeOK /\ JoinInv /\ PredBehindSucc)'
  BY NextTyped, JoinNext
<1> QED
  BY <1>1, <1>2, PTL DEF Spec

\* While nodes only join and no call fails, however the joins, stabilizations
\* and notifications interleave: no pointer ever leads to a node that is not
\* serving, and stabilize never acts on a stale successor.
THEOREM JoinKnowsLive ==
    ASSUME MaxCrashes = 0, MaxDrops = 0
    PROVE  Spec => []JoinInv
BY JoinInvariant, PTL

\* ... and whoever takes n for its predecessor is at or behind n's successor.
THEOREM JoinSafe ==
    ASSUME MaxCrashes = 0, MaxDrops = 0
    PROVE  Spec => []PredBehindSucc
BY JoinInvariant, PTL

\* While nodes only join, a successor pointer that has left its own node only
\* ever moves to a closer node: stabilize never undoes progress.
THEOREM JoinMonotone ==
    ASSUME MaxCrashes = 0, MaxDrops = 0
    PROVE  Spec => SuccessorOnlyCloser
<1> DEFINE Closer == \A n \in Nodes :
              (successor[n] # n /\ successor'[n] # successor[n])
                  => is_between(successor'[n], n, successor[n])
<1>1. TypeOK /\ JoinInv /\ [Next]_vars => [Closer]_vars
  <2> SUFFICES ASSUME TypeOK, JoinInv, Next, NEW n \in Nodes,
                      successor[n] # n, successor'[n] # successor[n]
               PROVE  is_between(successor'[n], n, successor[n])
    OBVIOUS
  <2> USE DEF ringPointers, ringVars
  <2>1. PICK a \in Nodes : Task(a) \/ Environment(a)
    BY DEF Next
  <2>2. /\ late = {} /\ drops = 0 /\ crashes = 0
        /\ status[n] = "up" \/ (status[n] = "joining" /\ pc[n] = "transfer")
    <3>1. TaskFollowsStatus(n) /\ late = {}
      BY DEF JoinInv
    <3>2. status[n] \in {"down", "joining", "up"} /\ drops = 0 /\ crashes = 0
      BY DEF TypeOK, LookupTypeOK
    <3> QED BY <3>1, <3>2 DEF TaskFollowsStatus
  <2>3. ~Crash(a) /\ ~Failover(a) /\ (\A t \in Nodes : ~LateNotify(a, t))
    BY <2>2 DEF Crash, Failover, LateNotify, JoinInv, TaskFollowsStatus
  <2>4. ASSUME StartNewNetwork(a) \/ JoinDone(a) PROVE FALSE
    <3>1. a # n
      BY <2>2, <2>4 DEF StartNewNetwork, JoinDone
    <3>2. \/ UNCHANGED successor
          \/ \E s \in Nodes : successor' = [successor EXCEPT ![a] = s]
      BY <2>4 DEF StartNewNetwork, JoinDone, TypeOK, LookupTypeOK
    <3> QED BY <3>1, <3>2 DEF TypeOK, LookupTypeOK
  <2>5. CASE AdoptCloser(a)
    BY <2>5 DEF AdoptCloser, JoinInv, SuccessorHeld, TypeOK, LookupTypeOK
  <2>6. ASSUME NotifySuccessor(a) PROVE FALSE
    <3>1. CASE HandleNotify(peer[a], a)
      <4>1. PICK t \in Nodes : t = peer[a]
        BY DEF TypeOK
      <4>2. HandleNotify(t, a)
        BY <3>1, <4>1
      <4>3. \/ UNCHANGED successor
            \/ successor' = [successor EXCEPT ![t] = IF @ = t THEN a ELSE @]
        BY <4>2 DEF HandleNotify
      <4> QED BY <4>3 DEF TypeOK, LookupTypeOK
    <3>2. CASE UNCHANGED successor
      BY <3>2
    <3>3. HandleNotify(peer[a], a) \/ UNCHANGED <<predecessor, successor>>
      BY <2>6 DEF NotifySuccessor
    <3> QED BY <3>1, <3>2, <3>3
  <2>7. ASSUME LookupStep(a) PROVE FALSE
    BY <2>7, StepPc DEF TypeOK
  <2> QED
    BY <2>1, <2>3, <2>4, <2>5, <2>6, <2>7
    DEF Task, Environment, JoinCall, JoinTransferred, JoinFail, StabilizeStart,
        ClearPredecessor, AskPredecessor, ExtendList, FixFingers,
        FixFingersDone, CheckPredecessor, PingPredecessor,
        NotifyAttemptTimesOut
<1>2. Spec => [](TypeOK /\ JoinInv /\ PredBehindSucc)
  BY JoinInvariant
<1> QED
  BY <1>1, <1>2, PTL DEF Spec, SuccessorOnlyCloser

-----------------------------------------------------------------------------
(* Whatever fails.                                                         *)

LEMMA OfflineNext ==
    ASSUME TypeOK, OfflineIsAlone, [Next]_vars
    PROVE  OfflineIsAlone' /\ \A n \in Nodes :
              (successor[n] # n /\ status'[n] = "up") => successor'[n] # n
<1> USE DEF ringPointers, ringVars
<1> DEFINE Goal == OfflineIsAlone' /\ \A n \in Nodes :
              (successor[n] # n /\ status'[n] = "up") => successor'[n] # n
<1>0. \A m \in late : m[2] \in Nodes
  BY DEF TypeOK
<1>a. ASSUME NEW n \in Nodes, status[n] = "up", UNCHANGED <<status, late>>,
             \A q \in Nodes \ {n} : pc'[q] = pc[q] /\ successor'[q] = successor[q],
             successor'[n] = successor[n] \/ successor'[n] # n
      PROVE  Goal
  BY <1>0, <1>a DEF OfflineIsAlone
<1>b. ASSUME NEW n \in Nodes, GoUp(n), UNCHANGED late, status[n] # "up",
             \A q \in Nodes : successor'[q] = successor[q]
      PROVE  Goal
  <2>1. /\ status'[n] = "up"
        /\ \A q \in Nodes \ {n} : status'[q] = status[q] /\ pc'[q] = pc[q]
    BY <1>b DEF GoUp, TypeOK, LookupTypeOK
  <2> QED BY <1>0, <1>b, <2>1 DEF OfflineIsAlone
<1>c. ASSUME NEW n \in Nodes,
             \/ status[n] = "up"
             \/ pc[n] \in LookupPcs /\ pc'[n] \in LookupPcs \cup {"done"},
             UNCHANGED <<status, successor, late>>,
             \A q \in Nodes \ {n} : pc'[q] = pc[q]
      PROVE  Goal
  BY <1>0, <1>c DEF OfflineIsAlone, LookupPcs
<1>d. ASSUME NEW n \in Nodes,
             pc[n] \notin {"off", "done", "lk_err", "transfer"} \cup LookupPcs
      PROVE  status[n] = "up"
  BY <1>d DEF OfflineIsAlone, TypeOK, LookupTypeOK
<1>e. ASSUME NEW t \in Nodes, NEW a \in Nodes, HandleNotify(t, a)
      PROVE  \A q \in Nodes : \/ successor'[q] = successor[q]
                              \/ q = t /\ successor'[q] # q
  BY <1>e DEF HandleNotify, TypeOK, LookupTypeOK
<1>1. ASSUME NEW n \in Nodes, StartNewNetwork(n) PROVE Goal
  <2>1. successor[n] = n
    BY <1>1 DEF StartNewNetwork, OfflineIsAlone
  <2>2. \A q \in Nodes : successor'[q] = successor[q]
    BY <1>1, <2>1 DEF StartNewNetwork, TypeOK, LookupTypeOK
  <2> QED BY <1>1, <1>b, <2>2 DEF StartNewNetwork
<1>2. ASSUME NEW n \in Nodes, JoinCall(n) PROVE Goal
  <2>1. CASE GoUp(n)
    BY <1>2, <1>b, <2>1 DEF JoinCall
  <2>2. CASE /\ status' = [status EXCEPT ![n] = "joining"]
             /\ BeginLookup(n, Boot, n, 0)
    <3>1. pc'[n] \in {"find", "final"} /\ status'[n] = "joining"
      BY <2>2 DEF BeginLookup, LoopPc, TypeOK, LookupTypeOK
    <3>2. \A q \in Nodes \ {n} : pc'[q] = pc[q] /\ status'[q] = status[q]
      BY <2>2 DEF BeginLookup, TypeOK, LookupTypeOK
    <3> QED BY <1>0, <1>2, <3>1, <3>2 DEF JoinCall, OfflineIsAlone, LookupPcs
  <2> QED BY <1>2, <2>1, <2>2 DEF JoinCall
<1>3. ASSUME NEW n \in Nodes, JoinDone(n) PROVE Goal
  <2>1. CASE resp[n] = n
    BY <1>3, <1>b, <2>1 DEF JoinDone
  <2>2. CASE resp[n] # n
    <3>1. /\ UNCHANGED <<status, late>> /\ status[n] = "joining"
          /\ pc'[n] = "transfer"
          /\ \A q \in Nodes \ {n} : pc'[q] = pc[q] /\ successor'[q] = successor[q]
      BY <1>3, <2>2 DEF JoinDone, TypeOK, LookupTypeOK
    <3> QED BY <1>0, <3>1 DEF OfflineIsAlone
  <2> QED BY <2>1, <2>2
<1>3a. ASSUME NEW n \in Nodes, JoinTransferred(n) PROVE Goal
  BY <1>3a, <1>b DEF JoinTransferred
<1>4. ASSUME NEW n \in Nodes, JoinFail(n) PROVE Goal
  BY <1>4, <1>b DEF JoinFail
<1>5. ASSUME NEW n \in Nodes, \/ StabilizeStart(n) \/ ClearPredecessor(n)
             \/ AskPredecessor(n) \/ CheckPredecessor(n) \/ PingPredecessor(n)
      PROVE  Goal
  <2>1. status[n] = "up" /\ UNCHANGED <<status, successor, late>>
    BY <1>5, <1>d DEF StabilizeStart, ClearPredecessor, AskPredecessor,
       CheckPredecessor, PingPredecessor, LookupPcs
  <2>2. \A q \in Nodes \ {n} : pc'[q] = pc[q]
    BY <1>5 DEF StabilizeStart, ClearPredecessor, LeaveStabilize,
       AskPredecessor, CheckPredecessor, PingPredecessor, Goto, TypeOK
  <2> QED BY <1>c, <2>1, <2>2
<1>6. ASSUME NEW n \in Nodes, Failover(n) PROVE Goal
  <2>1. status[n] = "up" /\ UNCHANGED <<status, late>>
    BY <1>6, <1>d DEF Failover, LookupPcs
  <2>2. \A q \in Nodes \ {n} : pc'[q] = pc[q] /\ successor'[q] = successor[q]
    <3>1. CASE UNCHANGED <<successor, pc>>
      BY <3>1
    <3>2. CASE /\ FoundCandidate(n, n)
               /\ successor' = [successor EXCEPT ![n] = Head(list[n])]
               /\ BeginListUpdate(n, Head(list[n]))
      BY <3>2 DEF BeginListUpdate, Goto, TypeOK, LookupTypeOK
    <3>3. CASE LeaveStabilize(n) /\ UNCHANGED successor
      BY <3>3 DEF LeaveStabilize, Goto, TypeOK
    <3> QED BY <1>6, <3>1, <3>2, <3>3 DEF Failover
  <2>3. successor'[n] = successor[n] \/ successor'[n] # n
    BY <1>6 DEF Failover, FoundCandidate, TypeOK, LookupTypeOK
  <2> QED BY <1>a, <2>1, <2>2, <2>3
<1>7. ASSUME NEW n \in Nodes, AdoptCloser(n) PROVE Goal
  <2>1. status[n] = "up" /\ UNCHANGED <<status, late>>
    BY <1>7, <1>d DEF AdoptCloser, LookupPcs
  <2>2. \A q \in Nodes \ {n} : pc'[q] = pc[q] /\ successor'[q] = successor[q]
    BY <1>7 DEF AdoptCloser, Goto, TypeOK, LookupTypeOK
  <2>3. ~is_between(n, n, peer[n])
    BY BetweenEnds DEF TypeOK
  <2>4. successor'[n] = successor[n] \/ successor'[n] # n
    BY <1>7, <2>3 DEF AdoptCloser, TypeOK, LookupTypeOK
  <2> QED BY <1>a, <2>1, <2>2, <2>4
<1>8. ASSUME NEW n \in Nodes, NotifySuccessor(n) PROVE Goal
  <2>1. status[n] = "up" /\ UNCHANGED <<status, late>>
    BY <1>8, <1>d DEF NotifySuccessor, LookupPcs
  <2>2. \A q \in Nodes \ {n} : pc'[q] = pc[q]
    BY <1>8 DEF NotifySuccessor, BeginListUpdate, Goto, TypeOK
  <2>3. \A q \in Nodes : \/ successor'[q] = successor[q]
                         \/ status[q] = "up" /\ successor'[q] # q
    BY <1>8, <1>e DEF NotifySuccessor, CallOk, TypeOK
  <2> QED BY <1>0, <2>1, <2>2, <2>3 DEF OfflineIsAlone
<1>9. ASSUME NEW n \in Nodes, NotifyAttemptTimesOut(n) PROVE Goal
  BY <1>9 DEF NotifyAttemptTimesOut, OfflineIsAlone
<1>10. ASSUME NEW n \in Nodes, NEW t \in Nodes, LateNotify(n, t) PROVE Goal
  <2>1. status[t] = "up" /\ UNCHANGED <<status, pc>> /\ late' \subseteq late
    BY <1>10 DEF LateNotify, OfflineIsAlone
  <2>2. \A q \in Nodes : \/ successor'[q] = successor[q]
                         \/ status[q] = "up" /\ successor'[q] # q
    BY <1>10, <1>e, <2>1 DEF LateNotify
  <2> QED BY <1>0, <2>1, <2>2 DEF OfflineIsAlone
<1>11. ASSUME NEW n \in Nodes, ExtendList(n) PROVE Goal
  <2>1. status[n] = "up" /\ UNCHANGED <<status, successor, late>>
    BY <1>11, <1>d DEF ExtendList, LookupPcs
  <2>2. UNCHANGED pc \/ Goto(n, "fix")
    BY <1>11 DEF ExtendList, WriteList, LeaveStabilize
  <2>3. \A q \in Nodes \ {n} : pc'[q] = pc[q]
    BY <2>2 DEF Goto, TypeOK
  <2> QED BY <1>c, <2>1, <2>3
<1>12. ASSUME NEW n \in Nodes, NEW i \in FixIdx, FixFingers(n, i) PROVE Goal
  <2>1. status[n] = "up" /\ UNCHANGED <<status, successor, late>>
    BY <1>12, <1>d DEF FixFingers, LookupPcs
  <2>2. \A q \in Nodes \ {n} : pc'[q] = pc[q]
    BY <1>12 DEF FixFingers, BeginLookup, TypeOK
  <2> QED BY <1>c, <2>1, <2>2
<1>13. ASSUME NEW n \in Nodes, LookupStep(n), UNCHANGED ringVars PROVE Goal
  <2>1. /\ UNCHANGED <<status, successor, late>>
        /\ \E l \in LookupPcs \cup {"done"} : pc' = [pc EXCEPT ![n] = l]
    BY <1>13, StepPc DEF TypeOK
  <2>3. pc[n] \in LookupPcs
    BY <1>13 DEF LookupStep, FindHop, FindGetSuccessor, FindFinal, FindBackup,
                 LookupPcs
  <2>2. /\ pc'[n] \in LookupPcs \cup {"done"}
        /\ \A q \in Nodes \ {n} : pc'[q] = pc[q]
    BY <2>1 DEF TypeOK
  <2> QED BY <1>c, <2>1, <2>2, <2>3
<1>14. ASSUME NEW n \in Nodes, FixFingersDone(n) PROVE Goal
  <2>1. status[n] = "up" /\ UNCHANGED <<status, successor, late>>
    BY <1>14 DEF FixFingersDone
  <2>2. \A q \in Nodes \ {n} : pc'[q] = pc[q]
    BY <1>14 DEF FixFingersDone, Goto, TypeOK
  <2> QED BY <1>c, <2>1, <2>2
<1>15. ASSUME NEW n \in Nodes, Crash(n) PROVE Goal
  <2>1. /\ status'[n] = "down" /\ successor'[n] = n /\ pc'[n] = "off"
        /\ \A q \in Nodes \ {n} : /\ status'[q] = status[q]
                                  /\ successor'[q] = successor[q]
                                  /\ \/ pc'[q] = pc[q]
                                     \/ pc[q] \in LookupPcs /\ pc'[q] = "lk_err"
    BY <1>15 DEF Crash, TypeOK, LookupTypeOK
  <2>2. \A m \in late' : m \in late /\ m[2] \in Nodes \ {n}
    BY <1>0, <1>15 DEF Crash
  <2> QED BY <2>1, <2>2 DEF OfflineIsAlone, LookupPcs
<1>16. CASE UNCHANGED vars
  BY <1>16 DEF vars, lookupVars, OfflineIsAlone
<1> QED
  BY <1>1, <1>2, <1>3, <1>3a, <1>4, <1>5, <1>6, <1>7, <1>8, <1>9, <1>10, <1>11,
     <1>12, <1>13, <1>14, <1>15, <1>16
  DEF Next, Task, Environment

\* Whatever joins, crashes, restarts, lost, repeated and late calls happen: a
\* node that does not serve is in nobody's ring by its own pointers ...
THEOREM OfflineAlone == Spec => []OfflineIsAlone
<1>1. Init => OfflineIsAlone
  BY DEF Init, OfflineIsAlone
<1>2. TypeOK /\ OfflineIsAlone /\ [Next]_vars => OfflineIsAlone'
  BY OfflineNext
<1> QED
  BY <1>1, <1>2, TypeCorrect, PTL DEF Spec

\* ... and a serving node that has a successor keeps one: it never becomes its
\* own successor again, not even when every other node is gone.
THEOREM NeverAlone == Spec => NeverAloneAgain
<1> DEFINE Keeps == \A n \in Nodes :
              (successor[n] # n /\ status'[n] = "up") => successor'[n] # n
<1>1. TypeOK /\ OfflineIsAlone /\ [Next]_vars => [Keeps]_vars
  BY OfflineNext
<1> QED
  BY <1>1, OfflineAlone, TypeCorrect, PTL DEF Spec, NeverAloneAgain

-----------------------------------------------------------------------------
(* While nodes only join: one ring in order.                               *)

\* n has found its way to the ring, or is where the ring begins.
Placed(n) == n = Boot \/ successor[n] # n

\* Whatever n can pass on as somebody's successor is placed.
KnownIsPlaced(n) ==
    /\ successor[n] = n \/ Placed(successor[n])
    /\ \A i \in 0 .. M - 1 : finger_table[n][i] = n \/ Placed(finger_table[n][i])
    /\ pc[n] \in LookupPcs => lk[n].np = n \/ Placed(lk[n].np)
    /\ pc[n] = "done" => resp[n] = n \/ Placed(resp[n])

\* Along D the successor pointers stay in A and skip nothing of it.
Steps(D, A) ==
    \A y \in D : /\ successor[y] \in A
                /\ \A z \in A : is_between(z, y, successor[y]) => z = successor[y]

\* P is the way from x to m: successor pointers lead through all of it, in
\* clockwise order and without passing m.
Chain(P, x, m) ==
    /\ x \in P /\ m \in P
    /\ \A y \in P : status[y] = "up" /\ (y = x \/ is_between(y, x, m))
    /\ \A y \in P \ {m} : is_between(successor[y], y, m)
    /\ Steps(P \ {m}, P)

Linked(x, m) == \E P \in SUBSET Nodes : Chain(P, x, m)

\* S is a ring in order, with the bootstrap node on it.
RingOf(S) ==
    /\ Boot \in S
    /\ S # {Boot} => \A y \in S : successor[y] # y /\ status[y] = "up"
    /\ Steps(S, S)

\* Every other way leads onto S.
NoOther(S) ==
    \A T \in SUBSET (Nodes \ S) :
        (\A y \in T : successor[y] # y /\ successor[y] \in T) => T = {}

Core == \E S \in SUBSET Nodes : RingOf(S) /\ NoOther(S)

\* Whoever is taken for a predecessor of m, or was when stabilize asked, has
\* a way to m: adopting it never cuts anybody off.
RingInv ==
    /\ status[Boot] # "joining"
    /\ \A n \in Nodes : KnownIsPlaced(n)
    /\ \A m \in Nodes : predecessor[m] # None => Linked(predecessor[m], m)
    /\ \A n \in Nodes : (pc[n] = "adopt" /\ resp[n] # None) => Linked(resp[n], peer[n])
    /\ Core

\* Interval arithmetic: x lies between q and m, and the pointers of A skip no
\* point of A, m being the one after q.
LEMMA SpliceOrder ==
    ASSUME NEW q \in Ids, NEW m \in Ids, NEW y \in Ids, NEW sy \in Ids, NEW z \in Ids,
           is_between(z, q, m), z # m, is_between(z, y, sy), y # q,
           is_between(y, q, m) => y = m, is_between(sy, q, m) => sy = m,
           is_between(q, y, sy) => q = sy
    PROVE  FALSE
BY PowersOfTwo DEF Ids, is_between

LEMMA BetweenMiddle ==
    ASSUME NEW q \in Ids, NEW x \in Ids, NEW y \in Ids, NEW m \in Ids,
           is_between(x, q, m), y = x \/ is_between(y, x, m), x # m
    PROVE  /\ is_between(y, q, m)
           /\ is_between(y, q, x) => y = x
BY PowersOfTwo DEF Ids, is_between

LEMMA BetweenTrans ==
    ASSUME NEW x \in Ids, NEW q \in Ids, NEW y \in Ids, NEW m \in Ids,
           q = x \/ is_between(q, x, m), is_between(y, q, m)
    PROVE  y = x \/ is_between(y, x, m)
BY PowersOfTwo DEF Ids, is_between

LEMMA BetweenFurther ==
    ASSUME NEW q \in Ids, NEW y \in Ids, NEW sy \in Ids, NEW s \in Ids, NEW m \in Ids,
           is_between(y, q, s), is_between(sy, y, s), is_between(s, q, m)
    PROVE  is_between(sy, y, m)
BY PowersOfTwo DEF Ids, is_between

LEMMA BetweenTail ==
    ASSUME NEW q \in Ids, NEW y \in Ids, NEW sy \in Ids, NEW m \in Ids, NEW z \in Ids,
           is_between(y, q, m), is_between(sy, y, m),
           z = sy \/ is_between(z, y, sy)
    PROVE  is_between(z, q, m) /\ is_between(z, y, m)
BY PowersOfTwo DEF Ids, is_between

\* Adopting x, which has a way P to the old successor m of q, splices P into
\* whatever A the pointer of q was part of.
LEMMA Splice ==
    ASSUME NEW A \in SUBSET Nodes, NEW D \in SUBSET A, NEW P \in SUBSET Nodes,
           NEW q \in D, NEW x \in Nodes, NEW m \in Nodes, LookupTypeOK,
           m = successor[q], Steps(D, A), Chain(P, x, m),
           is_between(x, q, m), x # m,
           successor' = [successor EXCEPT ![q] = x]
    PROVE  Steps(D \cup (P \ {m}), A \cup P)' /\ q \notin P
<1> USE NodesAssumption
<1>1. successor \in [Nodes -> Nodes]
  BY DEF LookupTypeOK
<1>2. \A y \in P : is_between(y, q, m) /\ (is_between(y, q, x) => y = x)
  BY BetweenMiddle DEF Chain
<1>3. q \notin P
  BY <1>2, BetweenEnds
<1>4. m \in A /\ m \in P /\ x \in P
  BY DEF Steps, Chain
<1>5. \A z \in A : is_between(z, q, m) => z = m
  BY DEF Steps
<1> SUFFICES ASSUME NEW y \in D \cup (P \ {m})
             PROVE  /\ successor'[y] \in A \cup P
                    /\ \A z \in A \cup P :
                          is_between(z, y, successor'[y]) => z = successor'[y]
  BY <1>3 DEF Steps
<1>6. CASE y = q
  <2>1. successor'[y] = x
    BY <1>1, <1>6
  <2>2. ASSUME NEW z \in A \cup P, is_between(z, q, x) PROVE z = x
    <3>1. CASE z \in P
      BY <1>2, <2>2, <3>1
    <3>2. CASE z \in A
      <4>1. is_between(z, q, m)
        BY <2>2, BetweenShrinks
      <4> QED BY <1>2, <1>4, <1>5, <2>2, <3>2, <4>1
    <3> QED BY <3>1, <3>2
  <2> QED BY <1>4, <1>6, <2>1, <2>2
<1>7. CASE y \in D /\ y # q
  <2>1. successor'[y] = successor[y] /\ successor[y] \in A
    BY <1>1, <1>7 DEF Steps
  <2>2. ASSUME NEW z \in A \cup P, is_between(z, y, successor[y])
        PROVE  z = successor[y]
    <3>1. CASE z \in A
      BY <1>7, <2>2, <3>1 DEF Steps
    <3>2. CASE z \in P \ A
      <4>1. is_between(z, q, m) /\ z # m
        BY <1>2, <1>4, <3>2
      <4>2. is_between(q, y, successor[y]) => q = successor[y]
        BY <1>7 DEF Steps
      <4>3. /\ is_between(y, q, m) => y = m
            /\ is_between(successor[y], q, m) => successor[y] = m
        BY <1>5, <1>7, <2>1
      <4>4. y \in Ids /\ successor[y] \in Ids /\ q \in Ids /\ m \in Ids /\ z \in Ids
        BY <1>7, <2>1
      <4> QED BY <1>7, <2>2, <4>1, <4>2, <4>3, <4>4, SpliceOrder
    <3> QED BY <3>1, <3>2
  <2> QED BY <2>1, <2>2
<1>8. CASE y \in P \ {m}
  <2>1. /\ successor'[y] = successor[y] /\ successor[y] \in P
        /\ is_between(successor[y], y, m)
    BY <1>1, <1>3, <1>8 DEF Steps, Chain
  <2>2. ASSUME NEW z \in A \cup P, is_between(z, y, successor[y])
        PROVE  z = successor[y]
    <3>1. CASE z \in P
      BY <1>8, <2>2, <3>1 DEF Steps, Chain
    <3>2. CASE z \in A
      <4>1. is_between(y, q, m) /\ successor[y] \in Nodes
        BY <1>2, <1>8, <2>1
      <4>2. is_between(z, q, m)
        BY <1>8, <2>1, <2>2, <4>1, BetweenTail
      <4>3. z \in P
        BY <1>4, <1>5, <3>2, <4>2
      <4> QED BY <3>1, <4>3
    <3> QED BY <3>1, <3>2
  <2> QED BY <2>1, <2>2
<1> QED BY <1>6, <1>7, <1>8

LEMMA DistanceNat ==
    ASSUME NEW a \in Ids, NEW b \in Ids
    PROVE  Distance(a, b) \in Nat
BY PowersOfTwo DEF Ids, Distance

\* Of a nonempty set of nodes, one is nearest before m.
LEMMA NearestBefore ==
    ASSUME NEW W \in SUBSET Nodes, W # {}, NEW m \in Nodes
    PROVE  \E y \in W : \A z \in W : Distance(y, m) <= Distance(z, m)
<1> DEFINE F == {Distance(y, m) : y \in W}
<1>1. F \in SUBSET Nat /\ F # {}
  BY NodesAssumption, DistanceNat
<1>2. PICK d \in F : \A e \in F : d <= e
  <2> HIDE DEF F
  <2> QED BY <1>1, LeastNat
<1> QED BY <1>2

\* A set that is closed under the pointers and meets the way to m holds m.
LEMMA ChainEnd ==
    ASSUME NEW P \in SUBSET Nodes, NEW x \in Nodes, NEW m \in Nodes, Chain(P, x, m),
           NEW T, x \in T, \A y \in T \cap (P \ {m}) : successor[y] \in T
    PROVE  m \in T
<1> SUFFICES ASSUME m \notin T PROVE FALSE
  OBVIOUS
<1> USE NodesAssumption
<1>1. T \cap P \in SUBSET Nodes /\ T \cap P # {}
  BY DEF Chain
<1>2. PICK y \in T \cap P : \A z \in T \cap P : Distance(y, m) <= Distance(z, m)
  BY <1>1, NearestBefore
<1>3. /\ successor[y] \in T \cap P
      /\ is_between(successor[y], y, m)
  BY <1>2 DEF Chain, Steps
<1>4. Distance(successor[y], m) < Distance(y, m)
  BY <1>2, <1>3, BetweenIsCloser
<1>5. Distance(successor[y], m) \in Nat /\ Distance(y, m) \in Nat
  BY <1>2, <1>3, DistanceNat
<1> QED BY <1>2, <1>3, <1>4, <1>5

Kept ==
    /\ \A x, m \in Nodes : Linked(x, m) => Linked(x, m)'
    /\ Core => Core'
    /\ \A y \in Nodes : Placed(y) => Placed(y)'

LEMMA QuietKept ==
    ASSUME UpStaysUp, LookupTypeOK, UNCHANGED successor
    PROVE  Kept
<1>1. ASSUME NEW P \in SUBSET Nodes, NEW x \in Nodes, NEW m \in Nodes, Chain(P, x, m)
      PROVE  Chain(P, x, m)'
  BY <1>1 DEF Chain, Steps, UpStaysUp
<1>2. ASSUME NEW S \in SUBSET Nodes, RingOf(S), NoOther(S) PROVE RingOf(S)' /\ NoOther(S)'
  BY <1>2 DEF RingOf, NoOther, Steps, UpStaysUp
<1> QED BY <1>1, <1>2 DEF Kept, Linked, Core, Placed

\* A way to m does not use the pointer of a node that is its own successor.
LEMMA LoneKeepsWays ==
    ASSUME UpStaysUp, LookupTypeOK, NEW q \in Nodes, successor[q] = q, NEW v \in Nodes,
           successor' = [successor EXCEPT ![q] = v], NEW x \in Nodes, NEW m \in Nodes,
           Linked(x, m)
    PROVE  Linked(x, m)'
<1> USE NodesAssumption
<1>1. PICK P \in SUBSET Nodes : Chain(P, x, m)
  BY DEF Linked
<1>2. \A y \in P \ {m} : y # q
  BY <1>1, BetweenEnds DEF Chain
<1>3. \A y \in P \ {m} : successor'[y] = successor[y]
  BY <1>2 DEF LookupTypeOK
<1>4. Chain(P, x, m)'
  BY <1>1, <1>3 DEF Chain, Steps, UpStaysUp
<1> QED BY <1>4 DEF Linked

\* join links a node nobody points to yet.
LEMMA JoinKept ==
    ASSUME UpStaysUp, LookupTypeOK, NEW q \in Nodes \ {Boot}, successor[q] = q,
           status[q] # "up",
           \A y \in Nodes \ {q} : successor[y] # q, NEW v \in Nodes \ {q},
           successor' = [successor EXCEPT ![q] = v]
    PROVE  Kept
<1>0. successor'[q] = v /\ \A y \in Nodes \ {q} : successor'[y] = successor[y]
  BY DEF LookupTypeOK
<1>1. ASSUME NEW S \in SUBSET Nodes, RingOf(S), NoOther(S) PROVE RingOf(S)' /\ NoOther(S)'
  <2>1. q \notin S
    BY <1>1 DEF RingOf
  <2>2. RingOf(S)'
    BY <1>0, <1>1, <2>1 DEF RingOf, Steps, UpStaysUp
  <2>3. ASSUME NEW T \in SUBSET (Nodes \ S),
               \A y \in T : successor'[y] # y /\ successor'[y] \in T
        PROVE  T = {}
    <3>1. T \ {q} \in SUBSET (Nodes \ S)
      OBVIOUS
    <3>2. \A y \in T \ {q} : successor[y] # y /\ successor[y] \in T \ {q}
      BY <1>0, <2>3
    <3>3. T \ {q} = {}
      BY <1>1, <3>1, <3>2 DEF NoOther
    <3> QED BY <1>0, <2>3, <3>3
  <2> QED BY <2>2, <2>3 DEF NoOther
<1>2. \A y \in Nodes : Placed(y) => Placed(y)'
  BY <1>0 DEF Placed
<1>3. \A x, m \in Nodes : Linked(x, m) => Linked(x, m)'
  BY LoneKeepsWays
<1> QED BY <1>1, <1>2, <1>3 DEF Kept, Core

\* notify links the lone bootstrap node to the first node that joined it.
LEMMA BootKept ==
    ASSUME UpStaysUp, LookupTypeOK, NEW v \in Nodes \ {Boot}, successor[Boot] = Boot,
           successor[v] = Boot, status[v] = "up", status[Boot] = "up",
           successor' = [successor EXCEPT ![Boot] = v]
    PROVE  Kept
<1> USE BootAssumption, NodesAssumption
<1>0. successor'[Boot] = v /\ \A y \in Nodes \ {Boot} : successor'[y] = successor[y]
  BY DEF LookupTypeOK
<1>1. ASSUME NEW S \in SUBSET Nodes, RingOf(S), NoOther(S) PROVE Core'
  <2>1. S = {Boot}
    BY <1>1 DEF RingOf
  <2> DEFINE S1 == {Boot, v}
  <2>2. Steps(S1, S1)'
    <3>1. /\ \A z \in S1 : is_between(z, Boot, v) => z = v
          /\ \A z \in S1 : is_between(z, v, Boot) => z = Boot
      BY BetweenEnds
    <3> QED BY <1>0, <3>1 DEF Steps
  <2>3. RingOf(S1)'
    BY <1>0, <2>2 DEF RingOf, UpStaysUp
  <2>4. NoOther(S1)'
    <3> SUFFICES ASSUME NEW T \in SUBSET (Nodes \ S1),
                        \A y \in T : successor'[y] # y /\ successor'[y] \in T
                 PROVE  T = {}
      BY DEF NoOther
    <3> QED BY <1>0, <1>1, <2>1 DEF NoOther
  <2>5. S1 \in SUBSET Nodes
    OBVIOUS
  <2> HIDE DEF S1
  <2> QED BY <2>3, <2>4, <2>5 DEF Core
<1>2. \A y \in Nodes : Placed(y) => Placed(y)'
  BY <1>0 DEF Placed
<1>3. \A x, m \in Nodes : Linked(x, m) => Linked(x, m)'
  BY LoneKeepsWays
<1> QED BY <1>1, <1>2, <1>3 DEF Kept, Core

\* stabilize adopts a node that has a way to the old successor: every way and
\* the ring itself get longer, and nobody is cut off.
LEMMA AdoptKept ==
    ASSUME UpStaysUp, LookupTypeOK, NEW q \in Nodes, NEW v \in Nodes, NEW s \in Nodes,
           s = successor[q], status[q] = "up",
           is_between(v, q, s), v # s, Linked(v, s),
           successor' = [successor EXCEPT ![q] = v]
    PROVE  Kept
<1> USE NodesAssumption, BootAssumption
<1>0. successor'[q] = v /\ \A y \in Nodes \ {q} : successor'[y] = successor[y]
  BY DEF LookupTypeOK
<1>1. PICK P \in SUBSET Nodes : Chain(P, v, s)
  BY DEF Linked
<1>2. v # q /\ s # q
  BY BetweenEnds DEF is_between
<1>3. v \in P /\ s \in P
  BY <1>1 DEF Chain
<1>4. ASSUME NEW x \in Nodes, NEW m \in Nodes, NEW R \in SUBSET Nodes, Chain(R, x, m)
      PROVE  Linked(x, m)'
  <2>1. CASE q \notin R \ {m}
    <3>1. \A y \in R \ {m} : successor'[y] = successor[y]
      BY <1>0, <2>1
    <3>2. Chain(R, x, m)'
      BY <1>4, <3>1 DEF Chain, Steps, UpStaysUp
    <3> QED BY <3>2 DEF Linked
  <2>2. CASE q \in R \ {m}
    <3> DEFINE A == R \cup P
               D == (R \ {m}) \cup (P \ {s})
    <3>1. Steps(R \ {m}, R) /\ R \ {m} \in SUBSET R
      BY <1>4 DEF Chain
    <3>2. Steps(D, A)' /\ q \notin P
      BY <1>1, <2>2, <3>1, Splice
    <3>3. s \in R /\ (q = x \/ is_between(q, x, m)) /\ is_between(s, q, m)
      BY <1>4, <2>2 DEF Chain, Steps
    <3>4. \A y \in P : is_between(y, q, s)
      BY <1>1, BetweenMiddle DEF Chain
    <3>5. A \ {m} = D
      <4>1. m \in P => m = s
        BY <1>4, <2>2, <3>1, <3>4 DEF Chain, Steps
      <4>2. m \in R
        BY <1>4 DEF Chain
      <4> QED BY <3>3, <4>1, <4>2
    <3>6. ASSUME NEW y \in A PROVE status'[y] = "up" /\ (y = x \/ is_between(y, x, m))
      <4>1. status[y] = "up"
        BY <1>1, <1>4 DEF Chain
      <4>2. CASE y \in R
        BY <1>4, <4>1, <4>2 DEF Chain, UpStaysUp
      <4>3. CASE y \in P
        <5>1. is_between(y, q, m)
          BY <3>3, <3>4, <4>3, BetweenShrinks
        <5>2. y = x \/ is_between(y, x, m)
          BY <3>3, <5>1, BetweenTrans
        <5> QED BY <4>1, <5>2 DEF UpStaysUp
      <4> QED BY <4>2, <4>3
    <3>7. ASSUME NEW y \in A \ {m} PROVE is_between(successor'[y], y, m)
      <4>1. CASE y = q
        BY <1>0, <3>3, <4>1, BetweenShrinks
      <4>2. CASE y # q /\ y \in R
        BY <1>0, <1>4, <3>7, <4>2 DEF Chain
      <4>3. CASE y # q /\ y \in P \ {s}
        <5>1. is_between(successor[y], y, s) /\ is_between(y, q, s)
              /\ successor[y] \in Nodes
          BY <1>1, <3>4, <4>3 DEF Chain, LookupTypeOK
        <5>2. is_between(successor[y], y, m)
          BY <3>3, <4>3, <5>1, BetweenFurther
        <5> QED BY <1>0, <4>3, <5>2
      <4> QED BY <3>3, <4>1, <4>2, <4>3
    <3>8. x \in A /\ m \in A /\ A \in SUBSET Nodes
      BY <1>4 DEF Chain
    <3>9. Chain(A, x, m)'
      <4> HIDE DEF A, D
      <4> QED BY <3>2, <3>5, <3>6, <3>7, <3>8 DEF Chain
    <3> HIDE DEF A
    <3> QED BY <3>8, <3>9 DEF Linked
  <2> QED BY <2>1, <2>2
<1>5. ASSUME NEW S \in SUBSET Nodes, RingOf(S), NoOther(S), q \notin S
      PROVE  RingOf(S)' /\ NoOther(S)'
  <2>1. RingOf(S)'
    BY <1>0, <1>5 DEF RingOf, Steps, UpStaysUp
  <2>2. ASSUME NEW T \in SUBSET (Nodes \ S),
               \A y \in T : successor'[y] # y /\ successor'[y] \in T
        PROVE  T = {}
    <3>1. q \in T => s \in T
      <4> SUFFICES ASSUME q \in T PROVE s \in T
        OBVIOUS
      <4>1. v \in T
        BY <1>0, <2>2
      <4>2. q \notin P
        <5>1. \A y \in P : is_between(y, q, s)
          BY <1>1, BetweenMiddle DEF Chain
        <5> QED BY <5>1, BetweenEnds
      <4>3. \A y \in T \cap (P \ {s}) : successor[y] \in T
        BY <1>0, <2>2, <4>2
      <4> QED BY <1>1, <4>1, <4>3, ChainEnd
    <3>2. \A y \in T : successor[y] # y /\ successor[y] \in T
      BY <1>0, <1>2, <2>2, <3>1
    <3> QED BY <1>5, <3>2 DEF NoOther
  <2> QED BY <2>1, <2>2 DEF NoOther
<1>6. ASSUME NEW S \in SUBSET Nodes, RingOf(S), NoOther(S), q \in S
      PROVE  RingOf(S \cup P)' /\ NoOther(S \cup P)'
  <2>1. Steps(S \cup (P \ {s}), S \cup P)' /\ s \in S
    <3>1. S \in SUBSET S /\ Steps(S, S)
      BY <1>6 DEF RingOf
    <3>2. s \in S
      BY <1>6, <3>1 DEF Steps
    <3> QED BY <1>1, <1>6, <3>1, <3>2, Splice
  <2>2. S \cup (P \ {s}) = S \cup P
    BY <2>1
  <2>3. S # {Boot}
    BY <1>2, <1>6, <2>1
  <2>4. ASSUME NEW y \in S \cup P PROVE successor'[y] # y /\ status'[y] = "up"
    <3>1. status[y] = "up"
      BY <1>1, <1>6, <2>3 DEF RingOf, Chain
    <3>2. successor[y] # y
      <4>1. CASE y \in S
        BY <1>6, <2>3, <4>1 DEF RingOf
      <4>2. CASE y \in P \ {s}
        BY <1>1, <4>2, BetweenEnds DEF Chain
      <4> QED BY <2>1, <4>1, <4>2
    <3> QED BY <1>0, <1>2, <3>1, <3>2 DEF UpStaysUp
  <2>5. RingOf(S \cup P)'
    BY <1>6, <2>1, <2>2, <2>4 DEF RingOf
  <2>6. ASSUME NEW T \in SUBSET (Nodes \ (S \cup P)),
               \A y \in T : successor'[y] # y /\ successor'[y] \in T
        PROVE  T = {}
    <3>1. \A y \in T : successor[y] # y /\ successor[y] \in T
      BY <1>0, <1>6, <2>6
    <3>2. T \in SUBSET (Nodes \ S)
      OBVIOUS
    <3> QED BY <1>6, <3>1, <3>2 DEF NoOther
  <2> QED BY <2>5, <2>6 DEF NoOther
<1>7. Core => Core'
  <2> SUFFICES ASSUME NEW S \in SUBSET Nodes, RingOf(S), NoOther(S) PROVE Core'
    BY DEF Core
  <2>1. S \cup P \in SUBSET Nodes
    OBVIOUS
  <2> QED BY <1>5, <1>6, <2>1 DEF Core
<1>8. \A y \in Nodes : Placed(y) => Placed(y)'
  BY <1>0, <1>2 DEF Placed
<1> QED BY <1>4, <1>7, <1>8 DEF Kept, Linked

\* A node that a step leaves alone still knows only placed nodes.
LEMMA SamePlaced ==
    ASSUME NEW q \in Nodes, TypeOK, KnownIsPlaced(q), Same(q), Kept
    PROVE  KnownIsPlaced(q)'
<1>1. successor[q] \in Nodes /\ \A i \in 0 .. M - 1 : finger_table[q][i] \in Nodes
  <2>1. successor[q] \in Nodes /\ finger_table[q] \in [0 .. M - 1 -> Nodes]
    BY DEF TypeOK, LookupTypeOK
  <2> QED BY <2>1
<1>2. lk[q].np \in Nodes /\ (pc[q] = "done" => resp[q] \in Nodes)
  <2>1. lk[q] \in Lookups /\ (pc[q] = "done" => resp[q] \in Nodes)
    BY DEF TypeOK, LookupTypeOK
  <2> QED BY <2>1 DEF Lookups
<1>3. \A y \in Nodes : Placed(y) => Placed(y)'
  BY DEF Kept
<1> QED BY <1>1, <1>2, <1>3 DEF KnownIsPlaced, Same

LEMMA FingersPlaced ==
    ASSUME NEW n \in Nodes, TypeOK, KnownIsPlaced(n), Kept,
           finger_table'[n] = finger_table[n]
    PROVE  (\A i \in 0 .. M - 1 : finger_table[n][i] = n \/ Placed(finger_table[n][i]))'
<1> SUFFICES ASSUME NEW i \in 0 .. M - 1
             PROVE  (finger_table[n][i] = n \/ Placed(finger_table[n][i]))'
  OBVIOUS
<1>1. PICK v \in Nodes : v = finger_table[n][i]
  <2>1. finger_table[n] \in [0 .. M - 1 -> Nodes]
    BY DEF TypeOK, LookupTypeOK
  <2> QED BY <2>1
<1>2. v = n \/ Placed(v)'
  BY <1>1 DEF KnownIsPlaced, Kept
<1> QED BY <1>1, <1>2

\* What the pointers alone say about the new state, for any step.
LEMMA WaysKept ==
    ASSUME TypeOK, TypeOK', RingInv, Kept,
           \A m \in Nodes : \/ predecessor'[m] \in {predecessor[m], None}
                            \/ \E x \in Nodes : predecessor'[m] = x /\ Linked(x, m)',
           \A n \in Nodes : (pc'[n] = "adopt" /\ resp'[n] # None) =>
               \/ pc[n] = "adopt" /\ resp'[n] = resp[n] /\ peer'[n] = peer[n]
               \/ \E m \in Nodes : peer'[n] = m /\ resp'[n] = predecessor[m],
           status'[Boot] # "joining", \A n \in Nodes : KnownIsPlaced(n)'
    PROVE  RingInv'
<1>1. ASSUME NEW m \in Nodes, predecessor'[m] # None
      PROVE  \E x \in Nodes : predecessor'[m] = x /\ Linked(x, m)'
  <2>1. CASE predecessor'[m] = predecessor[m]
    <3>1. PICK x \in Nodes : x = predecessor[m]
      BY <1>1, <2>1 DEF TypeOK
    <3>2. Linked(x, m)
      BY <1>1, <2>1, <3>1 DEF RingInv
    <3> QED BY <2>1, <3>1, <3>2 DEF Kept
  <2> QED BY <1>1, <2>1
<1>2. ASSUME NEW n \in Nodes, pc'[n] = "adopt", resp'[n] # None
      PROVE  \E x, m \in Nodes : resp'[n] = x /\ peer'[n] = m /\ Linked(x, m)'
  <2>1. CASE pc[n] = "adopt" /\ resp'[n] = resp[n] /\ peer'[n] = peer[n]
    <3>1. PICK x \in Nodes, m \in Nodes : resp[n] = x /\ peer[n] = m
      BY <1>2, <2>1 DEF TypeOK, LookupTypeOK
    <3>2. Linked(x, m)
      BY <1>2, <2>1, <3>1 DEF RingInv
    <3> QED BY <2>1, <3>1, <3>2 DEF Kept
  <2>2. ASSUME NEW m \in Nodes, peer'[n] = m, resp'[n] = predecessor[m]
        PROVE  \E x \in Nodes : resp'[n] = x /\ peer'[n] = m /\ Linked(x, m)'
    <3>1. PICK x \in Nodes : x = predecessor[m]
      BY <1>2, <2>2 DEF TypeOK
    <3>2. Linked(x, m)
      BY <1>2, <2>2, <3>1 DEF RingInv
    <3> QED BY <2>2, <3>1, <3>2 DEF Kept
  <2> QED BY <1>2, <2>1, <2>2
<1>3. Core'
  BY DEF RingInv, Kept
<1>4. \A m \in Nodes : (predecessor[m] # None => Linked(predecessor[m], m))'
  <2>1. ASSUME NEW m \in Nodes, predecessor'[m] # None PROVE Linked(predecessor[m], m)'
    BY <1>1, <2>1
  <2> QED BY <2>1
<1>5. \A n \in Nodes : ((pc[n] = "adopt" /\ resp[n] # None) => Linked(resp[n], peer[n]))'
  <2>1. ASSUME NEW n \in Nodes, pc'[n] = "adopt", resp'[n] # None
        PROVE  Linked(resp[n], peer[n])'
    BY <1>2, <2>1
  <2> QED BY <2>1
<1> QED BY <1>3, <1>4, <1>5 DEF RingInv

LEMMA RingInit == Init => RingInv
<1> SUFFICES ASSUME Init PROVE RingInv
  OBVIOUS
<1> USE BootAssumption, NodesAssumption
<1>1. status[Boot] # "joining"
  BY DEF Init
<1>2. \A n \in Nodes : KnownIsPlaced(n)
  BY DEF Init, KnownIsPlaced, LookupPcs
<1>3. \A n \in Nodes : predecessor[n] = None /\ pc[n] # "adopt"
  BY DEF Init
<1>4. RingOf({Boot})
  BY DEF Init, RingOf, Steps
<1>5. NoOther({Boot})
  BY DEF Init, NoOther
<1>6. Core
  BY <1>4, <1>5 DEF Core
<1> QED BY <1>1, <1>2, <1>3, <1>6 DEF RingInv

\* Steps that move no pointer but a predecessor to None, and end no lookup.
Quiet(n) ==
    /\ UNCHANGED <<successor, finger_table>>
    /\ \A m \in Nodes : predecessor'[m] \in {predecessor[m], None}
    /\ pc'[n] \notin LookupPcs \cup {"done", "adopt"}
    /\ \A q \in Nodes \ {n} : /\ pc'[q] = pc[q] /\ lk'[q] = lk[q] /\ resp'[q] = resp[q]
                              /\ peer'[q] = peer[q]
    /\ status'[Boot] # "joining"
    /\ UpStaysUp

LEMMA QuietKeepsRing ==
    ASSUME NEW n \in Nodes, TypeOK, TypeOK', RingInv, Quiet(n)
    PROVE  RingInv'
<1>1. Kept
  BY QuietKept DEF Quiet, TypeOK
<1>2. ASSUME NEW q \in Nodes PROVE KnownIsPlaced(q)'
  BY <1>2 DEF RingInv, Quiet, KnownIsPlaced, Placed
<1> QED BY <1>1, <1>2, WaysKept DEF Quiet

\* A step that starts or goes on with a lookup at n, and leads to placed nodes.
LEMMA LookupKeepsRing ==
    ASSUME NEW n \in Nodes, TypeOK, TypeOK', RingInv, UpStaysUp,
           UNCHANGED <<successor, predecessor, finger_table, peer>>,
           status'[Boot] # "joining", pc'[n] # "adopt",
           pc'[n] \in LookupPcs => lk'[n].np = n \/ Placed(lk'[n].np),
           pc'[n] = "done" => resp'[n] = n \/ Placed(resp'[n]),
           \A q \in Nodes \ {n} : pc'[q] = pc[q] /\ lk'[q] = lk[q] /\ resp'[q] = resp[q]
    PROVE  RingInv'
<1>1. Kept
  BY QuietKept DEF TypeOK
<1>2. ASSUME NEW q \in Nodes PROVE KnownIsPlaced(q)'
  BY <1>2 DEF RingInv, KnownIsPlaced, Placed
<1> QED BY <1>1, <1>2, WaysKept

LEMMA RingNext ==
    ASSUME MaxCrashes = 0, MaxDrops = 0, TypeOK, TypeOK', JoinInv, JoinInv',
           PredBehindSucc, RingInv, [Next]_vars
    PROVE  RingInv'
<1> USE DEF ringPointers, ringVars
<1> USE BootAssumption, NodesAssumption, NoneAssumption
<1>a. \A q \in Nodes : NodeInv(q) /\ KnownIsPlaced(q)
  BY DEF JoinInv, NodeInv, RingInv
<1>b. late = {} /\ drops = 0 /\ crashes = 0 /\ status[Boot] # "joining"
  BY DEF JoinInv, TypeOK, LookupTypeOK, RingInv
<1>1. ASSUME NEW n \in Nodes, StartNewNetwork(n) PROVE RingInv'
  <2>1. successor[n] = n
    BY <1>1, <1>a DEF StartNewNetwork, NodeInv, TaskFollowsStatus
  <2>2. UNCHANGED successor
    BY <1>1, <2>1 DEF StartNewNetwork, TypeOK, LookupTypeOK
  <2>3. Quiet(n)
    BY <1>1, <1>b, <2>2 DEF StartNewNetwork, GoUp, Quiet, UpStaysUp, LookupPcs,
                            TypeOK, LookupTypeOK
  <2> QED BY <2>3, QuietKeepsRing
<1>2. ASSUME NEW n \in Nodes, JoinCall(n) PROVE RingInv'
  <2>1. CASE GoUp(n)
    <3>1. Quiet(n)
      BY <1>2, <1>b, <2>1 DEF JoinCall, GoUp, Quiet, UpStaysUp, LookupPcs,
                              TypeOK, LookupTypeOK
    <3> QED BY <3>1, QuietKeepsRing
  <2>2. CASE /\ status' = [status EXCEPT ![n] = "joining"]
             /\ BeginLookup(n, Boot, n, 0)
    <3>1. lk'[n].np = Boot /\ pc'[n] \in {"find", "final"}
      BY <2>2 DEF BeginLookup, LoopPc, TypeOK, LookupTypeOK
    <3>2. UpStaysUp /\ status'[Boot] # "joining"
      BY <1>2, <1>b, <2>2 DEF JoinCall, UpStaysUp, TypeOK, LookupTypeOK
    <3>3. \A q \in Nodes \ {n} : pc'[q] = pc[q] /\ lk'[q] = lk[q] /\ resp'[q] = resp[q]
      BY <2>2 DEF BeginLookup, TypeOK, LookupTypeOK
    <3>4. UNCHANGED <<successor, predecessor, finger_table, peer>>
      BY <1>2 DEF JoinCall
    <3> QED BY <3>1, <3>2, <3>3, <3>4, LookupKeepsRing DEF Placed
  <2> QED BY <1>2, <2>1, <2>2 DEF JoinCall
<1>3. ASSUME NEW n \in Nodes, JoinDone(n) PROVE RingInv'
  <2>1. resp[n] \in Nodes /\ status[resp[n]] = "up" /\ resp[n] # n /\ status[n] = "joining"
    BY <1>3, <1>a DEF JoinDone, TypeOK, LookupTypeOK, NodeInv, KnownIsUp
  <2>2. UpStaysUp /\ \A q \in Nodes \ {n} : Same(q)
    BY <1>3, <2>1 DEF JoinDone, UpStaysUp, Same, TypeOK, LookupTypeOK
  <2>3. /\ successor' = [successor EXCEPT ![n] = resp[n]] /\ pc'[n] = "transfer"
        /\ UNCHANGED <<finger_table, predecessor, peer, status>>
    BY <1>3, <2>1 DEF JoinDone, TypeOK, LookupTypeOK
  <2>4. successor[n] = n /\ n # Boot /\ Placed(resp[n])
    BY <1>3, <1>a, <1>b, <2>1 DEF JoinDone, NodeInv, TaskFollowsStatus, KnownIsPlaced
  <2>5. \A y \in Nodes \ {n} : successor[y] # n
    BY <1>a, <2>1 DEF NodeInv, KnownIsUp
  <2>6. Kept
    <3>1. status[n] # "up" /\ resp[n] \in Nodes \ {n} /\ n \in Nodes \ {Boot}
      BY <2>1, <2>4
    <3> QED BY <2>2, <2>3, <2>4, <2>5, <3>1, JoinKept DEF TypeOK
  <2>7. KnownIsPlaced(n)'
    <3>1. PICK v \in Nodes : v = resp[n]
      BY <2>1
    <3>2. successor'[n] = v /\ Placed(v)'
      BY <2>3, <2>4, <2>6, <3>1 DEF Kept, TypeOK, LookupTypeOK
    <3>3. (\A i \in 0 .. M - 1 : finger_table[n][i] = n \/ Placed(finger_table[n][i]))'
      BY <1>a, <2>3, <2>6, FingersPlaced
    <3> QED BY <2>3, <3>2, <3>3 DEF KnownIsPlaced, LookupPcs
  <2>8. \A q \in Nodes : KnownIsPlaced(q)'
    BY <1>a, <2>2, <2>6, <2>7, SamePlaced
  <2> QED BY <1>b, <2>2, <2>3, <2>6, <2>8, WaysKept DEF Same
<1>4. ASSUME NEW n \in Nodes, JoinTransferred(n) PROVE RingInv'
  <2>1. Quiet(n)
    BY <1>4, <1>b DEF JoinTransferred, GoUp, Quiet, UpStaysUp, LookupPcs,
                      TypeOK, LookupTypeOK
  <2> QED BY <2>1, QuietKeepsRing
<1>5. ASSUME NEW n \in Nodes, JoinFail(n) \/ Failover(n) \/ Crash(n)
                              \/ NotifyAttemptTimesOut(n) PROVE RingInv'
  BY <1>5, <1>a, <1>b DEF JoinFail, Failover, Crash, NotifyAttemptTimesOut, NodeInv,
                          TaskFollowsStatus
<1>6. ASSUME NEW n \in Nodes, StabilizeStart(n) PROVE RingInv'
  <2>1. Quiet(n)
    BY <1>6, <1>b DEF StabilizeStart, Goto, Quiet, UpStaysUp, LookupPcs,
                      TypeOK, LookupTypeOK
  <2> QED BY <2>1, QuietKeepsRing
<1>7. ASSUME NEW n \in Nodes, ClearPredecessor(n) PROVE RingInv'
  <2>1. Quiet(n)
    BY <1>7, <1>b DEF ClearPredecessor, LeaveStabilize, Goto, Quiet, UpStaysUp, LookupPcs,
                      TypeOK, LookupTypeOK
  <2> QED BY <2>1, QuietKeepsRing
<1>8. ASSUME NEW n \in Nodes, CheckPredecessor(n) PROVE RingInv'
  <2>1. pc'[n] \in {"idle", "ping_pred"} /\ \A q \in Nodes \ {n} : pc'[q] = pc[q]
    BY <1>8 DEF CheckPredecessor, Goto, TypeOK
  <2>2. \A q \in Nodes \ {n} : peer'[q] = peer[q]
    BY <1>8 DEF CheckPredecessor, TypeOK
  <2>3. Quiet(n)
    BY <1>8, <1>b, <2>1, <2>2 DEF CheckPredecessor, Quiet, UpStaysUp, LookupPcs
  <2> QED BY <2>3, QuietKeepsRing
<1>9. ASSUME NEW n \in Nodes, PingPredecessor(n) PROVE RingInv'
  <2>1. \A m \in Nodes : predecessor'[m] \in {predecessor[m], None}
    BY <1>9 DEF PingPredecessor, TypeOK
  <2>2. Quiet(n)
    BY <1>9, <1>b, <2>1 DEF PingPredecessor, Goto, Quiet, UpStaysUp, LookupPcs,
                            TypeOK, LookupTypeOK
  <2> QED BY <2>2, QuietKeepsRing
<1>10. ASSUME NEW n \in Nodes, ExtendList(n) PROVE RingInv'
  <2>1. \/ UNCHANGED <<pc, peer, resp>> \/ LeaveStabilize(n)
    BY <1>10 DEF ExtendList, WriteList
  <2>2. /\ pc'[n] \in {"ulist", "fix"}
        /\ \A q \in Nodes \ {n} : pc'[q] = pc[q] /\ peer'[q] = peer[q] /\ resp'[q] = resp[q]
    <3>1. CASE UNCHANGED <<pc, peer, resp>>
      BY <1>10, <3>1 DEF ExtendList
    <3>2. CASE LeaveStabilize(n)
      BY <3>2 DEF LeaveStabilize, Goto, TypeOK, LookupTypeOK
    <3> QED BY <2>1, <3>1, <3>2
  <2>3. UNCHANGED <<status, successor, predecessor, finger_table, lk>>
    BY <1>10 DEF ExtendList
  <2>4. Quiet(n)
    BY <1>b, <2>2, <2>3 DEF Quiet, UpStaysUp, LookupPcs
  <2> QED BY <2>4, QuietKeepsRing
<1>11. ASSUME NEW n \in Nodes, AskPredecessor(n) PROVE RingInv'
  <2>1. PICK t \in Nodes : t = peer[n] /\ status[t] = "up"
    BY <1>11, <1>a DEF AskPredecessor, NodeInv, SuccessorHeld, KnownIsUp, TypeOK
  <2>2. /\ resp' = [resp EXCEPT ![n] = predecessor[t]]
        /\ Goto(n, "adopt") /\ UNCHANGED peer
    BY <1>11, <1>b, <2>1, NoDrops DEF AskPredecessor, TypeOK, LookupTypeOK
  <2>3. UNCHANGED <<status, successor, predecessor, finger_table, lk>>
    BY <1>11 DEF AskPredecessor
  <2>4. UpStaysUp /\ \A q \in Nodes \ {n} : Same(q)
    BY <2>2, <2>3 DEF Goto, UpStaysUp, Same, TypeOK, LookupTypeOK
  <2>5. pc'[n] = "adopt" /\ peer'[n] = t /\ resp'[n] = predecessor[t]
    BY <2>1, <2>2 DEF Goto, TypeOK, LookupTypeOK
  <2>6. Kept
    BY <2>3, <2>4, QuietKept DEF TypeOK
  <2>7. KnownIsPlaced(n)'
    BY <1>a, <2>3, <2>5 DEF KnownIsPlaced, Placed, LookupPcs
  <2>8. \A q \in Nodes : KnownIsPlaced(q)'
    BY <1>a, <2>4, <2>6, <2>7, SamePlaced
  <2> QED BY <1>b, <2>3, <2>4, <2>5, <2>6, <2>8, WaysKept DEF Same
<1>12. ASSUME NEW n \in Nodes, AdoptCloser(n) PROVE RingInv'
  <2>1. status[n] = "up"
    <3>1. status[n] \in {"down", "joining", "up"} /\ TaskFollowsStatus(n) /\ pc[n] = "adopt"
      BY <1>12, <1>a DEF AdoptCloser, NodeInv, TypeOK, LookupTypeOK
    <3> QED BY <3>1 DEF TaskFollowsStatus, LookupPcs
  <2>2. PICK s \in Nodes : s = successor[n] /\ s = peer[n] /\ s # n /\ Placed(s)
    BY <1>12, <1>a DEF AdoptCloser, NodeInv, SuccessorHeld, KnownIsPlaced, TypeOK
  <2>3. UpStaysUp /\ \A q \in Nodes \ {n} : Same(q)
    BY <1>12 DEF AdoptCloser, Goto, UpStaysUp, Same, TypeOK, LookupTypeOK
  <2>4. /\ UNCHANGED <<status, predecessor, finger_table>>
        /\ pc'[n] = "notify"
    BY <1>12 DEF AdoptCloser, Goto, TypeOK
  <2>5. \/ UNCHANGED successor
        \/ \E v \in Nodes : /\ v = resp[n] /\ is_between(v, n, s)
                            /\ successor' = [successor EXCEPT ![n] = v]
    <3>1. resp[n] \in Nodes \cup {None} /\ successor \in [Nodes -> Nodes]
      BY DEF TypeOK, LookupTypeOK
    <3>2. CASE resp[n] # None /\ is_between(resp[n], n, peer[n])
      BY <1>12, <2>2, <3>1, <3>2 DEF AdoptCloser
    <3>3. CASE ~(resp[n] # None /\ is_between(resp[n], n, peer[n]))
      BY <1>12, <3>1, <3>3 DEF AdoptCloser
    <3> QED BY <3>2, <3>3
  <2>6. ASSUME NEW v \in Nodes, v = resp[n], is_between(v, n, s),
               successor' = [successor EXCEPT ![n] = v]
        PROVE  Kept /\ successor'[n] = v /\ Placed(v)
    <3>1. Linked(v, s)
      BY <1>12, <2>2, <2>6 DEF AdoptCloser, RingInv
    <3>2. CASE v = s
      <4>1. UNCHANGED successor /\ successor'[n] = v
        <5>1. successor \in [Nodes -> Nodes]
          BY DEF TypeOK, LookupTypeOK
        <5> QED BY <2>2, <2>6, <3>2, <5>1
      <4> QED BY <2>2, <2>3, <3>2, <4>1, QuietKept DEF TypeOK
    <3>3. CASE v # s
      <4>1. Kept
        BY <2>1, <2>2, <2>3, <2>6, <3>1, <3>3, AdoptKept DEF TypeOK
      <4>2. PICK P \in SUBSET Nodes : Chain(P, v, s)
        BY <3>1 DEF Linked
      <4>3. is_between(successor[v], v, s)
        BY <3>3, <4>2 DEF Chain
      <4>4. successor[v] # v
        BY <4>3, BetweenEnds
      <4> QED BY <2>6, <4>1, <4>4 DEF Placed, TypeOK, LookupTypeOK
    <3> QED BY <3>2, <3>3
  <2>7. Kept /\ \E v \in Nodes : successor'[n] = v /\ Placed(v)
    <3>1. CASE UNCHANGED successor
      BY <2>2, <2>3, <3>1, QuietKept DEF TypeOK
    <3> QED BY <2>5, <2>6, <3>1
  <2>8. KnownIsPlaced(n)'
    <3>1. PICK v \in Nodes : successor'[n] = v /\ Placed(v)
      BY <2>7
    <3>2. Placed(v)'
      BY <2>7, <3>1 DEF Kept
    <3>3. (\A i \in 0 .. M - 1 : finger_table[n][i] = n \/ Placed(finger_table[n][i]))'
      BY <1>a, <2>4, <2>7, FingersPlaced
    <3> QED BY <2>4, <3>1, <3>2, <3>3 DEF KnownIsPlaced, LookupPcs
  <2>9. \A q \in Nodes : KnownIsPlaced(q)'
    BY <1>a, <2>3, <2>7, <2>8, SamePlaced
  <2> QED BY <1>b, <2>3, <2>4, <2>7, <2>9, WaysKept DEF Same
<1>13. ASSUME NEW n \in Nodes, NotifySuccessor(n) PROVE RingInv'
  <2>1. status[n] = "up"
    BY <1>13, <1>a DEF NotifySuccessor, NodeInv, TaskFollowsStatus, LookupPcs,
                       TypeOK, LookupTypeOK
  <2>2. PICK t \in Nodes : /\ t = successor[n] /\ peer[n] = t
                           /\ t # n /\ status[t] = "up" /\ Placed(t)
    BY <1>13, <1>a DEF NotifySuccessor, NodeInv, SuccessorHeld, KnownIsUp, KnownIsPlaced,
                       TypeOK, LookupTypeOK
  <2>3. HandleNotify(t, n)
    BY <1>13, <1>b, <2>2, NoDrops DEF NotifySuccessor, TypeOK, LookupTypeOK
  <2>4. /\ UNCHANGED <<status, finger_table, lk, resp>>
        /\ pc' = [pc EXCEPT ![n] = "ulist"] /\ peer' = [peer EXCEPT ![n] = n]
    BY <1>13 DEF NotifySuccessor, BeginListUpdate, Goto
  <2>5. UpStaysUp
    BY <2>4 DEF UpStaysUp
  <2>6. /\ \A q \in Nodes \ {t} : predecessor'[q] = predecessor[q]
        /\ predecessor'[t] \in {predecessor[t], n}
        /\ \/ UNCHANGED successor
           \/ successor[t] = t /\ successor' = [successor EXCEPT ![t] = n]
    <3>1. successor \in [Nodes -> Nodes] /\ predecessor \in [Nodes -> Nodes \cup {None}]
      BY DEF TypeOK, LookupTypeOK
    <3>2. \/ UNCHANGED <<predecessor, successor>>
          \/ /\ predecessor' = [predecessor EXCEPT ![t] = n]
             /\ successor' = [successor EXCEPT ![t] = IF successor[t] = t THEN n ELSE successor[t]]
      BY <2>3 DEF HandleNotify
    <3>3. CASE successor[t] = t
      BY <3>1, <3>2, <3>3
    <3>4. CASE successor[t] # t
      BY <3>1, <3>2, <3>4
    <3> QED BY <3>3, <3>4
  <2>7. Kept
    <3>1. CASE UNCHANGED successor
      BY <2>5, <3>1, QuietKept DEF TypeOK
    <3>2. CASE successor[t] = t /\ successor' = [successor EXCEPT ![t] = n]
      <4>1. t = Boot /\ n \in Nodes \ {Boot}
        BY <2>2, <3>2 DEF Placed
      <4> QED BY <2>1, <2>2, <2>5, <3>2, <4>1, BootKept DEF TypeOK
    <3> QED BY <2>6, <3>1, <3>2
  <2>8. Linked(n, t)'
    <3> DEFINE P == {n, t}
    <3>1. successor'[n] = t
      BY <2>2, <2>6 DEF TypeOK, LookupTypeOK
    <3>2. is_between(t, n, t) /\ ~is_between(n, n, t)
      BY <2>2, BetweenEnds
    <3>3. Chain(P, n, t)'
      BY <2>1, <2>2, <2>4, <3>1, <3>2 DEF Chain, Steps
    <3>4. P \in SUBSET Nodes
      OBVIOUS
    <3> QED BY <3>3, <3>4 DEF Linked
  <2>9. ASSUME NEW q \in Nodes PROVE KnownIsPlaced(q)'
    <3>1. pc'[q] = pc[q] \/ pc'[q] = "ulist"
      BY <2>4 DEF TypeOK
    <3>2. \E v \in Nodes : successor'[q] = v /\ (v = q \/ Placed(v)')
      <4>1. CASE successor'[q] = successor[q]
        BY <1>a, <2>7, <4>1 DEF KnownIsPlaced, Kept, TypeOK, LookupTypeOK
      <4>2. CASE q = t /\ successor'[t] = n
        BY <2>2, <2>7, <4>2 DEF Placed, Kept
      <4> QED BY <2>6, <4>1, <4>2 DEF TypeOK, LookupTypeOK
    <3>3. (\A i \in 0 .. M - 1 : finger_table[q][i] = q \/ Placed(finger_table[q][i]))'
      BY <1>a, <2>4, <2>7, FingersPlaced
    <3>4. lk[q].np \in Nodes /\ (pc[q] = "done" => resp[q] \in Nodes)
      <4>1. lk[q] \in Lookups /\ (pc[q] = "done" => resp[q] \in Nodes)
        BY DEF TypeOK, LookupTypeOK
      <4> QED BY <4>1 DEF Lookups
    <3>5. \A y \in Nodes : Placed(y) => Placed(y)'
      BY <2>7 DEF Kept
    <3>6. KnownIsPlaced(q)
      BY <1>a
    <3> QED BY <2>4, <3>1, <3>2, <3>3, <3>4, <3>5, <3>6 DEF KnownIsPlaced, LookupPcs
  <2>10. \A q \in Nodes : pc'[q] = "adopt" =>
            pc[q] = "adopt" /\ resp'[q] = resp[q] /\ peer'[q] = peer[q]
    BY <2>4 DEF TypeOK
  <2>11. \A m \in Nodes : \/ predecessor'[m] \in {predecessor[m], None}
                          \/ \E x \in Nodes : predecessor'[m] = x /\ Linked(x, m)'
    BY <2>6, <2>8
  <2> QED BY <1>b, <2>4, <2>7, <2>9, <2>10, <2>11, WaysKept
<1>14. ASSUME NEW n \in Nodes, NEW t \in Nodes, LateNotify(n, t) PROVE RingInv'
  BY <1>14, <1>b DEF LateNotify
<1>15. ASSUME NEW n \in Nodes, NEW i \in FixIdx, FixFingers(n, i) PROVE RingInv'
  <2>1. lk'[n].np = n /\ pc'[n] \in {"find", "final"}
    BY <1>15 DEF FixFingers, BeginLookup, LoopPc, TypeOK, LookupTypeOK
  <2>2. UpStaysUp /\ status' = status /\ UNCHANGED <<successor, predecessor, finger_table, peer>>
    BY <1>15 DEF FixFingers, UpStaysUp
  <2>3. \A q \in Nodes \ {n} : pc'[q] = pc[q] /\ lk'[q] = lk[q] /\ resp'[q] = resp[q]
    BY <1>15 DEF FixFingers, BeginLookup, TypeOK, LookupTypeOK
  <2> QED BY <1>b, <2>1, <2>2, <2>3, LookupKeepsRing
<1>16. ASSUME NEW n \in Nodes, LookupStep(n), UNCHANGED ringVars PROVE RingInv'
  <2>1. PICK np \in Nodes : np = lk[n].np
    <3>1. lk[n] \in Lookups
      BY DEF TypeOK, LookupTypeOK
    <3> QED BY <3>1 DEF Lookups
  <2>2. /\ UNCHANGED <<status, successor, predecessor, finger_table, peer>>
        /\ pc[n] \in LookupPcs /\ pc[n] # "backup"
    BY <1>16, <1>a, StepPc DEF TypeOK, NodeInv, TaskFollowsStatus
  <2>3. status[np] = "up" /\ (np = n \/ Placed(np)) /\ KnownIsPlaced(np)
    BY <1>a, <2>1, <2>2 DEF NodeInv, KnownIsUp, KnownIsPlaced
  <2>4. ~CallErr(np)
    BY <1>b, <2>3, NoDrops DEF TypeOK, LookupTypeOK
  <2>5. \A q \in Nodes \ {n} : pc'[q] = pc[q] /\ lk'[q] = lk[q] /\ resp'[q] = resp[q]
    <3>1. CASE FindHop(n)
      <4>1. \E v : lk' = [lk EXCEPT ![n] = v]
        BY <3>1 DEF FindHop
      <4>2. \A q \in Nodes \ {n} : lk'[q] = lk[q]
        BY <4>1 DEF TypeOK, LookupTypeOK
      <4>3. \A q \in Nodes \ {n} : pc'[q] = pc[q]
        BY <3>1 DEF FindHop, TypeOK
      <4>4. resp' = resp
        BY <3>1 DEF FindHop
      <4> QED BY <4>2, <4>3, <4>4
    <3>2. CASE FindGetSuccessor(n)
      <4>1. lk' = [lk EXCEPT ![n].cs = successor[np]]
        BY <2>1, <2>4, <3>2 DEF FindGetSuccessor
      <4>2. \A q \in Nodes \ {n} : lk'[q] = lk[q]
        BY <4>1 DEF TypeOK, LookupTypeOK
      <4>3. \A q \in Nodes \ {n} : pc'[q] = pc[q]
        BY <3>2 DEF FindGetSuccessor, TypeOK
      <4>4. resp' = resp
        BY <3>2 DEF FindGetSuccessor
      <4> QED BY <4>2, <4>3, <4>4
    <3>3. CASE FindFinal(n)
      <4>1. lk' = lk /\ pc' = [pc EXCEPT ![n] = "done"]
            /\ resp' = [resp EXCEPT ![n] = successor[np]]
        BY <2>1, <2>4, <3>3 DEF FindFinal
      <4> QED BY <4>1 DEF TypeOK, LookupTypeOK
    <3> QED BY <1>16, <2>2, <3>1, <3>2, <3>3 DEF LookupStep, FindBackup
  <2>6. UpStaysUp /\ status'[Boot] # "joining"
    BY <1>b, <2>2 DEF UpStaysUp
  <2>7. CASE FindHop(n)
    <3>1. PICK next \in Nodes :
             /\ closest_preceding_node(np, lk[n].id, next)
             /\ lk' = [lk EXCEPT ![n] = Moved(n, next, lk[n].retry + 1)]
      BY <2>1, <2>4, <2>7 DEF FindHop
    <3>2. next = np \/ \E i \in 0 .. M - 1 : next = finger_table[np][i]
      BY <3>1 DEF closest_preceding_node
    <3>3. next = n \/ Placed(next)
      BY <2>3, <3>2 DEF KnownIsPlaced
    <3>4. lk'[n].np = next
      BY <3>1 DEF Moved, TypeOK, LookupTypeOK
    <3>5. pc'[n] \in {"final", "getsucc"}
      BY <2>7 DEF FindHop, TypeOK
    <3> QED BY <2>2, <2>5, <2>6, <3>3, <3>4, <3>5, LookupKeepsRing
  <2>8. CASE FindGetSuccessor(n)
    <3>1. lk' = [lk EXCEPT ![n].cs = successor[np]]
      BY <2>1, <2>4, <2>8 DEF FindGetSuccessor
    <3>2. lk'[n].np = np
      BY <2>1, <3>1 DEF TypeOK, LookupTypeOK, Lookups
    <3>3. pc'[n] \in {"final", "find"}
      BY <2>8 DEF FindGetSuccessor, LoopPc, TypeOK
    <3> QED BY <2>2, <2>3, <2>5, <2>6, <3>2, <3>3, LookupKeepsRing
  <2>9. CASE FindFinal(n)
    <3>1. pc'[n] = "done" /\ resp'[n] = successor[np]
      BY <2>1, <2>4, <2>9 DEF FindFinal, TypeOK, LookupTypeOK
    <3>2. successor[np] = n \/ Placed(successor[np])
      BY <2>3 DEF KnownIsPlaced
    <3> QED BY <2>2, <2>5, <2>6, <3>1, <3>2, LookupKeepsRing DEF LookupPcs
  <2> QED BY <1>16, <2>2, <2>7, <2>8, <2>9 DEF LookupStep, FindBackup
<1>17. ASSUME NEW n \in Nodes, FixFingersDone(n) PROVE RingInv'
  <2>1. /\ UNCHANGED <<status, successor, predecessor, peer>> /\ UpStaysUp
        /\ \A q \in Nodes \ {n} : Same(q)
    BY <1>17 DEF FixFingersDone, Goto, UpStaysUp, Same, TypeOK, LookupTypeOK
  <2>2. Kept
    BY <2>1, QuietKept DEF TypeOK
  <2>3. (resp[n] = n \/ Placed(resp[n])) /\ pc'[n] = "check"
    BY <1>17, <1>a DEF FixFingersDone, Goto, KnownIsPlaced, TypeOK
  <2>4. \A i \in 0 .. M - 1 : finger_table'[n][i] \in {finger_table[n][i], resp[n]}
    BY <1>17 DEF FixFingersDone, TypeOK, LookupTypeOK
  <2>5. KnownIsPlaced(n)'
    BY <1>a, <2>1, <2>3, <2>4 DEF KnownIsPlaced, Placed, LookupPcs
  <2>6. \A q \in Nodes : KnownIsPlaced(q)'
    BY <1>a, <2>1, <2>2, <2>5, SamePlaced
  <2> QED BY <1>b, <2>1, <2>2, <2>3, <2>6, WaysKept DEF Same
<1>18. CASE UNCHANGED vars
  <2>1. UNCHANGED <<status, successor, predecessor, finger_table, pc, lk, resp, peer>>
    BY <1>18 DEF vars, lookupVars
  <2>2. Kept
    BY <2>1, QuietKept DEF UpStaysUp, TypeOK
  <2>3. \A q \in Nodes : KnownIsPlaced(q)'
    BY <1>a, <2>1, <2>2, SamePlaced DEF Same
  <2> QED BY <1>b, <2>1, <2>2, <2>3, WaysKept
<1> QED
  BY <1>1, <1>2, <1>3, <1>4, <1>5, <1>6, <1>7, <1>8, <1>9, <1>10, <1>11,
     <1>12, <1>13, <1>14, <1>15, <1>16, <1>17, <1>18
  DEF Next, Task, Environment

LEMMA RingInvariant ==
    ASSUME MaxCrashes = 0, MaxDrops = 0
    PROVE  Spec => [](TypeOK /\ JoinInv /\ PredBehindSucc /\ RingInv)
<1>1. Init => TypeOK /\ JoinInv /\ PredBehindSucc /\ RingInv
  BY InitTyped, JoinInit, RingInit
<1>2. TypeOK /\ JoinInv /\ PredBehindSucc /\ RingInv /\ [Next]_vars
         => (TypeOK /\ JoinInv /\ PredBehindSucc /\ RingInv)'
  BY NextTyped, JoinNext, RingNext
<1> QED
  BY <1>1, <1>2, PTL DEF Spec

\* A ring has no proper part that the successor pointers do not leave.
LEMMA RingIsWhole ==
    ASSUME TypeOK, NEW S \in SUBSET Nodes, RingOf(S),
           NEW T \in SUBSET S, T # {}, \A y \in T : successor[y] \in T
    PROVE  T = S
<1> SUFFICES ASSUME NEW m \in S, m \notin T PROVE FALSE
  OBVIOUS
<1> USE NodesAssumption
<1>1. PICK y \in T : \A z \in T : Distance(y, m) <= Distance(z, m)
  BY NearestBefore
<1>2. successor[y] \in T /\ successor[y] # m /\ y # m
  BY <1>1
<1>3. S # {Boot}
  BY <1>1 DEF RingOf
<1>4. successor[y] # y /\ (is_between(m, y, successor[y]) => m = successor[y])
  BY <1>1, <1>3 DEF RingOf, Steps
<1>5. is_between(successor[y], y, m)
  BY <1>1, <1>2, <1>4, BetweenTotal
<1>6. Distance(successor[y], m) < Distance(y, m)
  BY <1>1, <1>2, <1>5, BetweenIsCloser
<1>7. Distance(successor[y], m) \in Nat /\ Distance(y, m) \in Nat
  BY <1>1, <1>2, DistanceNat
<1> QED BY <1>1, <1>2, <1>6, <1>7

\* The pointers of a ring reach all of it.
LEMMA RingOnto ==
    ASSUME TypeOK, NEW S \in SUBSET Nodes, RingOf(S)
    PROVE  {successor[n] : n \in S} = S
<1> DEFINE T == {successor[n] : n \in S}
<1>1. T \in SUBSET S /\ T # {}
  BY DEF RingOf, Steps
<1>2. \A y \in T : successor[y] \in T
  BY <1>1
<1> HIDE DEF T
<1>3. T = S
  BY <1>1, <1>2, RingIsWhole
<1> QED BY <1>3 DEF T

\* A map of a finite set onto itself takes no two elements to the same one.
LEMMA OntoIsOneToOne ==
    ASSUME TypeOK, NEW U \in SUBSET Nodes, {successor[n] : n \in U} = U,
           NEW p \in U, NEW q \in U, p # q
    PROVE  successor[p] # successor[q]
<1> SUFFICES ASSUME successor[p] = successor[q] PROVE FALSE
  OBVIOUS
<1> DEFINE f == [n \in U \ {p} |-> successor[n]]
<1>1. IsFiniteSet(U) /\ IsFiniteSet(U \ {p})
  <2>1. IsFiniteSet(Ids)
    BY FS_Interval, PowersOfTwo DEF Ids
  <2> QED BY <2>1, FS_Subset, NodesAssumption
<1>2. f \in [U \ {p} -> U]
  OBVIOUS
<1>3. \A y \in U : \E n \in U \ {p} : f[n] = y
  <2> TAKE y \in U
  <2>1. PICK n \in U : successor[n] = y
    OBVIOUS
  <2>2. CASE n = p
    BY <2>1, <2>2
  <2>3. CASE n # p
    BY <2>1, <2>3
  <2> QED BY <2>2, <2>3
<1>4. f \in Surjection(U \ {p}, U)
  <2> HIDE DEF f
  <2> QED BY <1>2, <1>3 DEF Surjection
<1>5. Cardinality(U) <= Cardinality(U \ {p})
  <2> HIDE DEF f
  <2> QED BY <1>1, <1>4, FS_Surjection
<1>6. Cardinality(U \ {p}) = Cardinality(U) - 1 /\ Cardinality(U) \in Nat
  BY <1>1, FS_RemoveElement, FS_CardinalityType
<1> QED BY <1>5, <1>6

\* As soon as somebody has joined, the ring consists of joined nodes.
LEMMA RingIsJoined ==
    ASSUME TypeOK, JoinInv, RingInv, Joined # {},
           NEW S \in SUBSET Nodes, RingOf(S), NoOther(S)
    PROVE  S \subseteq Joined
<1> USE BootAssumption
<1>1. CASE S # {Boot}
  BY <1>1 DEF RingOf, Joined, Live
<1>2. CASE S = {Boot} /\ status[Boot] = "up"
  BY <1>2 DEF Joined, Live
<1>3. CASE S = {Boot} /\ status[Boot] # "up"
  <2>1. Joined \in SUBSET (Nodes \ S)
    BY <1>3 DEF Joined, Live
  <2>2. ASSUME NEW y \in Joined
        PROVE  successor[y] # y /\ successor[y] \in Joined
    <3>1. y \in Nodes /\ y # Boot /\ successor[y] # y /\ successor[y] \in Nodes
      BY <1>3, <2>2 DEF Joined, Live, TypeOK, LookupTypeOK
    <3>2. status[successor[y]] = "up"
      BY <3>1 DEF JoinInv, KnownIsUp
    <3>3. Placed(successor[y])
      BY <3>1 DEF RingInv, KnownIsPlaced
    <3> QED BY <3>1, <3>2, <3>3 DEF Placed, Joined, Live
  <2> QED BY <2>1, <2>2 DEF NoOther
<1> QED BY <1>1, <1>2, <1>3

LEMMA RingInvOrdered ==
    ASSUME TypeOK, JoinInv, RingInv
    PROVE  OneOrderedRing
<1> SUFFICES ASSUME Joined # {}
             PROVE  \E S \in SUBSET Joined :
                       /\ Rings = {S}
                       /\ \A n, m \in S :
                             is_between(m, n, successor[n]) => m = successor[n]
  BY DEF OneOrderedRing
<1>1. PICK S \in SUBSET Nodes : RingOf(S) /\ NoOther(S)
  BY DEF RingInv, Core
<1>2. S \subseteq Joined /\ S # {} /\ {successor[n] : n \in S} = S
  BY <1>1, RingIsJoined, RingOnto DEF RingOf
<1>3. ASSUME NEW U \in Rings PROVE U = S
  <2>1. /\ U \in SUBSET Joined /\ U \in SUBSET Nodes /\ U # {}
        /\ {successor[n] : n \in U} = U
    BY <1>3 DEF Rings, Joined, Live
  <2>2. \A y \in U : successor[y] \in U
    BY <2>1
  <2>3. \A y \in U \ S : successor[y] # y
    BY <1>1, <2>1 DEF RingOf, Joined
  <2>4. U \cap S # {}
    <3> SUFFICES ASSUME U \cap S = {} PROVE FALSE
      OBVIOUS
    <3>1. U \in SUBSET (Nodes \ S) /\ U \ S = U
      BY <2>1
    <3> QED BY <1>1, <2>1, <2>2, <2>3, <3>1 DEF NoOther
  <2>5. \A y \in S : successor[y] \in S
    BY <1>1 DEF RingOf, Steps
  <2>6. U \cap S = S
    <3> DEFINE T == U \cap S
    <3>1. T \in SUBSET S /\ T # {} /\ \A y \in T : successor[y] \in T
      BY <2>2, <2>4, <2>5
    <3> HIDE DEF T
    <3>2. T = S
      BY <1>1, <3>1, RingIsWhole
    <3> QED BY <3>2 DEF T
  <2>7. ASSUME NEW y \in U \ S PROVE successor[y] \in U \ S
    <3> SUFFICES ASSUME successor[y] \in S PROVE FALSE
      BY <2>2
    <3>1. PICK p \in S : successor[p] = successor[y]
      BY <1>2
    <3>2. p \in U /\ p # y
      BY <2>6
    <3> QED BY <2>1, <3>1, <3>2, OntoIsOneToOne
  <2>8. U \ S = {}
    <3> DEFINE T == U \ S
    <3>1. T \in SUBSET (Nodes \ S) /\ \A y \in T : successor[y] # y /\ successor[y] \in T
      BY <2>1, <2>3, <2>7
    <3> HIDE DEF T
    <3>2. T = {}
      BY <1>1, <3>1 DEF NoOther
    <3> QED BY <3>2 DEF T
  <2> QED BY <2>6, <2>8
<1>4. S \in Rings
  BY <1>2 DEF Rings
<1>5. Rings = {S}
  BY <1>3, <1>4
<1>6. \A n, m \in S : is_between(m, n, successor[n]) => m = successor[n]
  BY <1>1 DEF RingOf, Steps
<1> QED BY <1>2, <1>5, <1>6

\* While nodes only join and no call fails, with any number of nodes, any
\* identifiers and any interleaving of joins, stabilizations and lookups, the
\* joined nodes have exactly one ring, its identifiers in clockwise order.
THEOREM OneRing ==
    ASSUME MaxCrashes = 0, MaxDrops = 0
    PROVE  Spec => []OneOrderedRing
<1>1. TypeOK /\ JoinInv /\ PredBehindSucc /\ RingInv => OneOrderedRing
  BY RingInvOrdered
<1> QED
  BY <1>1, RingInvariant, PTL

-----------------------------------------------------------------------------
(* The successor list and the node itself, whatever fails.                 *)

\* Every entry of l is n, or none is.
AllOrNone(l, n) == \/ \A k \in DOMAIN l : l[k] = n
                   \/ \A k \in DOMAIN l : l[k] # n

\* A list under construction is n alone, or goes through other nodes only.
UnderWay(l, n) == l = <<n>> \/ \A k \in 1 .. Len(l) : l[k] # n

\* Strengthening of ListWithoutSelf: also of the list update_successor_list is
\* building, which outlives many steps of other nodes.
ListInv ==
    \A n \in Nodes : /\ AllOrNone(successor_list[n], n)
                     /\ pc[n] = "ulist" => UnderWay(list[n], n)

\* Steps that write no successor list and begin no list update.
LEMMA ListKept ==
    ASSUME TypeOK, ListInv, successor_list' = successor_list,
           \A q \in Nodes : pc'[q] = "ulist" => pc[q] = "ulist" /\ list'[q] = list[q]
    PROVE  ListInv'
<1> SUFFICES ASSUME NEW q \in Nodes
             PROVE  /\ AllOrNone(successor_list'[q], q)
                    /\ pc'[q] = "ulist" => UnderWay(list'[q], q)
  BY DEF ListInv, AllOrNone, UnderWay
<1> QED BY DEF ListInv

\* A step that may write the list of n, and leaves n's list update or is in it.
LEMMA ListWritten ==
    ASSUME TypeOK, TypeOK', ListInv, NEW n \in Nodes,
           AllOrNone(successor_list'[n], n),
           pc'[n] = "ulist" => UnderWay(list'[n], n),
           \A q \in Nodes \ {n} :
              /\ successor_list'[q] = successor_list[q]
              /\ pc'[q] = "ulist" => pc[q] = "ulist" /\ list'[q] = list[q]
    PROVE  ListInv'
<1> SUFFICES ASSUME NEW q \in Nodes
             PROVE  /\ AllOrNone(successor_list'[q], q)
                    /\ pc'[q] = "ulist" => UnderWay(list'[q], q)
  BY DEF ListInv, AllOrNone, UnderWay
<1>1. CASE q = n
  BY <1>1
<1>2. CASE q # n
  BY <1>2 DEF ListInv
<1> QED BY <1>1, <1>2

LEMMA ListInit == Init => ListInv
BY DEF Init, ListInv, AllOrNone

LEMMA ListNext ==
    ASSUME TypeOK, TypeOK', ListInv, [Next]_vars
    PROVE  ListInv'
<1> USE DEF ringPointers, ringVars
<1> DEFINE OnlyPc(n) == /\ successor_list' = successor_list
                        /\ \A q \in Nodes \ {n} : pc'[q] = pc[q] /\ list'[q] = list[q]
                        /\ pc'[n] # "ulist"
<1>a. ASSUME NEW n \in Nodes, OnlyPc(n) PROVE ListInv'
  BY <1>a, ListKept
<1>b. ASSUME NEW n \in Nodes, GoUp(n)
      PROVE  /\ \A q \in Nodes \ {n} : pc'[q] = pc[q] /\ list'[q] = list[q]
             /\ pc'[n] # "ulist"
  BY <1>b DEF GoUp, TypeOK, LookupTypeOK
<1>c. ASSUME NEW n \in Nodes, NEW v \in Nodes
      PROVE  AllOrNone([k \in 1 .. SUCCESSOR_LIST_SIZE |-> v], n)
  BY DEF AllOrNone
<1>d. ASSUME NEW n \in Nodes, NEW s \in Nodes PROVE UnderWay(<<s>>, n)
  BY DEF UnderWay
<1>0. CASE UNCHANGED vars
  BY <1>0, ListKept DEF vars, lookupVars
<1>1. ASSUME NEW n \in Nodes, StartNewNetwork(n) PROVE ListInv'
  <2>1. successor_list'[n] = [k \in 1 .. SUCCESSOR_LIST_SIZE |-> n]
        /\ \A q \in Nodes \ {n} : successor_list'[q] = successor_list[q]
    BY <1>1 DEF StartNewNetwork, TypeOK, LookupTypeOK
  <2>2. GoUp(n)
    BY <1>1 DEF StartNewNetwork
  <2> QED BY <1>b, <1>c, <2>1, <2>2, ListWritten
<1>2. ASSUME NEW n \in Nodes, JoinCall(n) PROVE ListInv'
  <2>1. CASE GoUp(n)
    BY <1>2, <1>a, <1>b, <2>1 DEF JoinCall
  <2>2. CASE BeginLookup(n, Boot, n, 0)
    <3>1. OnlyPc(n)
      BY <1>2, <2>2 DEF JoinCall, BeginLookup, LoopPc, TypeOK, LookupTypeOK
    <3> QED BY <1>a, <3>1
  <2> QED BY <1>2, <2>1, <2>2 DEF JoinCall
<1>3. ASSUME NEW n \in Nodes, JoinDone(n) PROVE ListInv'
  <2>1. CASE resp[n] = n
    BY <1>3, <1>a, <1>b, <2>1 DEF JoinDone
  <2>2. CASE resp[n] # n
    <3>1. OnlyPc(n)
      BY <1>3, <2>2 DEF JoinDone, TypeOK, LookupTypeOK
    <3> QED BY <1>a, <3>1
  <2> QED BY <2>1, <2>2
<1>4. ASSUME NEW n \in Nodes, JoinTransferred(n) PROVE ListInv'
  BY <1>4, <1>a, <1>b DEF JoinTransferred
<1>5. ASSUME NEW n \in Nodes, JoinFail(n) PROVE ListInv'
  BY <1>5, <1>a, <1>b DEF JoinFail
<1>6. ASSUME NEW n \in Nodes, StabilizeStart(n) PROVE ListInv'
  <2>1. OnlyPc(n)
    BY <1>6 DEF StabilizeStart, Goto, TypeOK, LookupTypeOK
  <2> QED BY <1>a, <2>1
<1>7. ASSUME NEW n \in Nodes, ClearPredecessor(n) PROVE ListInv'
  <2>1. OnlyPc(n)
    BY <1>7, LeaveTyped DEF ClearPredecessor
  <2> QED BY <1>a, <2>1
<1>8. ASSUME NEW n \in Nodes, AskPredecessor(n) PROVE ListInv'
  <2>1. \E l \in {"adopt", "failover"} : pc' = [pc EXCEPT ![n] = l]
    BY <1>8 DEF AskPredecessor, Goto
  <2>2. \A q \in Nodes \ {n} : list'[q] = list[q]
    BY <1>8 DEF AskPredecessor, TypeOK, LookupTypeOK
  <2>3. OnlyPc(n)
    BY <1>8, <2>1, <2>2 DEF AskPredecessor, TypeOK
  <2> QED BY <1>a, <2>3
<1>9. ASSUME NEW n \in Nodes, Failover(n) PROVE ListInv'
  <2>1. CASE SkipCandidate(n, n) /\ UNCHANGED pc
    <3>1. OnlyPc(n)
      BY <1>9, <2>1 DEF Failover, SkipCandidate, TypeOK, LookupTypeOK
    <3> QED BY <1>a, <3>1
  <2>2. CASE FoundCandidate(n, n) /\ BeginListUpdate(n, Head(list[n]))
    <3>1. list[n] \in Seq(Nodes) /\ list[n] # << >>
      BY <2>2 DEF FoundCandidate, TypeOK, LookupTypeOK
    <3>2. Head(list[n]) \in Nodes
      BY <3>1
    <3>3. /\ list'[n] = <<Head(list[n])>>
          /\ \A q \in Nodes \ {n} : pc'[q] = pc[q] /\ list'[q] = list[q]
      BY <2>2 DEF BeginListUpdate, Goto, TypeOK, LookupTypeOK
    <3>4. UnderWay(list'[n], n)
      BY <1>d, <3>2, <3>3
    <3>5. successor_list' = successor_list
      BY <1>9 DEF Failover
    <3>6. AllOrNone(successor_list'[n], n)
      BY <3>5 DEF ListInv
    <3> QED BY <3>3, <3>4, <3>5, <3>6, ListWritten
  <2>3. CASE LeaveStabilize(n)
    <3>1. OnlyPc(n)
      BY <1>9, <2>3, LeaveTyped DEF Failover
    <3> QED BY <1>a, <3>1
  <2> QED BY <1>9, <2>1, <2>2, <2>3 DEF Failover
<1>10. ASSUME NEW n \in Nodes, AdoptCloser(n) PROVE ListInv'
  <2>1. OnlyPc(n)
    BY <1>10 DEF AdoptCloser, Goto, TypeOK, LookupTypeOK
  <2> QED BY <1>a, <2>1
<1>11. ASSUME NEW n \in Nodes, NotifySuccessor(n) PROVE ListInv'
  <2>1. successor'[n] \in Nodes
    BY DEF TypeOK, LookupTypeOK
  <2>2. /\ successor_list' = successor_list
        /\ list'[n] = <<successor'[n]>>
        /\ \A q \in Nodes \ {n} : pc'[q] = pc[q] /\ list'[q] = list[q]
    BY <1>11 DEF NotifySuccessor, BeginListUpdate, Goto, TypeOK, LookupTypeOK
  <2>3. UnderWay(list'[n], n)
    BY <1>d, <2>1, <2>2
  <2>4. AllOrNone(successor_list'[n], n)
    BY <2>2 DEF ListInv
  <2> QED BY <2>2, <2>3, <2>4, ListWritten
<1>12. ASSUME NEW n \in Nodes, NotifyAttemptTimesOut(n) PROVE ListInv'
  BY <1>12, ListKept DEF NotifyAttemptTimesOut
<1>13. ASSUME NEW n \in Nodes, NEW t \in Nodes, LateNotify(n, t) PROVE ListInv'
  BY <1>13, ListKept DEF LateNotify
<1>14. ASSUME NEW n \in Nodes, ExtendList(n) PROVE ListInv'
  <2>1. PICK l \in Seq(Nodes) : l = list[n]
    BY DEF TypeOK, LookupTypeOK
  <2>2. l # << >> /\ UnderWay(l, n)
    BY <1>14, <2>1 DEF ExtendList, TypeOK, ListInv
  <2>3. PICK cur \in Nodes : cur = l[Len(l)]
    BY <2>1, <2>2
  <2>4. PICK next \in Nodes : next = successor[cur]
    BY DEF TypeOK, LookupTypeOK
  <2>5. \/ WriteList(n, l)
        \/ cur # n /\ next # n /\ WriteList(n, Append(l, next))
        \/ /\ cur # n /\ next # n
           /\ list' = [list EXCEPT ![n] = Append(l, next)]
           /\ UNCHANGED <<successor_list, pc, peer, resp>>
    BY <1>14, <2>1, <2>3, <2>4 DEF ExtendList
  <2>6. cur # n /\ next # n => UnderWay(Append(l, next), n)
    <3> SUFFICES ASSUME cur # n, next # n PROVE UnderWay(Append(l, next), n)
      OBVIOUS
    <3>1. l # <<n>>
      <4>1. Len(<<n>>) = 1 /\ <<n>>[1] = n
        OBVIOUS
      <4> QED BY <2>3, <4>1
    <3>2. \A k \in 1 .. Len(l) : l[k] # n
      BY <2>2, <3>1 DEF UnderWay
    <3>3. Len(Append(l, next)) = Len(l) + 1 /\ Len(l) \in Nat
      BY <2>1
    <3>4. \A k \in 1 .. Len(l) + 1 :
             Append(l, next)[k] = IF k <= Len(l) THEN l[k] ELSE next
      BY <2>1
    <3>5. \A k \in 1 .. Len(l) + 1 : Append(l, next)[k] # n
      BY <3>2, <3>3, <3>4
    <3> QED BY <3>3, <3>5 DEF UnderWay
  <2>7. ASSUME NEW w \in Seq(Nodes), w # << >>, UnderWay(w, n), WriteList(n, w)
        PROVE  ListInv'
    <3>1. AllOrNone(Filled(w), n)
      <4>1. Len(w) \in Nat /\ Len(w) >= 1
        BY <2>7
      <4>2. CASE w = <<n>>
        BY <4>2 DEF AllOrNone, Filled
      <4>3. CASE \A k \in 1 .. Len(w) : w[k] # n
        BY <4>1, <4>3 DEF AllOrNone, Filled
      <4> QED BY <2>7, <4>2, <4>3 DEF UnderWay
    <3>2. LeaveStabilize(n) /\ successor_list'[n] = Filled(w)
          /\ \A q \in Nodes \ {n} : successor_list'[q] = successor_list[q]
      BY <2>7 DEF WriteList, TypeOK, LookupTypeOK
    <3>3. /\ pc'[n] = "fix"
          /\ \A q \in Nodes \ {n} : pc'[q] = pc[q] /\ list'[q] = list[q]
      BY <3>2, LeaveTyped
    <3> QED BY <3>1, <3>2, <3>3, ListWritten
  <2>8. CASE WriteList(n, l)
    BY <2>2, <2>7, <2>8
  <2>9. CASE cur # n /\ next # n /\ WriteList(n, Append(l, next))
    <3>1. Append(l, next) \in Seq(Nodes)
      BY <2>1
    <3>2. Len(Append(l, next)) = Len(l) + 1 /\ Len(l) \in Nat /\ Len(<< >>) = 0
      BY <2>1
    <3>3. Append(l, next) # << >>
      BY <3>2
    <3> QED BY <2>6, <2>7, <2>9, <3>1, <3>3
  <2>10. CASE /\ cur # n /\ next # n
              /\ list' = [list EXCEPT ![n] = Append(l, next)]
              /\ UNCHANGED <<successor_list, pc, peer, resp>>
    <3>1. list'[n] = Append(l, next) /\ \A q \in Nodes \ {n} : list'[q] = list[q]
      BY <2>10 DEF TypeOK, LookupTypeOK
    <3>2. UnderWay(list'[n], n)
      BY <2>6, <2>10, <3>1
    <3>3. AllOrNone(successor_list'[n], n)
      BY <2>10 DEF ListInv
    <3> QED BY <2>10, <3>1, <3>2, <3>3, ListWritten
  <2> QED BY <2>5, <2>8, <2>9, <2>10
<1>15. ASSUME NEW n \in Nodes, NEW i \in FixIdx, FixFingers(n, i) PROVE ListInv'
  <2>1. OnlyPc(n)
    BY <1>15 DEF FixFingers, BeginLookup, LoopPc, TypeOK, LookupTypeOK
  <2> QED BY <1>a, <2>1
<1>16. ASSUME NEW n \in Nodes, LookupStep(n), UNCHANGED ringVars PROVE ListInv'
  <2>1. /\ \E l \in LookupPcs \cup {"done"} : pc' = [pc EXCEPT ![n] = l]
        /\ successor_list' = successor_list
    BY <1>16, StepPc DEF TypeOK
  <2>2. \A q \in Nodes \ {n} : list'[q] = list[q]
    BY <1>16 DEF LookupStep, FindHop, FindGetSuccessor, FindFinal, FindBackup,
                 SkipCandidate, TypeOK, LookupTypeOK
  <2>3. OnlyPc(n)
    BY <2>1, <2>2 DEF TypeOK, LookupPcs
  <2> QED BY <1>a, <2>3
<1>e. ASSUME NEW n \in Nodes, NEW l \in {"check", "idle", "ping_pred"},
                 pc' = [pc EXCEPT ![n] = l], UNCHANGED <<successor_list, list>>
          PROVE  OnlyPc(n)
  <2>1. pc'[n] = l /\ \A q \in Nodes \ {n} : pc'[q] = pc[q]
    BY <1>e DEF TypeOK
  <2> QED BY <1>e, <2>1
<1>17. ASSUME NEW n \in Nodes, FixFingersDone(n) PROVE ListInv'
  <2>1. pc' = [pc EXCEPT ![n] = "check"] /\ UNCHANGED <<successor_list, list>>
    BY <1>17 DEF FixFingersDone, Goto
  <2>2. OnlyPc(n)
    BY <2>1, <1>e
  <2> QED BY <1>a, <2>2
<1>18. ASSUME NEW n \in Nodes, CheckPredecessor(n) PROVE ListInv'
  <2>1. UNCHANGED <<successor_list, list>>
    BY <1>18 DEF CheckPredecessor
  <2>2. pc' = [pc EXCEPT ![n] = "idle"] \/ pc' = [pc EXCEPT ![n] = "ping_pred"]
    BY <1>18 DEF CheckPredecessor, Goto
  <2>3. OnlyPc(n)
    BY <2>1, <2>2, <1>e
  <2> QED BY <1>a, <2>3
<1>19. ASSUME NEW n \in Nodes, PingPredecessor(n) PROVE ListInv'
  <2>1. pc' = [pc EXCEPT ![n] = "idle"] /\ UNCHANGED <<successor_list, list>>
    BY <1>19 DEF PingPredecessor, Goto
  <2>2. OnlyPc(n)
    BY <2>1, <1>e
  <2> QED BY <1>a, <2>2
<1>20. ASSUME NEW n \in Nodes, Crash(n) PROVE ListInv'
  <2>1. successor_list'[n] = [k \in 1 .. SUCCESSOR_LIST_SIZE |-> n]
        /\ \A q \in Nodes \ {n} : successor_list'[q] = successor_list[q]
    BY <1>20 DEF Crash, TypeOK, LookupTypeOK
  <2>2. \A q \in Nodes \ {n} : list'[q] = list[q]
    BY <1>20 DEF Crash, TypeOK, LookupTypeOK
  <2>3. \A q \in Nodes : pc'[q] \in {"off", "lk_err"} \/ (q # n /\ pc'[q] = pc[q])
    BY <1>20 DEF Crash, TypeOK
  <2> QED BY <1>c, <2>1, <2>2, <2>3, ListWritten
<1> QED
  BY <1>0, <1>1, <1>2, <1>3, <1>4, <1>5, <1>6, <1>7, <1>8, <1>9, <1>10, <1>11,
     <1>12, <1>13, <1>14, <1>15, <1>16, <1>17, <1>18, <1>19, <1>20
  DEF Next, Task, Environment

\* Whatever crashes, restarts and calls fail, and however long a list update
\* is interrupted: a successor list names its own node everywhere or nowhere,
\* so that failover never picks the node itself from a list that was built.
THEOREM ListsSelfFree == Spec => []ListWithoutSelf
<1>1. Init => TypeOK /\ ListInv
  BY InitTyped, ListInit
<1>2. TypeOK /\ ListInv /\ [Next]_vars => (TypeOK /\ ListInv)'
  BY NextTyped, ListNext
<1>3. TypeOK /\ ListInv => ListWithoutSelf
  BY DEF TypeOK, LookupTypeOK, ListInv, AllOrNone, ListWithoutSelf
<1> QED
  BY <1>1, <1>2, <1>3, PTL DEF Spec

=============================================================================
