------------------------------ MODULE Routing -------------------------------
(***************************************************************************)
(* Lookups over a ring whose successor pointers are exact: what            *)
(* find_successor (node/src/node.rs) answers to the API handlers, to       *)
(* FindSuccessor requests and to fix_fingers.                              *)
(*                                                                         *)
(* The successor pointers are those module Ring converges to.  The finger  *)
(* tables are any mixture of entries that lookups made while the ring was  *)
(* growing, except that every node has refreshed one finger that its       *)
(* successor owns; the nodes go on refreshing them.  Calls to live nodes   *)
(* may fail (MaxDrops).                                                    *)
(***************************************************************************)
EXTENDS Lookup

CONSTANTS
    Callers,  \* nodes at which lookups run
    Targets,  \* the identifiers looked up
    FixIdx    \* finger indices fix_fingers may draw, within 1 .. M-1

ASSUME CallersAssumption == Callers \subseteq Nodes
ASSUME TargetsAssumption == Targets \subseteq Ids
ASSUME FixIdxAssumption  == FixIdx \subseteq 1 .. M - 1

\* Finger f of index i was never fixed, or owned its target when there were
\* fewer nodes.
PastFinger(n, i, f) == f = n \/ is_between(add_id_power_of_2(n, i), n, f)

Init ==
    /\ status = [n \in Nodes |-> "up"]
    /\ successor \in [Nodes -> Nodes]
    /\ \A n \in Nodes : NextNode(Nodes, n, successor[n])
    /\ successor_list = [n \in Nodes |-> ExactList(n)]
    /\ \E f \in [Nodes -> [FixIdx -> Nodes]] :
          /\ \A n \in Nodes : \A i \in FixIdx : PastFinger(n, i, f[n][i])
          /\ \A n \in Nodes : \E i \in FixIdx : f[n][i] = successor[n]
          /\ finger_table = [n \in Nodes |-> [i \in 0 .. M - 1 |->
                                IF i \in FixIdx THEN f[n][i] ELSE n]]
    /\ pc = [n \in Nodes |-> "idle"]
    /\ lk = [n \in Nodes |-> NoLookup(n)]
    /\ list = [n \in Nodes |-> << >>]
    /\ resp = [n \in Nodes |-> None]
    /\ drops = 0

\* find_successor(id) is called at node p.
StartLookup(p, id) ==
    /\ pc[p] = "idle"
    /\ BeginLookup(p, p, id, 0)
    /\ UNCHANGED ringPointers

\* fix_fingers draws index i.
FixFingers(p, i) ==
    /\ pc[p] = "idle"
    /\ BeginLookup(p, p, add_id_power_of_2(p, i), i)
    /\ UNCHANGED ringPointers

\* The answer is returned, or written to the finger that asked for it.
FinishLookup(p) ==
    /\ pc[p] = "done"
    /\ finger_table' = IF lk[p].i = 0 THEN finger_table
                       ELSE [finger_table EXCEPT ![p][lk[p].i] = resp[p]]
    /\ pc' = [pc EXCEPT ![p] = "idle"]
    /\ lk' = [lk EXCEPT ![p] = NoLookup(p)]
    /\ resp' = [resp EXCEPT ![p] = None]
    /\ UNCHANGED <<status, successor, successor_list, list, drops>>

Next ==
    \E p \in Callers :
        \/ \E id \in Targets : StartLookup(p, id)
        \/ \E i \in FixIdx : FixFingers(p, i)
        \/ LookupStep(p)
        \/ FinishLookup(p)

Spec == Init /\ [][Next]_lookupVars

-----------------------------------------------------------------------------

TypeOK == LookupTypeOK /\ pc \in [Nodes -> LookupPcs \cup {"idle", "done"}]

\* find_successor answers with the node responsible for the identifier, from
\* any starting node and over any stale fingers, unless a call failed or the
\* hop limit cut the search.  For the identifier of a node the answer may also
\* be the node after it: closest_preceding_node does not exclude the
\* identifier, so that the search may walk onto that node.
LookupCorrect ==
    \A p \in Callers :
        (pc[p] = "done" /\ drops = 0 /\ lk[p].retry < MAX_RETRIES) =>
            \/ Owner(Nodes, lk[p].id, resp[p])
            \/ lk[p].id \in Nodes /\ NextNode(Nodes, lk[p].id, resp[p])

\* Refreshing never loses the finger each node needs to leave itself: some
\* finger stays exactly its successor, whichever calls fail.
SuccessorFingerKept ==
    \A n \in Nodes : \E i \in 0 .. M - 1 : finger_table[n][i] = successor[n]

\* Every hop of find_predecessor gets closer to the identifier and never
\* passes it: the loop cannot run in circles.
HopsAdvance ==
    [][\A p \in Callers :
          (lk'[p].id = lk[p].id /\ lk[p].np # lk'[p].np /\ pc[p] = "find") =>
              Distance(lk'[p].np, lk[p].id) < Distance(lk[p].np, lk[p].id)
      ]_lookupVars

=============================================================================
