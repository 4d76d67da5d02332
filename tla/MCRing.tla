------------------------------- MODULE MCRing -------------------------------
(* Instances of Ring for TLC.                                               *)
EXTENDS Ring

MCNodes == {0, 3, 5}
MCTwoNodes == {0, 3}
MCFixIdx == {2}

\* The ring 0, 3, 5 after its joins, between two rounds of every node.
MCNextNode == [n \in Nodes |-> CHOOSE s \in Nodes :
                  s # n /\ \A m \in Nodes \ {n} : is_between(s, n, m)]

MCFormed ==
    /\ status = [n \in Nodes |-> "up"]
    /\ successor = MCNextNode
    /\ successor_list = [n \in Nodes |->
          LET s1 == MCNextNode[n]
              s2 == MCNextNode[s1]
          IN  [k \in 1 .. SUCCESSOR_LIST_SIZE |-> IF k = 1 THEN s1 ELSE s2]]
    /\ finger_table = [n \in Nodes |-> [i \in 0 .. M - 1 |->
          IF i \in FixIdx
          THEN CHOOSE s \in Nodes : \A m \in Nodes :
                  Distance(add_id_power_of_2(n, i), s)
                     <= Distance(add_id_power_of_2(n, i), m)
          ELSE n]]
    /\ pc = [n \in Nodes |-> "idle"]
    /\ lk = [n \in Nodes |-> NoLookup(n)]
    /\ list = [n \in Nodes |-> << >>]
    /\ resp = [n \in Nodes |-> None]
    /\ drops = 0
    /\ predecessor = [n \in Nodes |-> CHOOSE p \in Nodes : MCNextNode[p] = n]
    /\ peer = [n \in Nodes |-> n]
    /\ late = {}
    /\ crashes = 0

MCFormedSpec == MCFormed /\ [][Next]_vars /\ Fairness

=============================================================================
