------------------------------- MODULE Lookup -------------------------------
(***************************************************************************)
(* The iterative lookup of the DHT: find_successor, find_predecessor,      *)
(* closest_preceding_node and the successor-list fallback of               *)
(* node/src/node.rs.                                                       *)
(*                                                                         *)
(* A node is its identifier (the code hashes the address, one to one).     *)
(* A task of process p runs the lookup at node lk[p].at: its own node, or  *)
(* the bootstrap node while p joins.  Every remote call is one step: the   *)
(* callee's handler reads one lock, and the answer lands in locals of the  *)
(* caller.  A call fails when the callee is not serving, or when the       *)
(* budget MaxDrops lets a call to a live node fail (three attempts timed   *)
(* out, or a connection limit refused it).                                 *)
(***************************************************************************)
EXTENDS IdSpace, Sequences

CONSTANTS
    Nodes,                \* the nodes, a set of identifiers
    None,                 \* Option::None
    SUCCESSOR_LIST_SIZE,  \* 3 in the code
    MAX_RETRIES,          \* hops after which find_predecessor gives up (10)
    MaxDrops              \* bound: calls to live nodes that may fail

ASSUME NodesAssumption == Nodes # {} /\ Nodes \subseteq Ids
ASSUME NoneAssumption  == None \notin Ids
ASSUME SizesAssumption == /\ SUCCESSOR_LIST_SIZE \in Nat \ {0}
                          /\ MAX_RETRIES \in Nat
                          /\ MaxDrops \in Nat

VARIABLES
    status,          \* "down", "joining" (not serving yet) or "up"
    successor,       \* successor[n]
    successor_list,  \* successor_list[n], a sequence
    finger_table,    \* finger_table[n][i]
    pc,              \* where the task of each node is
    lk,              \* locals of find_predecessor, per task
    list,            \* the node list a task walks or builds
    resp,            \* the answer a task holds
    drops            \* failed calls to live nodes so far

lookupVars == <<status, successor, successor_list, finger_table,
                pc, lk, list, resp, drops>>
ringPointers == <<status, successor, successor_list, finger_table>>

Live == {n \in Nodes : status[n] = "up"}

LookupPcs == {"find", "getsucc", "final", "backup"}

\* The locals while no lookup runs.
NoLookup(p) == [at |-> p, id |-> p, np |-> p, cs |-> p, retry |-> 0, i |-> 0]

Lookups == [at : Nodes, id : Ids, np : Nodes, cs : Nodes,
            retry : 0 .. MAX_RETRIES, i : 0 .. M - 1]

-----------------------------------------------------------------------------
(* Remote calls: RealNetworkClient::call_node.                             *)

CallOk(t) == status[t] = "up" /\ UNCHANGED drops

CallErr(t) ==
    \/ status[t] # "up" /\ UNCHANGED drops
    \/ status[t] = "up" /\ drops < MaxDrops /\ drops' = drops + 1

-----------------------------------------------------------------------------
\* Error seeded for the runs: any finger will do, even one past id.
closest_preceding_node_past(m, id, r) ==
    \/ \E i \in 0 .. M - 1 :
          /\ finger_table[m][i] # m
          /\ \A j \in i + 1 .. M - 1 : finger_table[m][j] = m
          /\ r = finger_table[m][i]
    \/ r = m /\ \A i \in 0 .. M - 1 : finger_table[m][i] = m

(***************************************************************************)
(* closest_preceding_node(id) at node m returns r: the finger of highest   *)
(* index in (m, id], or m itself when there is none.                       *)
(***************************************************************************)
closest_preceding_node(m, id, r) ==
    LET precedes(i) == is_between(finger_table[m][i], m, id)
    IN  \/ \E i \in 0 .. M - 1 :
              /\ precedes(i)
              /\ \A j \in i + 1 .. M - 1 : ~precedes(j)
              /\ r = finger_table[m][i]
        \/ r = m /\ \A i \in 0 .. M - 1 : ~precedes(i)

\* The loop test of find_predecessor: go on, or leave with n_prime.
LoopPc(id, np, cs, retry) ==
    IF is_between(id, np, cs) \/ retry = MAX_RETRIES THEN "final" ELSE "find"

\* find_successor(id) starts at node a, for the task of p (finger index i).
BeginLookup(p, a, id, i) ==
    /\ lk' = [lk EXCEPT ![p] = [at |-> a, id |-> id, np |-> a,
                                cs |-> successor[a], retry |-> 0, i |-> i]]
    /\ pc' = [pc EXCEPT ![p] = LoopPc(id, a, successor[a], 0)]
    /\ UNCHANGED <<list, resp, drops>>

\* The locals of p with n_prime = np and its hops counted up to retry.
Moved(p, np, retry) ==
    [at |-> lk[p].at, id |-> lk[p].id, np |-> np, cs |-> lk[p].cs,
     retry |-> retry, i |-> lk[p].i]

(***************************************************************************)
(* First half of the loop body: ask n_prime (directly when it is this      *)
(* node) for its closest preceding node.  The loop ends when the call      *)
(* fails or n_prime names itself.                                          *)
(***************************************************************************)
FindHop(p) ==
    LET np == lk[p].np
        id == lk[p].id
    IN  /\ pc[p] = "find"
        /\ \/ /\ IF np = lk[p].at THEN UNCHANGED drops ELSE CallOk(np)
              /\ \E next \in Nodes :
                    /\ closest_preceding_node(np, id, next)
                    /\ lk' = [lk EXCEPT ![p] = Moved(p, next, @.retry + 1)]
                    /\ pc' = [pc EXCEPT ![p] = IF next = np THEN "final"
                                               ELSE "getsucc"]
           \/ /\ np # lk[p].at
              /\ CallErr(np)
              /\ lk' = [lk EXCEPT ![p] = Moved(p, np, @.retry + 1)]
              /\ pc' = [pc EXCEPT ![p] = "final"]
        /\ UNCHANGED <<list, resp, ringPointers>>

\* Second half: fetch the successor of the new n_prime, then test the loop.
FindGetSuccessor(p) ==
    LET np == lk[p].np
    IN  /\ pc[p] = "getsucc"
        /\ \/ /\ IF np = lk[p].at THEN UNCHANGED drops ELSE CallOk(np)
              /\ lk' = [lk EXCEPT ![p].cs = successor[np]]
              /\ pc' = [pc EXCEPT ![p] = LoopPc(lk[p].id, np, successor[np],
                                                lk[p].retry)]
           \/ /\ np # lk[p].at
              /\ CallErr(np)
              /\ pc' = [pc EXCEPT ![p] = "final"]
              /\ UNCHANGED lk
        /\ UNCHANGED <<list, resp, ringPointers>>

\* Error seeded for the runs: the predecessor itself is the answer.
FindFinalOwn(p) ==
    /\ pc[p] = "final"
    /\ resp' = [resp EXCEPT ![p] = lk[p].np]
    /\ pc' = [pc EXCEPT ![p] = "done"]
    /\ UNCHANGED <<list, lk, drops, ringPointers>>

\* Error seeded for the runs: a failed call ends the lookup with no answer.
FindFinalNoFallback(p) ==
    LET np == lk[p].np
    IN  /\ pc[p] = "final"
        /\ \/ /\ IF np = lk[p].at THEN UNCHANGED drops ELSE CallOk(np)
              /\ resp' = [resp EXCEPT ![p] = successor[np]]
           \/ np # lk[p].at /\ CallErr(np) /\ UNCHANGED resp
        /\ pc' = [pc EXCEPT ![p] = "done"]
        /\ UNCHANGED <<list, lk, ringPointers>>

\* After the loop, find_successor asks the predecessor for its successor.
FindFinal(p) ==
    LET np == lk[p].np
    IN  /\ pc[p] = "final"
        /\ \/ /\ IF np = lk[p].at THEN UNCHANGED drops ELSE CallOk(np)
              /\ resp' = [resp EXCEPT ![p] = successor[np]]
              /\ pc' = [pc EXCEPT ![p] = "done"]
              /\ UNCHANGED list
           \/ /\ np # lk[p].at
              /\ CallErr(np)
              /\ list' = [list EXCEPT ![p] = successor_list[lk[p].at]]
              /\ pc' = [pc EXCEPT ![p] = "backup"]
              /\ UNCHANGED resp
        /\ UNCHANGED <<lk, ringPointers>>

(***************************************************************************)
(* find_next_available_successor at node a on behalf of p: one element of  *)
(* the list is skipped (this node itself, or a failed ping), or answers    *)
(* the ping and is found.  Exhausted(p) is its None.                       *)
(***************************************************************************)
SkipCandidate(p, a) ==
    /\ list[p] # << >>
    /\ IF Head(list[p]) = a THEN UNCHANGED drops ELSE CallErr(Head(list[p]))
    /\ list' = [list EXCEPT ![p] = Tail(@)]

\* Error seeded for the runs: this node is a candidate as good as any.
FoundCandidateSelf(p, a) == list[p] # << >> /\ CallOk(Head(list[p]))

FoundCandidate(p, a) ==
    /\ list[p] # << >>
    /\ Head(list[p]) # a
    /\ CallOk(Head(list[p]))

Exhausted(p) == list[p] = << >> /\ UNCHANGED drops

\* The fallback of find_successor, down to this node's own successor.
FindBackup(p) ==
    LET a == lk[p].at
    IN  /\ pc[p] = "backup"
        /\ \/ /\ SkipCandidate(p, a)
              /\ UNCHANGED <<pc, resp>>
           \/ /\ FoundCandidate(p, a)
              /\ resp' = [resp EXCEPT ![p] = Head(list[p])]
              /\ list' = [list EXCEPT ![p] = << >>]
              /\ pc' = [pc EXCEPT ![p] = "done"]
           \/ /\ Exhausted(p)
              /\ resp' = [resp EXCEPT ![p] = successor[a]]
              /\ pc' = [pc EXCEPT ![p] = "done"]
              /\ UNCHANGED list
        /\ UNCHANGED <<lk, ringPointers>>

LookupStep(p) ==
    FindHop(p) \/ FindGetSuccessor(p) \/ FindFinal(p) \/ FindBackup(p)

-----------------------------------------------------------------------------
(* The ring Chord prescribes, the reference for the code's pointers.       *)

\* s is the first node of S clockwise from n, and n itself when n is alone.
NextNode(S, n, s) ==
    /\ s \in S
    /\ s = n => S = {n}
    /\ \A m \in S \ {n} : is_between(s, n, m)

\* The successor list that update_successor_list builds on a quiet ring.
ExactList(n) ==
    LET entry[k \in 1 .. SUCCESSOR_LIST_SIZE] ==
            IF k = 1 THEN successor[n]
            ELSE IF successor[entry[k - 1]] = n THEN entry[k - 1]
            ELSE successor[entry[k - 1]]
    IN  entry

\* r is responsible for id: the first node of S at or after it.
Owner(S, id, r) ==
    r \in S /\ \A m \in S : Distance(id, r) <= Distance(id, m)

LookupTypeOK ==
    /\ status \in [Nodes -> {"down", "joining", "up"}]
    /\ successor \in [Nodes -> Nodes]
    /\ successor_list \in [Nodes -> [1 .. SUCCESSOR_LIST_SIZE -> Nodes]]
    /\ finger_table \in [Nodes -> [0 .. M - 1 -> Nodes]]
    /\ lk \in [Nodes -> Lookups]
    /\ list \in [Nodes -> Seq(Nodes)]
    /\ resp \in [Nodes -> Nodes \cup {None}]
    /\ drops \in 0 .. MaxDrops
    /\ \A p \in Nodes : /\ pc[p] = "find" => lk[p].retry < MAX_RETRIES
                        /\ pc[p] = "done" => resp[p] \in Nodes

=============================================================================
