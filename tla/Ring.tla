-------------------------------- MODULE Ring --------------------------------
(***************************************************************************)
(* Ring maintenance of the DHT (node/src/node.rs, node/src/main.rs): how   *)
(* nodes join, stabilize, notify, fail over to their successor list, fix   *)
(* fingers, check their predecessor, crash and come back.                  *)
(*                                                                         *)
(* Every node runs one maintenance task, the stabilization loop of         *)
(* main.rs, whose program counter is pc[n]; the handlers other nodes call  *)
(* run concurrently with it and are part of the caller's step, because     *)
(* each of them touches the ring pointers inside one lock scope.  Between  *)
(* two steps of a task any other task may run: at every await, and also    *)
(* between two separate lock scopes, since the runtime is multi-threaded.  *)
(*                                                                         *)
(* Left to other modules: the data a join, a notify or a dead predecessor  *)
(* moves, metrics, rebalancing.  None of them writes a ring pointer.       *)
(***************************************************************************)
EXTENDS Lookup

CONSTANTS
    Boot,        \* the node started with IS_BOOTSTRAP=true
    FixIdx,      \* finger indices fix_fingers may draw, within 1 .. M-1
    MaxCrashes   \* bound: crashes

ASSUME BootAssumption    == Boot \in Nodes
ASSUME FixIdxAssumption  == FixIdx \subseteq 1 .. M - 1
ASSUME CrashesAssumption == MaxCrashes \in Nat

VARIABLES
    predecessor,  \* predecessor[n], a node or None
    peer,         \* the successor or predecessor a task read and now calls
    late,         \* <<n, t>>: a Notify of n to t that timed out at n and is
                  \*   still on its way to, or queued at, t
    crashes       \* crashes so far

ringVars == <<predecessor, peer, late, crashes>>
vars == <<lookupVars, ringVars>>

Pcs == {"off", "transfer", "idle", "clear_pred", "ask_pred", "adopt", "notify",
        "failover", "ulist", "fix", "done", "lk_err", "check", "ping_pred"}
       \cup LookupPcs

TypeOK ==
    /\ LookupTypeOK
    /\ pc \in [Nodes -> Pcs]
    /\ predecessor \in [Nodes -> Nodes \cup {None}]
    /\ peer \in [Nodes -> Nodes]
    /\ late \subseteq Nodes \X Nodes
    /\ crashes \in 0 .. MaxCrashes
    /\ \A n \in Nodes : pc[n] = "ulist" => list[n] # << >>

\* ChordNode::new: every pointer is the node itself.
Init ==
    /\ status = [n \in Nodes |-> "down"]
    /\ successor = [n \in Nodes |-> n]
    /\ successor_list = [n \in Nodes |-> [k \in 1 .. SUCCESSOR_LIST_SIZE |-> n]]
    /\ finger_table = [n \in Nodes |-> [i \in 0 .. M - 1 |-> n]]
    /\ pc = [n \in Nodes |-> "off"]
    /\ lk = [n \in Nodes |-> NoLookup(n)]
    /\ list = [n \in Nodes |-> << >>]
    /\ resp = [n \in Nodes |-> None]
    /\ drops = 0
    /\ predecessor = [n \in Nodes |-> None]
    /\ peer = [n \in Nodes |-> n]
    /\ late = {}
    /\ crashes = 0

-----------------------------------------------------------------------------
(* Joining.  The server of a node listens, and its maintenance task runs,  *)
(* only after join has returned, whatever join achieved.                   *)

\* join leaves its lookup locals and the node goes up.
GoUp(n) ==
    /\ status' = [status EXCEPT ![n] = "up"]
    /\ pc' = [pc EXCEPT ![n] = "idle"]
    /\ lk' = [lk EXCEPT ![n] = NoLookup(n)]
    /\ list' = [list EXCEPT ![n] = << >>]
    /\ resp' = [resp EXCEPT ![n] = None]

\* join(None): start_new_network.
StartNewNetwork(n) ==
    /\ n = Boot
    /\ status[n] = "down"
    /\ GoUp(n)
    /\ successor' = [successor EXCEPT ![n] = n]
    /\ successor_list' = [successor_list EXCEPT
                             ![n] = [k \in 1 .. SUCCESSOR_LIST_SIZE |-> n]]
    /\ predecessor' = [predecessor EXCEPT ![n] = None]
    /\ UNCHANGED <<finger_table, drops, peer, late, crashes>>

\* join(Some(bootstrap)): FindSuccessor{n} runs at the bootstrap node.
JoinCall(n) ==
    /\ n # Boot
    /\ status[n] = "down"
    /\ \/ /\ CallOk(Boot)
          /\ status' = [status EXCEPT ![n] = "joining"]
          /\ BeginLookup(n, Boot, n, 0)
       \/ CallErr(Boot) /\ GoUp(n)
    /\ UNCHANGED <<successor, successor_list, finger_table, ringVars>>

\* The bootstrap node answered.  An answer naming the joiner ends the join.
JoinDone(n) ==
    /\ status[n] = "joining"
    /\ pc[n] = "done"
    /\ IF resp[n] = n
       THEN GoUp(n) /\ UNCHANGED successor
       ELSE /\ successor' = [successor EXCEPT ![n] = resp[n]]
            /\ pc' = [pc EXCEPT ![n] = "transfer"]
            /\ lk' = [lk EXCEPT ![n] = NoLookup(n)]
            /\ resp' = [resp EXCEPT ![n] = None]
            /\ UNCHANGED <<status, list>>
    /\ UNCHANGED <<successor_list, finger_table, drops, ringVars>>

\* GetDataRange at the successor has returned, Ok or Err.
JoinTransferred(n) ==
    /\ status[n] = "joining"
    /\ pc[n] = "transfer"
    /\ GoUp(n)
    /\ UNCHANGED <<successor, successor_list, finger_table, drops, ringVars>>

\* The bootstrap node died, or its lookup outlasted the joiner's timeouts.
JoinFail(n) ==
    /\ status[n] = "joining"
    /\ \/ pc[n] = "lk_err" /\ UNCHANGED drops
       \/ pc[n] \in LookupPcs /\ drops < MaxDrops /\ drops' = drops + 1
    /\ GoUp(n)
    /\ UNCHANGED <<successor, successor_list, finger_table, ringVars>>

-----------------------------------------------------------------------------
(* stabilize                                                               *)

Goto(n, label) == pc' = [pc EXCEPT ![n] = label]

\* Stabilization ends here for this round: fix_fingers is next.
LeaveStabilize(n) ==
    /\ Goto(n, "fix")
    /\ peer' = [peer EXCEPT ![n] = n]
    /\ resp' = [resp EXCEPT ![n] = None]
    /\ list' = [list EXCEPT ![n] = << >>]

\* The round starts by reading the successor.
StabilizeStart(n) ==
    /\ pc[n] = "idle"
    /\ Goto(n, IF successor[n] = n THEN "clear_pred" ELSE "ask_pred")
    /\ peer' = [peer EXCEPT ![n] = successor[n]]
    /\ UNCHANGED <<ringPointers, lk, list, resp, drops,
                   predecessor, late, crashes>>

\* A node that was its own successor forgets its predecessor.
ClearPredecessor(n) ==
    /\ pc[n] = "clear_pred"
    /\ predecessor' = [predecessor EXCEPT ![n] = None]
    /\ LeaveStabilize(n)
    /\ UNCHANGED <<ringPointers, lk, drops, late, crashes>>

\* GetPredecessor at the successor.
AskPredecessor(n) ==
    /\ pc[n] = "ask_pred"
    /\ \/ /\ CallOk(peer[n])
          /\ resp' = [resp EXCEPT ![n] = predecessor[peer[n]]]
          /\ Goto(n, "adopt")
          /\ UNCHANGED <<list, peer>>
       \/ /\ CallErr(peer[n])
          /\ list' = [list EXCEPT ![n] = successor_list[n]]
          /\ peer' = [peer EXCEPT ![n] = n]
          /\ Goto(n, "failover")
          /\ UNCHANGED resp
    /\ UNCHANGED <<ringPointers, lk, predecessor, late, crashes>>

\* Error seeded for the runs: the list starts empty.
BeginListUpdateEmpty(n, s) ==
    /\ Goto(n, "ulist")
    /\ list' = [list EXCEPT ![n] = << >>]

\* update_successor_list begins with the current successor.
BeginListUpdate(n, s) ==
    /\ Goto(n, "ulist")
    /\ list' = [list EXCEPT ![n] = <<s>>]

\* Error seeded for the runs: an exhausted list is walked again.
FailoverForever(n) ==
    /\ pc[n] = "failover"
    /\ \/ /\ SkipCandidate(n, n)
          /\ UNCHANGED <<successor, pc>>
       \/ /\ FoundCandidate(n, n)
          /\ successor' = [successor EXCEPT ![n] = Head(list[n])]
          /\ BeginListUpdate(n, Head(list[n]))
       \/ /\ Exhausted(n)
          /\ list' = [list EXCEPT ![n] = successor_list[n]]
          /\ UNCHANGED <<successor, pc>>
    /\ UNCHANGED <<status, successor_list, finger_table, lk, peer, resp,
                   predecessor, late, crashes>>

\* The successor is unreachable: take the first live entry of the list.
Failover(n) ==
    /\ pc[n] = "failover"
    /\ \/ /\ SkipCandidate(n, n)
          /\ UNCHANGED <<successor, pc, peer, resp>>
       \/ /\ FoundCandidate(n, n)
          /\ successor' = [successor EXCEPT ![n] = Head(list[n])]
          /\ BeginListUpdate(n, Head(list[n]))
          /\ UNCHANGED <<peer, resp>>
       \/ /\ Exhausted(n)
          /\ LeaveStabilize(n)
          /\ UNCHANGED successor
    /\ UNCHANGED <<status, successor_list, finger_table, lk,
                   predecessor, late, crashes>>

\* Error seeded for the runs: the interval test is missing.
AdoptAny(n) ==
    /\ pc[n] = "adopt"
    /\ successor' = [successor EXCEPT
                        ![n] = IF resp[n] \notin {None, n} THEN resp[n] ELSE @]
    /\ peer' = [peer EXCEPT ![n] = successor'[n]]
    /\ resp' = [resp EXCEPT ![n] = None]
    /\ Goto(n, "notify")
    /\ UNCHANGED <<status, successor_list, finger_table, lk, list, drops,
                   predecessor, late, crashes>>

\* Adopt the successor's predecessor when it is closer, then read the
\* successor again: it is the one to notify.
AdoptCloser(n) ==
    LET x == resp[n]
    IN  /\ pc[n] = "adopt"
        /\ successor' = [successor EXCEPT
                            ![n] = IF x # None /\ is_between(x, n, peer[n])
                                   THEN x ELSE @]
        /\ peer' = [peer EXCEPT ![n] = successor'[n]]
        /\ resp' = [resp EXCEPT ![n] = None]
        /\ Goto(n, "notify")
        /\ UNCHANGED <<status, successor_list, finger_table, lk, list, drops,
                       predecessor, late, crashes>>

\* Error seeded for the runs: a new predecessor is also the new successor.
HandleNotifyBoth(t, n_prime) ==
    IF /\ n_prime # t
       /\ \/ predecessor[t] = None
          \/ is_between(n_prime, predecessor[t], t)
    THEN /\ predecessor' = [predecessor EXCEPT ![t] = n_prime]
         /\ successor' = [successor EXCEPT ![t] = n_prime]
    ELSE UNCHANGED <<predecessor, successor>>

\* Error seeded for the runs: a lone node does not adopt its notifier.
HandleNotifyAlone(t, n_prime) ==
    IF /\ n_prime # t
       /\ \/ predecessor[t] = None
          \/ is_between(n_prime, predecessor[t], t)
    THEN predecessor' = [predecessor EXCEPT ![t] = n_prime] /\ UNCHANGED successor
    ELSE UNCHANGED <<predecessor, successor>>

(***************************************************************************)
(* The handler notify(n_prime) at node t, inside its predecessor lock.     *)
(***************************************************************************)
HandleNotify(t, n_prime) ==
    IF /\ n_prime # t
       /\ \/ predecessor[t] = None
          \/ is_between(n_prime, predecessor[t], t)
    THEN /\ predecessor' = [predecessor EXCEPT ![t] = n_prime]
         /\ successor' = [successor EXCEPT ![t] = IF @ = t THEN n_prime ELSE @]
    ELSE UNCHANGED <<predecessor, successor>>

\* The Notify call returns, Ok or Err; either way the list update starts
\* from a fresh read of the successor.
NotifySuccessor(n) ==
    /\ pc[n] = "notify"
    /\ \/ CallOk(peer[n]) /\ HandleNotify(peer[n], n)
       \/ CallErr(peer[n]) /\ UNCHANGED <<predecessor, successor>>
    /\ BeginListUpdate(n, successor'[n])
    /\ peer' = [peer EXCEPT ![n] = n]
    /\ UNCHANGED <<status, successor_list, finger_table, lk, resp,
                   late, crashes>>

\* An attempt of the Notify call times out at n but not at its target: the
\* request may be executed later, whatever the remaining attempts do.
NotifyAttemptTimesOut(n) ==
    /\ pc[n] = "notify"
    /\ status[peer[n]] = "up"
    /\ drops < MaxDrops
    /\ drops' = drops + 1
    /\ late' = late \cup {<<n, peer[n]>>}
    /\ UNCHANGED <<ringPointers, pc, lk, list, resp,
                   predecessor, peer, crashes>>

\* Its target gets round to it.
LateNotify(n, t) ==
    /\ <<n, t>> \in late
    /\ HandleNotify(t, n)
    /\ late' = late \ {<<n, t>>}
    /\ UNCHANGED <<status, successor_list, finger_table, pc, lk, list, resp,
                   drops, peer, crashes>>

-----------------------------------------------------------------------------
(* update_successor_list                                                   *)

\* Fill the remaining slots with the last known successor.
Filled(l) == [k \in 1 .. SUCCESSOR_LIST_SIZE |->
                 IF k <= Len(l) THEN l[k] ELSE l[Len(l)]]

WriteList(n, l) ==
    /\ successor_list' = [successor_list EXCEPT ![n] = Filled(l)]
    /\ LeaveStabilize(n)

\* Error seeded for the runs: the list may come back to this node.
ExtendListRound(n) ==
    LET cur  == list[n][Len(list[n])]
        more == Append(list[n], successor[cur])
    IN  /\ pc[n] = "ulist"
        /\ IF Len(list[n]) >= SUCCESSOR_LIST_SIZE
           THEN WriteList(n, list[n]) /\ UNCHANGED drops
           ELSE \/ CallOk(cur) /\ WriteList(n, more)
                \/ CallErr(cur) /\ WriteList(n, list[n])
        /\ UNCHANGED <<status, successor, finger_table, lk,
                       predecessor, late, crashes>>

\* GetSuccessor at the last node of the list.  The list ends when it is
\* full, when it is back at this node, or when the call fails.
ExtendList(n) ==
    LET cur  == list[n][Len(list[n])]
        next == successor[cur]
        more == Append(list[n], next)
    IN  /\ pc[n] = "ulist"
        /\ IF cur = n \/ Len(list[n]) >= SUCCESSOR_LIST_SIZE
           THEN WriteList(n, list[n]) /\ UNCHANGED drops
           ELSE \/ /\ CallOk(cur)
                   /\ IF next = n THEN WriteList(n, list[n])
                      ELSE IF Len(more) = SUCCESSOR_LIST_SIZE
                      THEN WriteList(n, more)
                      ELSE /\ list' = [list EXCEPT ![n] = more]
                           /\ UNCHANGED <<successor_list, pc, peer, resp>>
                \/ CallErr(cur) /\ WriteList(n, list[n])
        /\ UNCHANGED <<status, successor, finger_table, lk,
                       predecessor, late, crashes>>

-----------------------------------------------------------------------------
(* fix_fingers and check_predecessor                                       *)

\* Draw a finger index and look up its target.
FixFingers(n, i) ==
    /\ pc[n] = "fix"
    /\ BeginLookup(n, n, add_id_power_of_2(n, i), i)
    /\ UNCHANGED <<ringPointers, ringVars>>

FixFingersDone(n) ==
    /\ status[n] = "up"
    /\ pc[n] = "done"
    /\ finger_table' = [finger_table EXCEPT ![n][lk[n].i] = resp[n]]
    /\ lk' = [lk EXCEPT ![n] = NoLookup(n)]
    /\ resp' = [resp EXCEPT ![n] = None]
    /\ Goto(n, "check")
    /\ UNCHANGED <<status, successor, successor_list, list, drops, ringVars>>

\* check_predecessor reads the predecessor ...
CheckPredecessor(n) ==
    /\ pc[n] = "check"
    /\ IF predecessor[n] = None
       THEN Goto(n, "idle") /\ UNCHANGED peer
       ELSE Goto(n, "ping_pred") /\ peer' = [peer EXCEPT ![n] = predecessor[n]]
    /\ UNCHANGED <<ringPointers, lk, list, resp, drops,
                   predecessor, late, crashes>>

\* ... pings it, and clears whatever the predecessor is by then.
PingPredecessor(n) ==
    /\ pc[n] = "ping_pred"
    /\ \/ CallOk(peer[n]) /\ UNCHANGED predecessor
       \/ /\ CallErr(peer[n])
          /\ predecessor' = [predecessor EXCEPT ![n] = None]
    /\ Goto(n, "idle")
    /\ peer' = [peer EXCEPT ![n] = n]
    /\ UNCHANGED <<ringPointers, lk, list, resp, late, crashes>>

-----------------------------------------------------------------------------
\* Error seeded for the runs: requests survive the process they were sent to.
CrashKeepsLate(n) ==
    /\ status[n] # "down"
    /\ crashes < MaxCrashes
    /\ crashes' = crashes + 1
    /\ status' = [status EXCEPT ![n] = "down"]
    /\ successor' = [successor EXCEPT ![n] = n]
    /\ predecessor' = [predecessor EXCEPT ![n] = None]
    /\ pc' = [pc EXCEPT ![n] = "off"]
    /\ UNCHANGED <<successor_list, finger_table, lk, list, resp, drops, peer,
                   late>>

(***************************************************************************)
(* A node stops, losing all its memory (nothing is persisted); lookups it  *)
(* was running for joiners fail.  It may start again with JoinCall.        *)
(***************************************************************************)
Crash(n) ==
    /\ status[n] # "down"
    /\ crashes < MaxCrashes
    /\ crashes' = crashes + 1
    /\ status' = [status EXCEPT ![n] = "down"]
    /\ successor' = [successor EXCEPT ![n] = n]
    /\ successor_list' = [successor_list EXCEPT
                             ![n] = [k \in 1 .. SUCCESSOR_LIST_SIZE |-> n]]
    /\ finger_table' = [finger_table EXCEPT ![n] = [i \in 0 .. M - 1 |-> n]]
    /\ predecessor' = [predecessor EXCEPT ![n] = None]
    /\ pc' = [p \in Nodes |->
                 IF p = n THEN "off"
                 ELSE IF pc[p] \in LookupPcs /\ lk[p].at = n THEN "lk_err"
                 ELSE pc[p]]
    /\ lk' = [lk EXCEPT ![n] = NoLookup(n)]
    /\ list' = [list EXCEPT ![n] = << >>]
    /\ resp' = [resp EXCEPT ![n] = None]
    /\ peer' = [peer EXCEPT ![n] = n]
    /\ late' = {m \in late : m[2] # n}
    /\ UNCHANGED drops

-----------------------------------------------------------------------------
\* The steps node n takes by itself once it has been started.
Task(n) ==
    \/ JoinDone(n) \/ JoinTransferred(n) \/ JoinFail(n)
    \/ StabilizeStart(n) \/ ClearPredecessor(n) \/ AskPredecessor(n)
    \/ Failover(n) \/ AdoptCloser(n) \/ NotifySuccessor(n) \/ ExtendList(n)
    \/ \E i \in FixIdx : FixFingers(n, i)
    \/ LookupStep(n) /\ UNCHANGED ringVars
    \/ FixFingersDone(n) \/ CheckPredecessor(n) \/ PingPredecessor(n)

\* What operators, networks and failures do.
Environment(n) ==
    \/ StartNewNetwork(n) \/ JoinCall(n) \/ Crash(n)
    \/ NotifyAttemptTimesOut(n)
    \/ \E t \in Nodes : LateNotify(n, t)

Next == \E n \in Nodes : Task(n) \/ Environment(n)

Spec == Init /\ [][Next]_vars

\* The runtime keeps running every task, and every remote call ends: it is
\* answered, refused or timed out.
Fairness == \A n \in Nodes : WF_vars(Task(n))

FairSpec == Spec /\ Fairness

-----------------------------------------------------------------------------
(* Safety, whatever fails.                                                 *)

\* A node that does not serve runs nothing but its join, has no successor but
\* the one its join gave it, and no Notify is on its way to it: a late Notify
\* cannot outlive the process it was sent to and put a node into the ring
\* before its own join did.
OfflineIsAlone ==
    /\ \A n \in Nodes :
          /\ status[n] = "down" => successor[n] = n /\ pc[n] = "off"
          /\ status[n] = "joining" =>
                /\ pc[n] \in {"done", "lk_err", "transfer"} \cup LookupPcs
                /\ successor[n] = n \/ pc[n] = "transfer"
    /\ \A m \in late : status[m[2]] = "up"

\* The successor list holds the node itself only while it is as new() made
\* it: failover cannot pick the node itself once a list was built.
ListWithoutSelf ==
    \A n \in Nodes :
        \/ \A k \in 1 .. SUCCESSOR_LIST_SIZE : successor_list[n][k] = n
        \/ \A k \in 1 .. SUCCESSOR_LIST_SIZE : successor_list[n][k] # n

\* Once a serving node has another node as successor it never falls back to
\* itself: stabilize, notify and failover all keep it in the ring.
NeverAloneAgain ==
    [][\A n \in Nodes :
          (successor[n] # n /\ status'[n] = "up") => successor'[n] # n]_vars

-----------------------------------------------------------------------------
(* Safety while nodes only join (MaxCrashes = 0, MaxDrops = 0).            *)

Joined == {n \in Live : n = Boot \/ successor[n] # n}

\* A node is not known to others before it serves: whatever a pointer, a
\* lookup or an answer of n leads to is up, so no call ever fails.
KnownIsUp(n) ==
    /\ successor[n] = n \/ status[successor[n]] = "up"
    /\ predecessor[n] = None \/ status[predecessor[n]] = "up"
    /\ \A i \in 0 .. M - 1 : \/ finger_table[n][i] = n
                             \/ status[finger_table[n][i]] = "up"
    /\ pc[n] \in LookupPcs =>
          status[lk[n].np] = "up" /\ status[lk[n].at] = "up"
    /\ pc[n] = "done" => status[resp[n]] = "up"
    /\ pc[n] = "adopt" => resp[n] = None \/ status[resp[n]] = "up"

\* Where the task of n can be, given how far n is; nothing fails over.
TaskFollowsStatus(n) ==
    /\ pc[n] \notin {"failover", "backup", "lk_err"}
    /\ status[n] = "down" => pc[n] = "off"
    /\ status[n] = "joining" => pc[n] \in LookupPcs \cup {"done", "transfer"}
    /\ status[n] # "up" => successor[n] = n \/ pc[n] = "transfer"
    /\ pc[n] = "transfer" => status[n] = "joining"

\* The successor stabilize works with is still n's successor when it is used,
\* although every await in between lets other tasks run.
SuccessorHeld(n) ==
    pc[n] \in {"ask_pred", "adopt", "notify"} =>
        peer[n] = successor[n] /\ successor[n] # n

\* No node learns of another too early, and stabilize never acts on a stale
\* successor: the inductive part of the argument about joins.
JoinInv ==
    /\ late = {}
    /\ \A n \in Nodes :
          KnownIsUp(n) /\ TaskFollowsStatus(n) /\ SuccessorHeld(n)

\* A predecessor pointer never lies ahead of the successor pointer it mirrors:
\* if m takes n for its predecessor, n's successor is m or a closer node.
PredBehindSucc ==
    \A n, m \in Nodes :
        predecessor[m] = n => is_between(successor[n], n, m)

\* successor pointers only move closer, once they left the node itself.
SuccessorOnlyCloser ==
    [][\A n \in Nodes :
          (successor[n] # n /\ successor'[n] # successor[n])
              => is_between(successor'[n], n, successor[n])]_vars

\* Sets of joined nodes that the successor pointers permute: unions of rings.
Rings == {S \in SUBSET Joined : S # {} /\ {successor[n] : n \in S} = S}

\* Joins and stabilization, in whatever order their steps interleave, keep
\* the joined nodes on one ring with its identifiers in clockwise order: the
\* network neither splits into two rings nor loops around twice.
OneOrderedRing ==
    Joined # {} =>
        \E S \in SUBSET Joined :
            /\ Rings = {S}
            /\ \A n, m \in S :
                  is_between(m, n, successor[n]) => m = successor[n]

-----------------------------------------------------------------------------
(* Liveness, under Fairness.                                               *)

\* The nodes of S form the ring Chord prescribes, with exact successor lists.
IdealRing(S) ==
    \A n \in S :
        /\ NextNode(S, n, successor[n])
        /\ predecessor[n] \in S \cup {None}
        /\ S # {n} => /\ predecessor[successor[n]] = n
                      /\ successor_list[n] = ExactList(n)

\* Once nobody joins any more, stabilization completes the ring: successors,
\* predecessors and successor lists become exact and stay so.
Converges == <>[]IdealRing(Joined)

\* The maintenance task never gets stuck inside a round, whatever fails.
RoundsEnd == \A n \in Nodes : []<>(status[n] = "up" => pc[n] = "idle")

\* "Nodes self-update and self-heal" (README.md): a serving node ends up with
\* a serving successor after any failure its successor list can cover.
SelfHeals == <>[](\A n \in Live : successor[n] \in Live)

=============================================================================
