------------------------------ MODULE Storage -------------------------------
(***************************************************************************)
(* The data layer of the DHT (node/src/node.rs, node/src/api.rs): where a  *)
(* message is stored and replicated, what join, notify and a dead          *)
(* predecessor move between nodes, and what a poll gets to see.            *)
(*                                                                         *)
(* The pointers of the ring are those of module Ring, moved by stabilize,  *)
(* notify and update_successor_list in larger steps and in any order; they *)
(* may name dead nodes.  Fingers are left open: wherever the code samples  *)
(* them, they are any nodes that ever served, and lookups may go astray.   *)
(* A mailbox, the vector of values under the key of a recipient, is the    *)
(* set of its messages: values are only ever appended, and a copy more of  *)
(* the same value tells nobody anything.                                   *)
(***************************************************************************)
EXTENDS IdSpace, FiniteSets

CONSTANTS
    Nodes,                \* identifiers of nodes
    Msgs,                 \* the messages that will be sent
    KeyOf,                \* KeyOf[m]: generate_key of the recipient of m
    VirtualNodes,         \* VirtualNodes[n]: the virtual nodes of n
    None,                 \* Option::None
    REPLICATION_FACTOR,   \* 3 in the code
    SUCCESSOR_LIST_SIZE,  \* 3 in the code
    LookupsStray,         \* TRUE: fingers may mislead a lookup
    Quotas                \* bounds: the nodes that form the ring at first, how many
                          \* messages are sent, and how many crashes, joins and
                          \* lost calls there are

ASSUME NodesAssumption    == Nodes \subseteq Ids /\ IsFiniteSet(Nodes)
ASSUME KeysAssumption     == KeyOf \in [Msgs -> Ids]
ASSUME VirtualAssumption  == VirtualNodes \in [Nodes -> SUBSET Ids]
ASSUME NoneAssumption     == None \notin Ids /\ None \notin Msgs
ASSUME BoundsAssumption   ==
    /\ REPLICATION_FACTOR \in Nat \ {0} /\ SUCCESSOR_LIST_SIZE \in Nat \ {0}
    /\ LookupsStray \in BOOLEAN
ASSUME QuotasAssumption   ==
    Quotas \subseteq [founders : (SUBSET Nodes) \ {{}}, sends : Nat, crashes : Nat,
                      joins : Nat, drops : Nat]
\* A full successor list has a node for every replica (both sizes are 3).
ASSUME ListAssumption     == REPLICATION_FACTOR <= SUCCESSOR_LIST_SIZE + 1

VARIABLES
    up,        \* the nodes that serve
    known,     \* history: the nodes that ever served
    succ,      \* succ[n]: the successor of n
    list,      \* list[n]: the nodes in the successor list of n
    pred,      \* pred[n], a node or None
    data,      \* data[n]: the messages n holds
    sent,      \* sent[m]: what became of m
    at,        \* at[m]: the node that is storing m
    todo,      \* todo[m]: the replicas it has still to call
    goal,      \* history: goal[m], the nodes that were meant to hold m
    xfer,      \* xfer[n]: the start of n, or the messages a predecessor n gets
    rec,       \* rec[n]: the reconciliation running at n
    quota,     \* the bounds of this behaviour
    crashes, joins, drops

vars == <<up, known, succ, list, pred, data, sent, at, todo, goal, xfer, rec,
          quota, crashes, joins, drops>>
members == <<up, known, succ, list, pred>>
sending == <<sent, at, todo, goal>>
budgets == <<quota, crashes, joins, drops>>

Xfer(pc, by, left) ==
    [pc |-> pc, by |-> by, left |-> left, cur |-> None, todo |-> {}]
NoXfer == Xfer("off", None, {})
NoRec  == [pc |-> "off", start |-> None, todo |-> {}]

TypeOK ==
    /\ known \subseteq Nodes /\ up \subseteq known
    /\ succ \in [Nodes -> Nodes]
    /\ list \in [Nodes -> SUBSET Nodes]
    /\ pred \in [Nodes -> Nodes \cup {None}]
    /\ data \in [Nodes -> SUBSET Msgs]
    /\ sent \in [Msgs -> {"new", "stored", "replicating", "acked", "failed"}]
    /\ at \in [Msgs -> Nodes \cup {None}]
    /\ todo \in [Msgs -> SUBSET Nodes]
    /\ goal \in [Msgs -> SUBSET Nodes]
    /\ xfer \in [Nodes -> [pc : {"off", "start", "join", "notify"},
                           by : Nodes \cup {None}, left : SUBSET Msgs,
                           cur : Msgs \cup {None}, todo : SUBSET Nodes]]
    /\ rec \in [Nodes -> [pc : {"off", "range", "ask"},
                          start : Nodes \cup {None}, todo : SUBSET Nodes]]
    /\ \A m \in Msgs : at[m] = None <=> sent[m] \notin {"stored", "replicating"}
    /\ \A n \in Nodes : /\ xfer[n].cur = None <=> xfer[n].todo = {}
                        /\ xfer[n].pc = "off" => xfer[n] = NoXfer
                        /\ rec[n].pc # "ask" => rec[n].todo = {}
    /\ quota \in Quotas
    /\ crashes \in 0 .. quota.crashes
    /\ joins \in 0 .. quota.joins
    /\ drops \in 0 .. quota.drops

-----------------------------------------------------------------------------
(* Calls and lookups                                                       *)

\* A call to t is answered, or it fails.
CallOk(t) == t \in up /\ UNCHANGED drops
CallErr(t) == \/ t \notin up /\ UNCHANGED drops
              \/ t \in up /\ drops < quota.drops /\ drops' = drops + 1

\* The processes that run but do not serve other nodes yet.
Starting == {n \in Nodes : xfer[n].pc \in {"start", "join"}}

\* find_successor(id) may answer r: the successor of a node that serves and
\* has id between itself and r, or is alone.  When a hop fails or fingers are
\* missing, the search ends early, at any successor or at a backup.
FindSuccessor(id, r) ==
    \/ \E p \in up : succ[p] = r /\ (is_between(id, p, r) \/ r = p)
    \/ /\ LookupsStray
       /\ \/ \E p \in up \cup {n \in Nodes : xfer[n].pc = "join"} : r = succ[p]
          \/ \E p \in up : r \in list[p] \cap up

\* The API of a node takes r for the node responsible for key: before its join
\* is answered, a node takes itself.
Responsible(key, r) == FindSuccessor(key, r) \/ xfer[r].pc = "start"

-----------------------------------------------------------------------------
(* Replicas of a key                                                       *)

\* find_successor_with_virtual_nodes(key) at n.
Primary(n, key, r) ==
    IF \/ \E v \in VirtualNodes[n] : is_between(key, n, v) \/ key = v
       \/ xfer[n].pc = "start"
    THEN r = n
    ELSE FindSuccessor(key, r)

\* The k smallest identifiers of S: candidates are sorted by identifier, and
\* then by loads n only knows of itself.
Smallest(S, k) == {s \in S : Cardinality({t \in S : t < s}) < k}

\* Error seeded for the runs: one replica too few.
ReplicaNodesFewer(n, key, R) ==
    \E p \in Nodes, F \in SUBSET known :
        /\ Primary(n, key, p)
        /\ R = ({p} \cup Smallest((list[n] \cup F) \ {n, p}, REPLICATION_FACTOR - 2))
                  \ {n}

\* get_replica_nodes(key) at n, without n itself, which every caller skips;
\* the fingers it samples are any nodes F.
ReplicaNodes(n, key, R) ==
    \E p \in Nodes, F \in SUBSET known :
        /\ Primary(n, key, p)
        /\ R = ({p} \cup Smallest((list[n] \cup F) \ {n, p}, REPLICATION_FACTOR - 1))
                  \ {n}

\* The messages of n with a key in (start, end], or end itself: get_data_range
\* and handle_request_replicas.
DataRange(n, start, end) ==
    {m \in data[n] : is_between(KeyOf[m], start, end) \/ KeyOf[m] = end}

-----------------------------------------------------------------------------
\* The first node of S after n.
After(S, n, s) == s \in S \ {n} /\ \A m \in S \ {n} : Distance(n, s) <= Distance(n, m)

\* The successor list of n on the ring S.
Successors(S, n) ==
    {s \in S \ {n} : Cardinality({m \in S \ {n} : Distance(n, m) < Distance(n, s)})
                        < SUCCESSOR_LIST_SIZE}

\* Founders have formed a ring; every other node is as ChordNode::new makes it.
Init ==
    /\ quota \in Quotas
    /\ up = quota.founders
    /\ known = up
    /\ succ \in [Nodes -> Nodes] /\ pred \in [Nodes -> Nodes \cup {None}]
    /\ \A n \in Nodes : IF n \in up /\ up # {n}
                        THEN /\ After(up, n, succ[n])
                             /\ pred[n] \in up /\ After(up, pred[n], n)
                        ELSE succ[n] = n /\ pred[n] = None
    /\ list = [n \in Nodes |-> IF n \in up /\ up # {n} THEN Successors(up, n) ELSE {n}]
    /\ data = [n \in Nodes |-> {}]
    /\ sent = [m \in Msgs |-> "new"]
    /\ at = [m \in Msgs |-> None]
    /\ todo = [m \in Msgs |-> {}]
    /\ goal = [m \in Msgs |-> {}]
    /\ xfer = [n \in Nodes |-> NoXfer]
    /\ rec = [n \in Nodes |-> NoRec]
    /\ crashes = 0 /\ joins = 0 /\ drops = 0

-----------------------------------------------------------------------------
(* Sending: message_handler, store, replicate_data                         *)

\* The API node looks up who is responsible and has it store the message; a
\* node that is starting stores it itself.
SendMessage(m) ==
    /\ sent[m] = "new"
    /\ Cardinality({x \in Msgs : sent[x] # "new"}) < quota.sends
    /\ \E r \in Nodes :
          /\ Responsible(KeyOf[m], r)
          /\ \/ /\ IF xfer[r].pc = "start" THEN UNCHANGED drops ELSE CallOk(r)
                /\ data' = [data EXCEPT ![r] = @ \cup {m}]
                /\ sent' = [sent EXCEPT ![m] = "stored"]
                /\ at' = [at EXCEPT ![m] = r]
             \/ /\ xfer[r].pc # "start" /\ CallErr(r)
                /\ sent' = [sent EXCEPT ![m] = "failed"]
                /\ UNCHANGED <<data, at>>
    /\ UNCHANGED <<members, todo, goal, xfer, rec, quota, crashes, joins>>

SelectReplicas(m) ==
    /\ sent[m] = "stored"
    /\ \E R \in SUBSET Nodes :
          /\ ReplicaNodes(at[m], KeyOf[m], R)
          /\ todo' = [todo EXCEPT ![m] = R]
          /\ goal' = [goal EXCEPT ![m] = R \cup {at[m]}]
    /\ sent' = [sent EXCEPT ![m] = "replicating"]
    /\ UNCHANGED <<members, data, at, xfer, rec, budgets>>

\* Error seeded for the runs: the first failure ends the replication.
ReplicateUntilError(m, t) ==
    /\ sent[m] = "replicating"
    /\ t \in todo[m]
    /\ \/ /\ CallOk(t)
          /\ todo' = [todo EXCEPT ![m] = @ \ {t}]
          /\ data' = [data EXCEPT ![t] = @ \cup {m}]
       \/ /\ CallErr(t)
          /\ todo' = [todo EXCEPT ![m] = {}]
          /\ UNCHANGED data
    /\ UNCHANGED <<members, sent, at, goal, xfer, rec, quota, crashes, joins>>

\* One replica is called, in whatever order; a failure is only logged.
Replicate(m, t) ==
    /\ sent[m] = "replicating"
    /\ t \in todo[m]
    /\ todo' = [todo EXCEPT ![m] = @ \ {t}]
    /\ \/ CallOk(t) /\ data' = [data EXCEPT ![t] = @ \cup {m}]
       \/ CallErr(t) /\ UNCHANGED data
    /\ UNCHANGED <<members, sent, at, goal, xfer, rec, quota, crashes, joins>>

\* Error seeded for the runs: replication goes on in the background.
AcknowledgeEarly(m) ==
    /\ sent[m] = "replicating"
    /\ sent' = [sent EXCEPT ![m] = "acked"]
    /\ at' = [at EXCEPT ![m] = None]
    /\ UNCHANGED <<members, data, todo, goal, xfer, rec, budgets>>

\* "message received"
Acknowledge(m) ==
    /\ sent[m] = "replicating"
    /\ todo[m] = {}
    /\ sent' = [sent EXCEPT ![m] = "acked"]
    /\ at' = [at EXCEPT ![m] = None]
    /\ UNCHANGED <<members, data, todo, goal, xfer, rec, budgets>>

-----------------------------------------------------------------------------
(* What join and notify move                                               *)

\* A process starts: its API serves, other nodes cannot call it yet.
Start(n) ==
    /\ n \notin up
    /\ xfer[n].pc = "off"
    /\ joins < quota.joins
    /\ joins' = joins + 1
    /\ xfer' = [xfer EXCEPT ![n] = Xfer("start", n, {})]
    /\ UNCHANGED <<members, data, sending, rec, quota, crashes, drops>>

\* Bootstrap node b names a successor s, which is asked for the keys in (n, s].
Join(n, b, s) ==
    /\ xfer[n].pc = "start"
    /\ b \in up
    /\ FindSuccessor(n, s) /\ s # n
    /\ succ' = [succ EXCEPT ![n] = s]
    /\ \/ CallOk(s) /\ xfer' = [xfer EXCEPT ![n] = Xfer("join", n, DataRange(s, n, s))]
       \/ CallErr(s) /\ xfer' = [xfer EXCEPT ![n] = Xfer("join", n, {})]
    /\ UNCHANGED <<up, known, list, pred, data, sending, rec, quota, crashes, joins>>

\* The bootstrap node cannot be reached or names n itself: n serves, alone.
JoinFails(n, b) ==
    /\ xfer[n].pc = "start"
    /\ b # n
    /\ \/ CallErr(b)
       \/ CallOk(b) /\ FindSuccessor(n, n)
    /\ xfer' = [xfer EXCEPT ![n] = NoXfer]
    /\ up' = up \cup {n}
    /\ known' = known \cup {n}
    /\ UNCHANGED <<succ, list, pred, data, sending, rec, quota, crashes, joins>>

\* notify at s: n becomes its predecessor, also its successor if s was alone,
\* and is sent the keys in (n, s].
Notify(n, s) ==
    /\ n \in up /\ s \in up
    /\ succ[n] = s /\ s # n
    /\ pred[s] # None => is_between(n, pred[s], s)
    /\ xfer[n].pc = "off"
    /\ pred' = [pred EXCEPT ![s] = n]
    /\ succ' = [succ EXCEPT ![s] = IF @ = s THEN n ELSE @]
    /\ xfer' = [xfer EXCEPT ![n] = Xfer("notify", s, DataRange(s, n, s))]
    /\ UNCHANGED <<up, known, list, data, sending, rec, budgets>>

\* The next message is stored at n: by n itself, or by a Store call to it.
TransferStore(n, m) ==
    /\ xfer[n].cur = None
    /\ m \in xfer[n].left
    /\ \/ /\ IF xfer[n].by = n THEN UNCHANGED drops ELSE CallOk(n)
          /\ data' = [data EXCEPT ![n] = @ \cup {m}]
          /\ \E R \in SUBSET Nodes :
                /\ ReplicaNodes(n, KeyOf[m], R)
                /\ xfer' = [xfer EXCEPT ![n].left = @ \ {m}, ![n].todo = R,
                                        ![n].cur = IF R = {} THEN None ELSE m]
       \/ /\ xfer[n].by # n
          /\ CallErr(n)
          /\ xfer' = [xfer EXCEPT ![n].left = @ \ {m}]
          /\ UNCHANGED data
    /\ UNCHANGED <<members, sending, rec, quota, crashes, joins>>

\* Error seeded for the runs: only the first replica gets the message.
TransferReplicateOnce(n, t) ==
    /\ t \in xfer[n].todo
    /\ xfer' = [xfer EXCEPT ![n].todo = @ \ {t}, ![n].cur = None]
    /\ CallOk(t) /\ data' = [data EXCEPT ![t] = @ \cup {xfer[n].cur}]
    /\ UNCHANGED <<members, sending, rec, quota, crashes, joins>>

\* n replicates the message it was given.
TransferReplicate(n, t) ==
    /\ t \in xfer[n].todo
    /\ xfer' = [xfer EXCEPT ![n].todo = @ \ {t},
                            ![n].cur = IF xfer[n].todo = {t} THEN None ELSE @]
    /\ \/ CallOk(t) /\ data' = [data EXCEPT ![t] = @ \cup {xfer[n].cur}]
       \/ CallErr(t) /\ UNCHANGED data
    /\ UNCHANGED <<members, sending, rec, quota, crashes, joins>>

\* Every message was moved: a joiner now serves.
TransferDone(n) ==
    /\ xfer[n].pc \in {"join", "notify"}
    /\ xfer[n].left = {} /\ xfer[n].todo = {}
    /\ xfer' = [xfer EXCEPT ![n] = NoXfer]
    /\ LET served == IF xfer[n].pc = "join" THEN {n} ELSE {}
       IN  up' = up \cup served /\ known' = known \cup served
    /\ UNCHANGED <<succ, list, pred, data, sending, rec, budgets>>

-----------------------------------------------------------------------------
(* What a dead predecessor sets off: check_predecessor and reconciliation  *)

\* The predecessor does not answer a ping and is cleared.
CheckPredecessor(n) ==
    /\ n \in up
    /\ pred[n] # None
    /\ rec[n].pc = "off"
    /\ CallErr(pred[n])
    /\ pred' = [pred EXCEPT ![n] = None]
    /\ rec' = [rec EXCEPT ![n] = [pc |-> "range", start |-> pred[n], todo |-> {}]]
    /\ UNCHANGED <<up, known, succ, list, data, sending, xfer, quota, crashes, joins>>

\* get_replica_nodes_for_range at n, which does not look at the range, with
\* the fingers F in its sample.
RangeNodes(n, F) == (list[n] \cup F) \ {n}

\* The range to recover ends at n and starts at the predecessor, which a
\* Notify may have named again by now, or else at the one that died.
ReconcileRange(n) ==
    /\ rec[n].pc = "range"
    /\ \E F \in SUBSET known :
       rec' = [rec EXCEPT ![n] =
                  [pc |-> "ask", todo |-> RangeNodes(n, F),
                   start |-> IF pred[n] # None THEN pred[n] ELSE @.start]]
    /\ UNCHANGED <<members, data, sending, xfer, budgets>>

\* RequestReplicas at t; the nodes are sorted.
ReconcileAsk(n, t) ==
    /\ rec[n].pc = "ask"
    /\ t \in rec[n].todo /\ \A u \in rec[n].todo : t <= u
    /\ rec' = [rec EXCEPT ![n].todo = @ \ {t}]
    /\ \/ /\ CallOk(t)
          /\ data' = [data EXCEPT ![n] = @ \cup DataRange(t, rec[n].start, n)]
       \/ CallErr(t) /\ UNCHANGED data
    /\ UNCHANGED <<members, sending, xfer, quota, crashes, joins>>

ReconcileDone(n) ==
    /\ rec[n].pc = "ask"
    /\ rec[n].todo = {}
    /\ rec' = [rec EXCEPT ![n] = NoRec]
    /\ UNCHANGED <<members, data, sending, xfer, budgets>>

-----------------------------------------------------------------------------
(* What stabilize does meanwhile                                           *)

\* The successor names a predecessor that is closer, alive or not.
Adopt(n) ==
    /\ n \in up
    /\ succ[n] \in up \ {n}
    /\ pred[succ[n]] # None
    /\ is_between(pred[succ[n]], n, succ[n]) /\ pred[succ[n]] # succ[n]
    /\ succ' = [succ EXCEPT ![n] = pred[succ[n]]]
    /\ UNCHANGED <<up, known, list, pred, data, sending, xfer, rec, budgets>>

\* The successor does not answer, and a node c of the list does.  (When none
\* does, the node keeps the successor it has: nothing changes.)
Failover(n, c) ==
    /\ n \in up
    /\ succ[n] # n /\ CallErr(succ[n])
    /\ c \in list[n] \ {n} /\ c \in up /\ c # succ[n]
    /\ succ' = [succ EXCEPT ![n] = c]
    /\ UNCHANGED <<up, known, list, pred, data, sending, xfer, rec, quota, crashes, joins>>

\* update_successor_list follows the successors c[1], c[2], ... and ends at n
\* itself, or at the first node that does not answer: whatever the list held
\* before is forgotten.
UpdateSuccessorList(n) ==
    /\ n \in up
    /\ \E k \in 1 .. SUCCESSOR_LIST_SIZE : \E c \in [1 .. k -> Nodes] :
          /\ c[1] = succ[n]
          /\ \A i \in 1 .. k - 1 : /\ c[i] \in up \ {n}
                                   /\ c[i + 1] = succ[c[i]] /\ c[i + 1] # n
          /\ \/ k = SUCCESSOR_LIST_SIZE /\ UNCHANGED drops
             \/ k < SUCCESSOR_LIST_SIZE /\ c[k] = n /\ UNCHANGED drops
             \/ k < SUCCESSOR_LIST_SIZE /\ succ[c[k]] = n /\ CallOk(c[k])
             \/ k < SUCCESSOR_LIST_SIZE /\ c[k] # n /\ CallErr(c[k])
          /\ list' = [list EXCEPT ![n] = {c[i] : i \in 1 .. k}]
    /\ UNCHANGED <<up, known, succ, pred, data, sending, xfer, rec, quota, crashes, joins>>

\* A process stops: its data and everything it was doing is gone.
Crash(n) ==
    /\ n \in up \cup Starting
    /\ crashes < quota.crashes
    /\ crashes' = crashes + 1
    /\ up' = up \ {n}
    /\ succ' = [succ EXCEPT ![n] = n]
    /\ list' = [list EXCEPT ![n] = {n}]
    /\ pred' = [pred EXCEPT ![n] = None]
    /\ data' = [data EXCEPT ![n] = {}]
    /\ sent' = [m \in Msgs |-> IF at[m] = n THEN "failed" ELSE sent[m]]
    /\ at' = [m \in Msgs |-> IF at[m] = n THEN None ELSE at[m]]
    /\ todo' = [m \in Msgs |-> IF at[m] = n THEN {} ELSE todo[m]]
    /\ xfer' = [x \in Nodes |->
                   IF xfer[x].by = n /\ x = n THEN NoXfer
                   ELSE IF xfer[x].by = n THEN [xfer[x] EXCEPT !.left = {}]
                   ELSE IF x = n THEN [xfer[x] EXCEPT !.cur = None, !.todo = {}]
                   ELSE xfer[x]]
    /\ rec' = [rec EXCEPT ![n] = NoRec]
    /\ UNCHANGED <<known, goal, quota, joins, drops>>

Next ==
    \/ \E m \in Msgs : \/ SendMessage(m) \/ SelectReplicas(m) \/ Acknowledge(m)
                       \/ \E t \in Nodes : Replicate(m, t)
    \/ \E n \in Nodes : \/ Start(n) \/ TransferDone(n)
                        \/ CheckPredecessor(n) \/ ReconcileRange(n)
                        \/ ReconcileDone(n)
                        \/ Adopt(n) \/ UpdateSuccessorList(n) \/ Crash(n)
                        \/ \E m \in Msgs : TransferStore(n, m)
                        \/ \E t \in Nodes : \/ JoinFails(n, t)
                                            \/ TransferReplicate(n, t)
                                            \/ ReconcileAsk(n, t)
                                            \/ Notify(n, t) \/ Failover(n, t)
                                            \/ \E s \in Nodes : Join(n, t, s)

Spec == Init /\ [][Next]_vars

-----------------------------------------------------------------------------
(* Polling: poll_handler, retrieve, retrieve_from_replicas                 *)

Mailbox(n, key) == {m \in data[n] : KeyOf[m] = key}

\* retrieve(key) at r, while calls to the nodes in failed fail, may give S.  A
\* node without an entry asks its replicas.  Those without one ask theirs, and
\* either find what somebody holds or run into timeouts.
Retrieve(r, key, failed, S) ==
    IF Mailbox(r, key) # {}
    THEN S = Mailbox(r, key)
    ELSE \E R \in SUBSET Nodes :
            /\ ReplicaNodes(r, key, R)
            /\ LET asked == R \cap (up \ failed)
                   found == {t \in asked : Mailbox(t, key) # {}}
               IN  \/ found = {} /\ S = {}
                   \/ asked # {} /\ \E t \in up \ failed :
                         Mailbox(t, key) # {} /\ S = Mailbox(t, key)

\* Error seeded for the runs: only the responsible node is asked.
PollAnswersLocal(key, r, failed, S) ==
    Responsible(key, r) /\ S = Mailbox(r, key)

\* A poll for key that takes r for responsible may answer with S; a Retrieve
\* that fails is answered with no messages.
PollAnswers(key, r, failed, S) ==
    /\ Responsible(key, r)
    /\ \/ r \in up \cup Starting /\ Retrieve(r, key, failed, S)
       \/ r \notin up \ failed /\ S = {}

-----------------------------------------------------------------------------

Acked == {m \in Msgs : sent[m] = "acked"}

Holders(m) == {n \in Nodes : m \in data[n]}

\* Maintenance has caught up with joins and crashes.
Settled ==
    /\ Starting = {}
    /\ \A n \in up : /\ IF up = {n} THEN succ[n] = n ELSE After(up, n, succ[n])
                     /\ Successors(up, n) \subseteq list[n]

\* An acknowledged message is held by somebody as long as there were fewer
\* crashes and lost calls than nodes it was meant for, wherever in the
\* replication of this or another message they come, and whoever joins.
AckedSurvives ==
    \A m \in Acked : crashes + drops < Cardinality(goal[m]) => Holders(m) # {}

\* While nobody joins, a single crash or lost call loses no acknowledged
\* message of a ring of several nodes, whatever it does to successor lists.
SurvivesOneFault ==
    (joins = 0 /\ crashes + drops <= 1 /\ Cardinality(known) > 1
        /\ REPLICATION_FACTOR > 1) => \A m \in Acked : Holders(m) # {}

\* Until something fails or joins, every message goes to REPLICATION_FACTOR
\* nodes, or to all there are.
EnoughReplicas ==
    crashes + drops + joins = 0 =>
        \A m \in Acked : \/ Cardinality(goal[m]) >= REPLICATION_FACTOR
                         \/ Cardinality(goal[m]) >= Cardinality(known)

\* In a ring that never had more nodes than a message has replicas, and once
\* maintenance has caught up: a poll does not find the mailbox of a message
\* empty, unless calls to the responsible node or to every holder fail.
MailboxFound ==
    (Settled /\ Cardinality(known) <= REPLICATION_FACTOR) =>
        \A m \in Acked : \A r \in Nodes, failed \in SUBSET Nodes :
            (r \notin failed /\ Holders(m) \ failed # {}) =>
                ~PollAnswers(KeyOf[m], r, failed, {})

\* While nodes only crash, a poll shows every acknowledged message that was
\* meant for every node that still serves, newer messages or not.  (After a
\* lost call, or a join, a newer entry at the responsible node hides what it
\* did not get.)
PollComplete ==
    (joins = 0 /\ drops = 0) =>
        \A m \in Acked : up \subseteq goal[m] =>
            \A r \in up, S \in SUBSET Msgs :
                PollAnswers(KeyOf[m], r, {}, S) => m \in S

\* "Number of replicas for each data item" (REPLICATION_FACTOR): every crash
\* and every lost call costs a message at most one of its copies.
ReplicasForEach ==
    joins = 0 =>
        \A m \in Acked :
            LET copies == Cardinality(Holders(m)) + crashes + drops
            IN  copies >= REPLICATION_FACTOR \/ copies >= Cardinality(known)

\* "Request data from successor that should belong to us" (join): a node that
\* took its place in the ring and got its data holds the messages it is
\* responsible for.
JoinBringsOwn ==
    (Settled /\ crashes = 0 /\ drops = 0) =>
        \A m \in Acked, n \in up :
            (FindSuccessor(KeyOf[m], n) /\ xfer[n].pc = "off") => m \in data[n]

=============================================================================
