# Verification of tace.chat

TLA+ models of the nodes and of the chat page of tace.chat, the TLC runs that check them on small
instances, and TLAPS proofs of the properties that matter most. Line numbers
refer to the source files as they are in the repository.

Contents: [the system](#the-system) · [modules](#modules) · [runs](#runs) ·
[what disagrees with the documentation](#disagreements) · [proofs](#proofs) ·
[only model-checked](#only-model-checked) · [not modelled](#not-modelled) ·
[plan](#plan)

## The system

A browser client encrypts a message and posts it to the HTTP API of any node. The
nodes form a Chord ring: a message is stored under the SHA-1 of its
recipient's public key, at the node that follows this key on the circle of
160-bit identifiers, and is replicated to other nodes. The recipient polls any
node, which looks up who is responsible and asks it for the mailbox.

| Component | State | Operations | Talks to |
|---|---|---|---|
| Identifier space (`lib/src/lib.rs`) | none | `is_between`, `add_id_power_of_2` | used by everything below |
| Lookup (`node/src/node.rs`) | locals of a running lookup | `find_successor`, `find_predecessor`, `closest_preceding_node`, `find_next_available_successor` | other nodes, one call per hop |
| Ring maintenance (`node.rs`, loop in `main.rs`) | `successor`, `successor_list`, `predecessor`, `finger_table` | `join`, `start_new_network`, `stabilize`, `notify`, `update_successor_list`, `fix_fingers`, `check_predecessor` | lookup; other nodes' handlers |
| Data layer (`node.rs`) | `data`, a map from key to a vector of values | `store`, `replicate_data`, `retrieve`, `get_data_range`, the transfers in `join` and `notify`, `reconcile_data_after_predecessor_failure` | lookup, successor list, fingers, other nodes |
| HTTP API (`node/src/api.rs`) | outstanding challenges | `/ping`, `/connect`, `/challenge`, `/message`, `/poll`, `/metrics` | lookup, data layer |
| Network client (`node/src/network_client.rs`) | connection counts per host, behind an asynchronous mutex | `call_node` with three attempts and timeouts | carries every call between nodes |
| Node process and server (`main.rs`, `start`, `handle_connection`, `shutdown`) | `active_connections`, `shutdown_signal`, tasks | accept, serve, stabilization loop, signal, exit | dispatches every handler |
| Metrics gossip (`node.rs`, `lib/src/metrics.rs`) | smoothed network averages | `share_and_update_metrics`, `handle_share_metrics` | successor |
| Load balancing (`node.rs`) | `node_loads` | `check_and_rebalance`, `rebalance_data`, `migrate_key_to_node` | data layer |
| Collector (`collector/`) | a SQLite table | fetch and insert, read | API of a node |
| Web client (`webclient/public/main.js`) | keys, contacts, messages (persisted); node, draft, active contact, `isPolling` | `initWasmAndApp`, `apiRequest`, `fetchNewNode`, `pollMessages`, `sendMessage`, `addContact`, `selectContact`, `decryptMessage`, metrics dialog | HTTP API, collector |
| Cryptography (`lib/src/keys.rs`, `webclient/src/lib.rs`) | none | sign, verify, encrypt, decrypt | — |

What is hard here:

* **Concurrency.** Every handler is a task of a multi-threaded runtime. Ring
  pointers are read in one lock scope, a remote call is awaited, and a pointer
  is written in another scope: everything may have changed in between.
* **Failure.** Nodes crash and come back with nothing but their address, calls
  fail, and a call that timed out at its caller may still be executed later.
* **Ordering.** Joins, notifications, transfers and the reconciliation after a
  crash overlap, and each decides from what it read which range of keys moves.
* **Resources.** Connection counters are kept by guards on many exit paths, one
  of them in a task that gives up when it does not get a mutex.
* **The page.** Sends, polls and the start of the page interleave at every
  `await`; a request is retried at another node although the first one may have
  been executed; a reload forgets all but what is persisted.
* **Liveness.** Stabilization has to converge, rounds and calls have to end,
  a signal has to end the process, and the page has to go on polling.

What makes each component correct: an interval test that is right across zero;
lookups that advance and find the responsible node; one ordered ring that
converges; limits that hold and counters that are exact; calls that return; a
signal that ends the process; acknowledged messages that survive and are
found; incoming messages that are shown, once, under the right contact, and
sent ones that were stored when the page says so. `PROJECT.json` lists the hazards line by line, with the properties aimed
at each.

## Modules

| Module | Models | Extended by |
|---|---|---|
| `IdSpace` | identifiers, intervals, finger targets; `Distance` is the reference definition | `Lookup`, `Storage` |
| `Lookup` | the iterative lookup, one step per remote call | `Ring`, `Routing` |
| `Ring` | ring maintenance of all nodes, with crashes, restarts, failing and late calls | `MCRing`, `Ring_proofs` |
| `Routing` | lookups and finger refreshes over a ring with exact successors | `MCRouting`, `Routing_proofs` |
| `Storage` | messages, replicas, transfers, reconciliation, polls | `MCStorage`, `Storage_proofs` |
| `Client` | the network client of one node and its limiter | `MCClient`, `Client_proofs` |
| `Server` | the life of one node process | `MCServer`, `Server_proofs` |
| `Api` | the HTTP API as one browser meets it: challenges, its mailbox, what it sent | `WebClient` |
| `WebClient` | the chat page in one tab, composed with `Api` | `MCWeb`, `WebClient_proofs` |
| `Inbox` | abstract specification: what the page promises about incoming messages | refined by `WebClient` (`InboxSpec`) |
| `MetricsPanel` | the metrics dialog of the page | `MCPanel`, `MetricsPanel_proofs` |

The theorems are in `Lookup_proofs` (with those about identifiers),
`Ring_proofs`, `Routing_proofs`, `Storage_proofs`, `Client_proofs`,
`Server_proofs`, `WebClient_proofs` and `MetricsPanel_proofs`, the instances in
the `MC*` modules and the `.cfg` files.

Definitions whose comment begins with "Error seeded for the runs" are wrong on
purpose and used by nothing: each is a plausible slip in the definition that
follows it, and shows that a property of the run notices it.

### Lookup, Ring and Routing

A node is its identifier: the code derives it from the address by SHA-1, and two
equal hashes are not considered. `pc[n]` is the place of n's maintenance task in
the loop of `main.rs`: stabilize (`clear_pred`, `ask_pred`, `failover`, `adopt`,
`notify`), `update_successor_list` (`ulist`), `fix_fingers` (`fix` and the
lookup states), `check_predecessor` (`check`, `ping_pred`). A step of the model
is what happens between two awaits, or between two lock scopes. A handler runs
inside the step of its caller, because each of the handlers involved
(`GetPredecessor`, `GetSuccessor`, `ClosestPrecedingNode`, `Notify`, `Ping`)
touches the ring pointers in a single lock scope. The exception is a call that
times out at the caller and is executed afterwards; for `Notify`, the only one
that writes, this is `NotifyAttemptTimesOut` and `LateNotify` (`late` holds the
requests still on their way). A crash forgets everything; a restart is a join.

`FindSuccessor` is called remotely only by a joining node: its lookup then runs
at the bootstrap node (`lk[n].at`), and a crash of that node ends it.

`Routing` starts where `Ring` converges to: exact successors, and finger tables
with any mixture of entries that a smaller ring could have put there. One finger
of every node is taken to be its successor. Without one a lookup can stop
early, since `find_predecessor` moves by fingers alone.

`GoUp` makes a node serve and lets its maintenance begin in one step. In `main.rs`
the maintenance task is spawned a moment before the server binds its port. A call that
comes in between is refused and tried again after a pause by `call_node`, so that
it is answered all the same, unless binding takes longer than three attempts. That
would be one more failing call, of which `ring_faults` has some.

Left out of these modules: data, metrics and loads, none of which writes a ring
pointer.

### Client and Server

`Client` is `call_node` of one node: `lock`, `check` (the limiter under its
mutex), `open`, `backoff`. A closed connection leaves a task behind
(`pending`) that tries the mutex once. The age of a limiter entry counts
cleanup intervals and stops at two, the last threshold the code compares with.

`Server` has the accept loop, one state machine per connection, the
stabilization loop, the signal task and `main`. `after` counts the connections
accepted since the signal; it is a history variable that no guard reads. A
connection over the limit is counted until its guard goes (`over`), exactly as in
the code, so the counter may exceed the limit while `Served` does not.

### Storage

`Storage` has the pointers of `Ring` again (`succ`, `list`, `pred`), moved in larger
steps: `Adopt` and `Failover` are what `stabilize` does to the successor,
`UpdateSuccessorList` a whole walk along successors, `Notify` the handler
with the transfer it starts. They happen in any order and as late as they like,
so pointers may name dead nodes for any time. As in the code, a walk that meets a node that
does not answer ends there and *replaces* the list: live backups are forgotten, and
a list may be left with nothing but a dead successor. When failover finds nobody, the node
keeps the successor it has.

Fingers are left open. Wherever the code samples some of them
(every third in `get_replica_nodes`, every fourth in
`get_replica_nodes_for_range`), the sample is any set of nodes that ever served, the
empty one included. With `LookupsStray` a lookup may also end at any successor or live
backup, which is what failing hops and missing fingers can do to it; the two
violation runs set it to FALSE, so that what they show does not depend on it.

`Start` is a process whose API serves while `join` is still waiting: it takes itself
for responsible, stores, acknowledges and answers polls. `Join` and `JoinFails` are the
ways out, and only after the transfer do other nodes reach it (`up`). `known` (the
nodes that ever served) and `goal` (the nodes a message was meant for when its
replication began) are history that no guard reads, except that samples of fingers
come from `known`.

A mailbox is the set of its messages: values are only ever
appended, so a second copy of a value (a retried `Store` makes one) changes
nothing that is asked here. The calls of a store, of a transfer and of a
reconciliation are one step each, and a node may crash between any two.
`UpdateSuccessorList` is one step; that its calls interleave with others
is the subject of `Ring`.

`get_replica_nodes` sorts its candidates by load with a stable sort after
sorting them by identifier. A node only ever records its own load and leaves
itself out, so every candidate has the default load and the order is that of
the identifiers (`Smallest`). The primary is the node itself as soon as one of
its virtual nodes claims the key (`Primary`); the model takes the virtual nodes
as a constant.

A poll is an operator: `PollAnswers(key, r, failed, S)` says that a poll made now, which
takes r for responsible and whose calls to the nodes in `failed` fail, may answer S. A
`Retrieve` that fails is answered with no messages, as `poll_handler` does. A
node without an entry asks its replicas, which do the same: the recursion
either finds what some node holds or, when no replica asked has an entry, may run
into its timeouts and find nothing.

One transfer per receiving node runs at a time, and one reconciliation per node;
replicas of one message are called in any order, where the code has one.

### Api, WebClient and Inbox

JavaScript runs one callback at a time, so a step of the page is the code between
two awaits. A *flow* is a chain of such steps: the start of the page (`"init"`),
the poll (`"poll"`; `isPolling` keeps it to one) and one per send that has not
ended, for nothing keeps the user from pressing Enter again. `req[f]` is the
`apiRequest` a flow waits for: `sent`, then `answered`, `rejected` (4xx) or
`failed`, and with a retry left `switching` (`fetchNewNode`) and `sent` again,
to the node of that moment. `Serve` is the handler at that node and `Fail` loses
the request, or its answer after the handler has run.

`Api` holds what matters of the nodes to one browser. Of all challenges only the
nonce the page holds counts, and whether a node still knows it (`challenge`): a
node forgets it when it accepts it, issues another one for the same key, restarts
or finds it expired. A mailbox is the sequence of what was stored; how the
DHT keeps it is the subject of `Storage`, and its failures appear as an empty
answer and as letters stored twice (`PeerRetries`).

A contact is its public key, and its id its place in the list, since contacts are
only appended. A message knows whose key it was encrypted with (`peer`), which the
code does not record for sent messages; `DecryptContact` is the contact
`decryptMessage` picks, and `RightKey` compares the two. The `forEach` over the
answer of a poll is given by what it leaves behind: at which positions of the
answer a sender becomes a contact (`Introductions`) and which are pushed to a
conversation (`Pushed`). `NewContacts` and `NewMessages` take them in the order
of the answer (`InOrder`).

`Reload` keeps `keys`, `contacts`, `messages` and the accepted terms, the things
`$persist` writes, and forgets the rest. `reads`, `calm`, `pressed` and `switched`
are history that no guard depends on, except the bound in `TypeDraft`.

`Inbox` knows neither page nor poll: letters, told apart by sender and second
as the page does, arrive; each is shown at some time and never twice. The
refinement maps `mail` to the letters of the mailbox that can be shown (those
that decrypt, or whose sender is a contact) and `shown` to how often one
is on display. `Safety` of `Inbox` says what may happen and is proved of the
page; `AllShown`, that every letter is shown at last, is checked.

### MetricsPanel

Opening the dialog fetches the collector's metrics on the next tick and draws them;
closing destroys the chart. Nothing cancels a fetch, so several may be under way
and answer in any order. A chart is the number of its fetch. That Chart.js
refuses a canvas in use ("Canvas is already in use" in `chart.js`) is part of the
model: the constructor throws
before `metricsChart` is assigned.

## Runs

| Run | Instance | Distinct states | Shows |
|---|---|---|---|
| `ring_join` | 3 nodes join, list of 2, fair | 372,000 | safety of joins and `Converges` |
| `ring_faults` | 2 nodes, 2 crashes, 2 failing or late calls, fair | 133,000 | safety under faults and `RoundsEnd` |
| `routing` | 4 nodes, 2 concurrent callers, any stale fingers, 1 failing call | 105,000 | lookups advance and answer right |
| `client` | 2 tasks, 2 hosts, limit 1, fair | 41,700 | limit, exact coverage, every call returns |
| `server` | 3 connections, limit 1, fair | 33,700 | counter, limit, shutdown |
| `storage` | 2 or 3 nodes; 2 messages, or one with 2 crashes or with a joining node and a crash or lost call | 473,000 | how many copies are made, that they survive and that polls find them |
| `web` | 1 page, 2 nodes, 2 peers, 2 overlapping sends, 2 seconds, fair | 137,000 | the page implements `Inbox`; sending, keys, challenges |
| `panel` | 3 openings, fair | 297 | one chart, and a dialog that stays open gets it |
| `ring_heal`, `client_leak`, `storage_copies`, `storage_handover` | see below | — | four statements of the repository that the code does not keep |

**`ring_join`.** `JoinInv`: nobody points to, or waits for, a node that does not
serve yet, and the successor `stabilize` works with is still the successor when
it is used. `PredBehindSucc`: if m takes n for its predecessor, n's successor is
m or closer. `OneOrderedRing`: the nodes that have joined contain exactly one
cycle of successor pointers, in clockwise order; the ring neither splits nor
loops twice. `SuccessorOnlyCloser`: no step undoes progress. `Converges`: when
joining is over, successors, predecessors and successor lists become exact and
stay so.

**`ring_faults`.** `OfflineIsAlone`: no late `Notify` puts a node into the ring
before its own join does. `ListWithoutSelf`: failover cannot pick the node
itself once a list was built. `NeverAloneAgain`: a serving node with a successor
never falls back to being alone. `RoundsEnd`: every round of maintenance ends,
whatever fails. Two nodes suffice for these: all are about one node and what
one other does to it.

**`routing`.** `HopsAdvance`: every hop gets strictly closer and does not pass the
target. `LookupCorrect`: without a failed call, and short of the hop limit,
the answer is the responsible node; for the identifier of a node, that node or
the one after it. `SuccessorFingerKept`: refreshing fingers
never loses the one each node needs to leave itself, whichever calls fail. The fingers range over all
stale tables of four nodes, so the bound is on the number of nodes, not on how
the tables came about.

**`client`.** `CountCovers`: the count is never below the connections it stands
for, although decrements come late, get lost, or find their entry cleaned up and
made anew. `LimitHolds`, `CallsReturn`. A limit of one makes two tasks
compete; both cleanup thresholds are reached.

**`server`.** `CounterExact` on every path through `handle_connection`;
`WithinLimit`; `OneAfterSignal`: a loop waiting in `accept` takes one more
connection and never a second; `SignalEnds`. Deadlock is not checked here,
because a process that has exited stops.

**`storage`.** `AckedSurvives`: an acknowledged message is held by somebody as long as
there were fewer crashes and lost calls than nodes it was meant for, at
whatever step of this or another message they come. What it was meant for is a
separate question: `EnoughReplicas` says `REPLICATION_FACTOR` nodes, or all there are,
until something fails or joins. After a fault it may be fewer (`storage_copies`
below), but not one: by `SurvivesOneFault` a single fault loses nothing in a ring
of several nodes that nobody joins. `PollComplete`: while nodes only crash, a poll shows every
acknowledged message that was meant for all nodes that still serve, although
the responsible node answers from its own entry alone. With a lost call or a join this
is not so, and nothing claims it. The replication factor and the list size are those of
the code (3), and two crashes are the most that leave one of three nodes.
`MailboxFound`: once the ring has settled, a poll does
not find the mailbox of an acknowledged message empty, whoever is responsible by now,
unless calls to the responsible node or to every holder fail (that answer,
200 with an empty list, is in the model); this is what the
recursive retrieve is worth, for a joiner does not hold its messages (see below).
The message may be sent to the node that is still starting.

`Quotas` lists what a behaviour starts from and how much happens in it; `MCQuotas` has two messages without a
fault in a ring of three and with two crashes in a ring of two, one message with
two crashes in a ring of three, and one message while a node joins two
others and a node crashes or a call is lost. That they are enough to go wrong in, the mutants show;
for other bounds there are the proofs. Deadlock is not checked: the messages and the faults are used up.

**`web`.** `ShownOnce`: what a sender sent in one second is on display at most
once, although every poll brings the whole mailbox, senders retry, contacts may
be listed twice and pages are loaded again. `RightKey`: every message is
decrypted with the key it was encrypted with, unless another contact was
selected while a send was under way; without that condition it fails, because
`sendMessage` files the message under the contact that is active when the answer
arrives. `RecordedWasStored`: the page never says "sent" of what no node took.
`CopiesPerPress`: for one press nodes take the message at most twice, and once when
nothing fails.
`ReadOnce`: a challenge opens the mailbox once, also when the poll is retried
after a lost answer. `PollEnds`: a poll
ends on every path. `ImplementsInbox`: safety and liveness of `Inbox`, hence
that every letter is shown although polls fail, meet a node that does not know
the challenge, or bring nothing.

**`panel`.** `OneChart`: the canvas has no chart but the one `metricsChart`
refers to. `OpenShows`: a dialog closed and opened again while a fetch is under
way still gets its chart. Deadlock is not checked: the openings are used up.

### Fairness

`Ring`: weak fairness of every node's task. The runtime polls every task, and
every remote call ends (answered, refused or timed out after three attempts).
Crashes, joins, timeouts and late requests have none. Drawing the random finger is
part of the task, and no draw in particular is assumed.
`Client`: weak fairness of the steps that wait for nothing but the runtime;
strong fairness of taking the mutex, because tokio's mutex queues its
waiters, and of closing, because every socket operation has a timeout (the
bound `MaxPending` may disable it for a while).
`Server`: weak fairness of every task; nothing of `accept`, of arrivals and of
reads, which have no timeout in the code.
`WebClient`: weak fairness of each flow. A flow has at most one step to take at
any time; its callbacks run, the timer of `startPolling` fires every five
seconds, and a browser gives up on a request without an answer, which is a
`Fail`. Nothing is assumed of the user, of failures and of the people who write.
`MetricsPanel`: ticks run and fetches end.

### Bounds

`MaxCrashes`, `MaxDrops` (failing calls to live nodes), `Quotas` and `MaxPending`
(guard tasks waiting per host) bound what the environment does. `M` is 3 or 4 bits; the node identifiers are
chosen so that intervals wrap around zero. `FixIdx` restricts the fingers drawn:
in `Ring` to one that points past the successor, in `Routing` to one of each kind. Hop limit, attempts, replication factor
and list sizes are the code's values, except that `ring_join`
keeps two list entries, the most that three nodes can fill.

In `web`, `Quotas` bounds letters, sends, added contacts and failures (lost
requests or answers, empty answers, lost challenges, reloads) of one behaviour;
`MCQuotas` lists the combinations. Two nodes, two peers, two letters and two
seconds give a challenge that is asked of the wrong node, two senders in
one answer, a retry with the same or another second, and a contact listed twice;
two sends with one text overlap, and two failures exhaust the retry of one
request. The user looks at conversations and types only while a send is
left. `retries` is the code's value. In `panel`, three openings let two fetches
overlap with a third.

## <a name="disagreements"></a>What disagrees with the documentation

* `ring_heal` — "Nodes self-update and self-heal" (`README.md:51`). After one
  crash in a ring of three, `stabilize` can adopt the dead node because its
  successor still names it as predecessor; `update_successor_list` then
  overwrites the list with that node alone, and failover has nobody left to try.
* `client_leak` — "auto-cleanup on drop" (`network_client.rs:177`). The
  decrement is lost when `try_lock` fails.
* `storage_copies` — "Number of replicas for each data item" (`node.rs:44`, three). In
  a ring of three, one node crashes while it is the successor of a node whose
  `update_successor_list` comes next: `GetSuccessor` fails (`node.rs:1430`), the
  list is overwritten with the dead node alone, replication to it fails and is only
  logged (`node.rs:512`), and the message is acknowledged with a single copy, although
  another node serves. A second crash then loses it. It takes a sample of
  fingers without another live node, which small rings and new nodes have.
  `ROADMAP.md:26` and `:243` say of messages in general that they may be lost; the constant's
  comment is what the run holds the code to.
* `storage_handover` — "Request data from successor that should belong to us"
  (`node.rs:846`). The range requested is the one the successor keeps, and
  `notify` hands over the same one, so that the joiner answers for messages it
  does not hold.

Met while modelling, and not kept as runs:

* "For 4xx errors, don't retry, just throw" (`webclient/public/main.js:137`): the error
  is thrown inside the `try` whose `catch` retries at another node (`Retry` in
  `WebClient` starts from `rejected` too).
* `closest_preceding_node` says "exclusive of id" (`node.rs:1134`), but
  `is_between` includes the end: the lookup of a node's identifier can walk onto this
  node and answer with the one after it. `LookupCorrect` states what does hold.
* A node that comes back while others remember it may be told it is its own
  successor; `join` returns (`node.rs:802`) and nothing joins again.
* `shutdown` says "Wait for active connections to finish" (`node.rs:2018`), but a
  connection admitted after the counter was seen at zero is cut by the end of `main`
  (`Exit` in `Server`).

## Proofs

Every invariant and every action property of a passing run is also a theorem,
for every value of the constants that satisfies the assumptions of the
modules: any set of nodes and identifiers, any width, list size, limits and
number of faults, unless stated. An invariant that is not inductive is proved from
a stronger one, which TLC confirmed on the run's instance before it was proved.

**Identifiers** (`Lookup_proofs`). `BetweenIsDistance`: the three-way comparison of
`is_between` is the interval by clockwise distance, also across zero. Lemmas on
shrinking intervals and on distances that decrease follow. `StepTyped` and
`BeginTyped` are about the lookup alone, and serve both modules that run it.

**Ring** (`Ring_proofs`).

* `TypeCorrect`: TypeOK is inductive, including that the hop count stays
  within its limit and that a list under construction is never empty.
* `JoinKnowsLive`, `JoinSafe`: with no crash and no failing call, `JoinInv`
  and `PredBehindSucc`. The second is not inductive: `notify` relies on the
  successor of the notifier still being the node it notifies, and `stabilize` on
  every node it hears of having finished its join. `JoinInv` states just that
  (`KnownIsUp`, `TaskFollowsStatus`, `SuccessorHeld`), and the two together with
  `TypeOK` are inductive. `SameKeeps` and `OneNode` reduce each action to the
  node that moves.
* `JoinMonotone`: under the same assumptions, `SuccessorOnlyCloser`.
* `OneRing`: under the same assumptions, `OneOrderedRing`. What a step must not
  do is to cut off nodes between a pointer's old and new target. `RingInv`
  therefore keeps a *way* from every node that somebody takes for its predecessor, or
  got as an answer in `stabilize`, to that somebody: a set of nodes through which
  successor pointers lead in clockwise order (`Linked`). Adopting the predecessor
  splices this way into the ring (`SpliceOrder`). `Core` says there is a
  ring in order and that every closed set of pointers meets it, and
  `KnownIsPlaced` that no lookup, finger or list leads to a node that has not
  found its successor yet. Ways and rings are sets, not sequences, so that no
  induction along them is needed.
* `OfflineAlone`, `NeverAlone`: whatever fails, `OfflineIsAlone` is inductive
  with `TypeOK`, and `NeverAloneAgain` follows from it step by step: the only
  writers of `successor` at a serving node are the failover, whose candidates
  exclude the node, the adoption, whose interval excludes it, and `notify`, which
  refuses itself.
* `ListsSelfFree`: whatever fails, `ListWithoutSelf`. `ListInv` adds the list
  that `update_successor_list` is building between its calls, which is the
  node alone or avoids it.

**Routing** (`Routing_proofs`). `TypeCorrect`; `HopsCloser` (`HopsAdvance`), since
the finger chosen lies between the hop and the identifier; `AnswersRight`
(`LookupCorrect`) and `FingerKept` (`SuccessorFingerKept`) from `RoutingInv`:
what a lookup knows of its hop at each place (`Progress`), that the target of a
finger the successor owns is resolved without leaving the node, hence without a
call that can fail (`Repair`), and that some finger names the successor and has such a
target (`KeptFinger`). Any number of nodes, callers, stale fingers and failures.

**Storage** (`Storage_proofs`).

* `TypeCorrect`: `TypeOK` is inductive; a transfer that replicates knows its message,
  and one that is over leaves nothing behind.
* `AckedStays` (`AckedSurvives`). `StorageInv` adds to the types who gives a
  transfer to whom (`RolesInv`), that pointers name nodes that served (`PointersInv`) and
  that only running processes hold data (`LifeInv`). Its heart is `CopiesInv`: the nodes a message
  was meant for and that neither hold it nor are still to be called
  alive (`Reach`) are at most as many as the crashes and lost calls. A crash and a lost call each move one
  node out and add one fault; a copy made moves a node from one group to the
  other. Nothing is assumed of lists, fingers or lookups, and joins are allowed.
* `OneFaultLosesNothing` (`SurvivesOneFault`). `PairInv`: while nobody joins, no node of a
  ring of several is alone, neither its successor nor its list; adoption, failover and list
  update keep this although each may put a dead node there. Hence every message is
  meant for two nodes at least, and `AckedStays` does the rest.
* `PollShowsAll` (`PollComplete`). Without joins and lost calls, `CopiesInv` says that every
  serving node a message was meant for is in `Reach`; an acknowledged message
  has no calls left, so that the responsible node, whichever a stray lookup takes, holds it
  and answers with it.
* `PollFinds` (`MailboxFound`). In a settled ring of at most as many nodes as
  replicas, the list of the responsible node names everybody else who serves, so that one
  without an entry asks all of them, among them a holder that answers. Any joins, crashes
  and lost calls before.
* `FreshRingReplicates` (`EnoughReplicas`). While nothing has failed or joined, successors and
  predecessors stay exact and walking from successor to successor fills the list
  with the nodes that follow (`FreshInv`), whatever its size; a full list has a node
  for every replica (`ListAssumption`).

**Client** (`Client_proofs`). `TypeCorrect`, `CountAbove` (`CountCovers`) and
`LimitSafe` (`LimitHolds`): `LimitHolds` needs `CountCovers`, which counts the
guard tasks still to run; the two are inductive with `TypeOK`.

**Server** (`Server_proofs`). `TypeCorrect`, `CountExact`, and `LimitSafe`, for
which `WithinLimit` needs `CounterExact`. `OneMore`: `OneAfterSignal` needs
`AcceptOnce`: a loop that passed the check before the flag was raised has
accepted nothing since.

**Web client** (`WebClient_proofs`): any number of nodes, flows, contacts,
failures and reloads; the sends are a finite set.

* `TypeCorrect`. `Sound` adds to the types what they rely on: a request that is
  switching nodes has its retry left, and what a send has on its way is what was
  typed (`FlowInv`).
* `NeverTwice` (`ShownOnce`) and `KeysMatch` (`RightKey`) from one invariant,
  `ShownInv`: every received message is under the *first* contact with its sender's
  key, a sent one under its recipient unless another contact was selected, and
  no conversation holds a letter twice. Contacts are only appended, so the first
  match stays the first match (`FindKept`).
* `StoredFirst` (`RecordedWasStored`) and `CopiesBounded` (`CopiesPerPress`).
  Records and copies alone are not inductive: `CountInv` also counts the sends whose
  answer has arrived, those that wait for one, and those with a retry to
  spare, so that every step moves one unit from one count to another.
* `TakesInboxSteps`: the page implements `Safety` of `Inbox`. It needs that a
  waiting answer was read from the mailbox (`AnswerInv`), that conversations only
  grow, and that nothing is on display twice.
* `ChallengeOpensOnce`: `ReadOnce` is not inductive. `ReadInv` adds that the
  nonce the page holds is known to no node once it was read with, and that
  requests go to nodes, so that an accepted poll always finds the count at
  zero.

**Metrics dialog** (`MetricsPanel_proofs`). `PanelTypeCorrect`,
`PanelKeepsOneChart`: the types, which say that no opening begins two fetches, and
`OneChart`, which is inductive with them, for any number of openings.

Where an argument goes along the numbers, the proofs use the least element of
a set (`LeastNat`) or the set of numbers for which a statement holds
(`Induction`) instead of an induction rule over formulas.

`PowersOfTwo` in `IdSpace` states the two facts about exponentiation that the
provers lack; TLC evaluates it, as every assumption, in the runs.

## Only model-checked

Liveness (`Converges`, `RoundsEnd`, `CallsReturn`, `SignalEnds`,
`PollEnds`, `OpenShows`, and of `ImplementsInbox` the part `AllShown`) is beyond
the prover, which has no rules for fairness.

`MailboxFound` is about rings that never outgrew the replication factor. For
larger rings nothing is claimed: a responsible node without
an entry asks only as many of its contacts as there are replicas, and nothing
in the code says that one of them holds the message. How many copies a message gets
after a fault is not bounded from below except by `SurvivesOneFault`; `storage_copies`
shows why.

## Not modelled

* Metrics gossip and load balancing: averages and loads are floating-point
  numbers. A migration needs a known load of another node, and none is ever
  recorded, so that `Storage` loses nothing by leaving it out. (`check_and_rebalance`
  writes its load into the metric the next load is computed from, `node.rs:2122`, so
  that loads ratchet up.)
* `/ping` and `/metrics` of the API; the clock behind the expiry of challenges,
  which may be lost at any time instead.
* Of the page: a second tab, which would overwrite the persisted lists;
  names, search, order of the contact list, colours, the rendering of times,
  scrolling, the clipboard; a WASM module that cannot be loaded; keys written in
  different case, which are different contacts.
* The steps of a recursive retrieve with its timeouts.
* The locks of one node: `notify` and `debug_ring_state` take two of them in
  opposite orders.
* Collector and cryptography; see the notes in `PROJECT.json`.

## Plan

1. *(done)* `IdSpace`, `Lookup`, `Ring`: the core, with its proofs.
2. *(done)* `Routing`, `Client`, `Server`, `Storage`.
3. `Retrieve`: the recursion of `retrieve` under connection limits and
   timeouts; it ends, and finds what some replica holds.
4. `Locks`: the mutexes of one node, their order, and the tasks that take them.
5. *(done)* `Api`, `WebClient`, `Inbox`, `MetricsPanel`: the page, its
   challenges, and the refinement.
6. `Balance`: loads in hundredths, `check_and_rebalance`, migration with its
   removal of the local copy.
7. A second tab: the persisted state as a variable of its own.
8. An abstract mailbox service (send, acknowledge, poll) that `Storage`
   implements while nodes only crash.
9. *(done)* Proofs of every invariant and action property that the runs check,
   and of the steps of the refinement.
10. Proofs for what 3, 4, 6 and 8 add; `MailboxFound` for rings larger than
    the replication factor, as far as the code keeps it.
