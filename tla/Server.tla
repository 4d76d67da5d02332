------------------------------- MODULE Server -------------------------------
(***************************************************************************)
(* The life of one node process (node/src/main.rs, start, handle_connection *)
(* and shutdown of node/src/node.rs): the accept loop, one task per        *)
(* connection under a connection limit, the stabilization loop, the signal *)
(* task and the main task that ends the process.                           *)
(*                                                                         *)
(* What a request does to the ring and to the data is the business of      *)
(* other modules; here a request is a connection that is read, handled and *)
(* answered.  Tasks interleave at every await and at every access to the   *)
(* two atomics, active_connections and shutdown_signal.                    *)
(***************************************************************************)
EXTENDS Integers, FiniteSets

CONSTANTS
    Conns,            \* the connections other nodes will ever open
    MAX_CONNECTIONS   \* 100 in the code

ASSUME ConnsAssumption == IsFiniteSet(Conns)
ASSUME LimitAssumption == MAX_CONNECTIONS \in Nat \ {0}

VARIABLES
    shutdown_signal,     \* the flag
    active_connections,  \* the counter
    acceptor,            \* the accept loop
    conn,                \* conn[c]: how far connection c is
    stab,                \* the stabilization loop
    sig,                 \* the signal task
    main,                \* the main task
    after                \* connections accepted since the signal

vars == <<shutdown_signal, active_connections, acceptor, conn, stab, sig, main,
          after>>

ConnStates == {"new", "waiting", "spawned", "over", "reading", "handling",
               "answered", "dropped", "cut"}

TypeOK ==
    /\ shutdown_signal \in BOOLEAN
    /\ active_connections \in Nat
    /\ acceptor \in {"bind", "check", "accept", "stopped"}
    /\ conn \in [Conns -> ConnStates]
    /\ stab \in {"check", "round", "stopped"}
    /\ sig \in {"wait", "poll", "done", "timed_out"}
    /\ main \in {"select", "await_stab", "exited"}
    /\ after \in Nat

Init ==
    /\ shutdown_signal = FALSE
    /\ active_connections = 0
    /\ acceptor = "bind"
    /\ conn = [c \in Conns |-> "new"]
    /\ stab = "check"
    /\ sig = "wait"
    /\ main = "select"
    /\ after = 0

Running == main # "exited"

-----------------------------------------------------------------------------
(* start: the accept loop                                                  *)

Bind ==
    /\ Running
    /\ acceptor = "bind"
    /\ acceptor' \in {"check", "stopped"}
    /\ UNCHANGED <<shutdown_signal, active_connections, conn, stab, sig, main,
                   after>>

\* Error seeded for the runs: the flag is never looked at.
AcceptorCheckNever ==
    /\ Running
    /\ acceptor = "check"
    /\ acceptor' = "accept"
    /\ UNCHANGED <<shutdown_signal, active_connections, conn, stab, sig, main,
                   after>>

\* The flag is looked at before an accept, not while accept waits.
AcceptorCheck ==
    /\ Running
    /\ acceptor = "check"
    /\ acceptor' = IF shutdown_signal THEN "stopped" ELSE "accept"
    /\ UNCHANGED <<shutdown_signal, active_connections, conn, stab, sig, main,
                   after>>

\* A connection is handed to a task of its own.
Accept(c) ==
    /\ Running
    /\ acceptor = "accept"
    /\ conn[c] = "waiting"
    /\ conn' = [conn EXCEPT ![c] = "spawned"]
    /\ acceptor' = "check"
    /\ after' = IF shutdown_signal THEN after + 1 ELSE after
    /\ UNCHANGED <<shutdown_signal, active_connections, stab, sig, main>>

\* accept fails; the loop sleeps and goes on.
AcceptError ==
    /\ Running
    /\ acceptor = "accept"
    /\ acceptor' = "check"
    /\ UNCHANGED <<shutdown_signal, active_connections, conn, stab, sig, main,
                   after>>

-----------------------------------------------------------------------------
(* handle_connection                                                       *)

\* Error seeded for the runs: the limit is off by one.
AdmitOne(c) ==
    /\ Running
    /\ conn[c] = "spawned"
    /\ active_connections' = active_connections + 1
    /\ conn' = [conn EXCEPT ![c] =
                   IF active_connections > MAX_CONNECTIONS THEN "over"
                   ELSE "reading"]
    /\ UNCHANGED <<shutdown_signal, acceptor, stab, sig, main, after>>

\* fetch_add, and the comparison of what it returned with the limit.
Admit(c) ==
    /\ Running
    /\ conn[c] = "spawned"
    /\ active_connections' = active_connections + 1
    /\ conn' = [conn EXCEPT ![c] =
                   IF active_connections >= MAX_CONNECTIONS THEN "over"
                   ELSE "reading"]
    /\ UNCHANGED <<shutdown_signal, acceptor, stab, sig, main, after>>

\* The connection is closed and its ConnectionGuard dropped.
Release(c, how) ==
    /\ active_connections' = active_connections - 1
    /\ conn' = [conn EXCEPT ![c] = how]
    /\ UNCHANGED <<shutdown_signal, acceptor, stab, sig, main, after>>

\* Error seeded for the runs: the guard is taken before the limit is
\* checked, and the rejection decrements as well.
RejectTwice(c) ==
    /\ Running
    /\ conn[c] = "over"
    /\ active_connections' = active_connections - 2
    /\ conn' = [conn EXCEPT ![c] = "dropped"]
    /\ UNCHANGED <<shutdown_signal, acceptor, stab, sig, main, after>>

\* Over the limit: fetch_sub, no guard.
Reject(c) ==
    /\ Running
    /\ conn[c] = "over"
    /\ Release(c, "dropped")

\* The whole request has been read.
ReadRequest(c) ==
    /\ Running
    /\ conn[c] = "reading"
    /\ conn' = [conn EXCEPT ![c] = "handling"]
    /\ UNCHANGED <<shutdown_signal, active_connections, acceptor, stab, sig,
                   main, after>>

\* The peer is gone, or the request is larger than MAX_MESSAGE_SIZE.
ReadFails(c) ==
    /\ Running
    /\ conn[c] = "reading"
    /\ Release(c, "dropped")

\* The request is decoded, dispatched and answered, or not decodable.
Handle(c) ==
    /\ Running
    /\ conn[c] = "handling"
    /\ \E how \in {"answered", "dropped"} : Release(c, how)

-----------------------------------------------------------------------------
(* main: the stabilization loop, the signal task, the end                  *)

StabCheck ==
    /\ Running
    /\ stab = "check"
    /\ stab' = IF shutdown_signal THEN "stopped" ELSE "round"
    /\ UNCHANGED <<shutdown_signal, active_connections, acceptor, conn, sig,
                   main, after>>

\* One round and its sleep.
StabRound ==
    /\ Running
    /\ stab = "round"
    /\ stab' = "check"
    /\ UNCHANGED <<shutdown_signal, active_connections, acceptor, conn, sig,
                   main, after>>

\* SIGINT or SIGTERM: shutdown() raises the flag and polls the counter.
Signal ==
    /\ Running
    /\ sig = "wait"
    /\ sig' = "poll"
    /\ shutdown_signal' = TRUE
    /\ UNCHANGED <<active_connections, acceptor, conn, stab, main, after>>

\* Error seeded for the runs: shutdown waits for as long as it takes.
PollForever ==
    /\ Running
    /\ sig = "poll"
    /\ active_connections = 0
    /\ sig' = "done"
    /\ UNCHANGED <<shutdown_signal, active_connections, acceptor, conn, stab,
                   main, after>>

\* The counter is zero, or half a minute is over.
Poll ==
    /\ Running
    /\ sig = "poll"
    /\ sig' = IF active_connections = 0 THEN "done" ELSE "timed_out"
    /\ UNCHANGED <<shutdown_signal, active_connections, acceptor, conn, stab,
                   main, after>>

\* The select of main: the server stopped, or the signal task ended.
Select ==
    /\ Running
    /\ main = "select"
    /\ acceptor = "stopped" \/ sig \in {"done", "timed_out"}
    /\ main' = "await_stab"
    /\ UNCHANGED <<shutdown_signal, active_connections, acceptor, conn, stab,
                   sig, after>>

\* main returns: the runtime ends with everything it still runs.  A request
\* that is being served is cut, a connection not served yet is dropped.
Exit ==
    /\ main = "await_stab"
    /\ stab = "stopped"
    /\ main' = "exited"
    /\ conn' = [c \in Conns |->
                   CASE conn[c] \in {"reading", "handling"} -> "cut"
                     [] conn[c] \in {"waiting", "spawned", "over"} -> "dropped"
                     [] OTHER -> conn[c]]
    /\ UNCHANGED <<shutdown_signal, active_connections, acceptor, stab, sig,
                   after>>

-----------------------------------------------------------------------------
\* Another node connects; the kernel queues the connection once it is bound.
Arrive(c) ==
    /\ Running
    /\ acceptor \in {"check", "accept"}
    /\ conn[c] = "new"
    /\ conn' = [conn EXCEPT ![c] = "waiting"]
    /\ UNCHANGED <<shutdown_signal, active_connections, acceptor, stab, sig,
                   main, after>>

\* The peer decides when a read ends: there is no timeout on it.
Peer(c) == Arrive(c) \/ ReadRequest(c) \/ ReadFails(c)

Handler(c) == Admit(c) \/ Reject(c) \/ Handle(c)

Next ==
    \/ Bind \/ AcceptorCheck \/ AcceptError \/ StabCheck \/ StabRound \/ Signal
    \/ Poll \/ Select \/ Exit
    \/ \E c \in Conns : Accept(c) \/ Handler(c) \/ Peer(c)

Spec == Init /\ [][Next]_vars

\* The runtime runs every task; nothing is assumed of peers and of accept.
Fairness ==
    /\ WF_vars(Bind) /\ WF_vars(AcceptorCheck)
    /\ WF_vars(StabCheck) /\ WF_vars(StabRound)
    /\ WF_vars(Poll) /\ WF_vars(Select) /\ WF_vars(Exit)
    /\ \A c \in Conns : WF_vars(Handler(c))

FairSpec == Spec /\ Fairness

-----------------------------------------------------------------------------

Counted == {c \in Conns : conn[c] \in {"over", "reading", "handling"}}

Served == {c \in Conns : conn[c] \in {"reading", "handling"}}

\* The counter is exact at every moment, on every path through
\* handle_connection: no exit forgets to decrement or decrements twice.
CounterExact == Running => active_connections = Cardinality(Counted)

\* The limit holds although every new connection first overshoots it.
WithinLimit == Cardinality(Served) <= MAX_CONNECTIONS

\* The accept loop may sit in accept when the flag is raised, so it takes one
\* more connection, and never a second one.
OneAfterSignal == after <= 1

\* What makes it one: a loop that passed the check before the flag was raised
\* has accepted nothing since.
AcceptOnce ==
    /\ (~shutdown_signal \/ acceptor = "accept") => after = 0
    /\ OneAfterSignal

\* A signal ends the process, even when peers never finish their requests and
\* nobody connects any more.
SignalEnds == (sig # "wait") ~> (main = "exited")

=============================================================================
