----------------------------- MODULE MCStorage ------------------------------
(* An instance of Storage for TLC: three nodes, two messages to one mailbox. *)
EXTENDS Storage, TLC

MCNodes == {0, 5, 10}
Quota(f, s, c, j, d) ==
    [founders |-> f, sends |-> s, crashes |-> c, joins |-> j, drops |-> d]

\* Two messages in a ring of three, and of two while both crash; one message while
\* two of three crash; one while node 5 joins two others and becomes responsible
\* for the key, with a crash or a lost call.
MCQuotas == {Quota(MCNodes, 2, 0, 0, 0), Quota({5, 10}, 2, 2, 0, 0),
             Quota(MCNodes, 1, 2, 0, 0),
             Quota({0, 10}, 1, 1, 1, 0), Quota({0, 10}, 1, 0, 1, 1)}
MCOneCrash == {Quota(MCNodes, 1, 1, 0, 0)}
MCOneJoin == {Quota({0, 10}, 1, 0, 1, 0)}

\* One recipient; node 0 takes itself for the primary of its key.
MCKeyOf == [m \in Msgs |-> 3]
MCVirtualNodes == [n \in MCNodes |-> IF n = 0 THEN {4} ELSE {}]

\* The messages have the same key: they are interchangeable.
MCSymmetry == Permutations(Msgs)

=============================================================================
