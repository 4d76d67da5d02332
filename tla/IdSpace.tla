------------------------------ MODULE IdSpace ------------------------------
(***************************************************************************)
(* The circular identifier space of the DHT (lib/src/lib.rs).  The code    *)
(* uses 160-bit SHA-1 identifiers; here the width M is a parameter, and an *)
(* identifier is the number node_id_to_biguint makes of its bytes.         *)
(***************************************************************************)
EXTENDS Integers

CONSTANT M  \* number of bits of an identifier (160 in the code)

ASSUME MAssumption == M \in Nat \ {0}

\* Exponentiation has no theory in the provers: the two facts the proofs use.
ASSUME PowersOfTwo == /\ 2^M \in Nat \ {0}
                      /\ \A i \in 0 .. M : 2^i \in Nat \ {0}

Ids == 0 .. (2^M - 1)

(***************************************************************************)
(* is_between(id, start, end): id lies in the clockwise half-open interval *)
(* (start, end], which is empty when start = end.                          *)
(***************************************************************************)
is_between(id, start, end) ==
    IF start < end
    THEN start < id /\ id <= end
    ELSE start # end /\ (start < id \/ id <= end)

\* (id + 2^i) mod 2^M: where the i-th finger of node id points.
add_id_power_of_2(id, i) == (id + 2^i) % 2^M

\* Clockwise distance, the reference the interval test is compared with.
Distance(from, to) == IF from <= to THEN to - from ELSE to - from + 2^M

=============================================================================
