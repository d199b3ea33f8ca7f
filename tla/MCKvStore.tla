------------------------------ MODULE MCKvStore ------------------------------
EXTENDS KvStore

(* Scaled words: 3 bits, so that counters reach both ends of their range. *)
MCWrites == {[num |-> 3, clean |-> TRUE], [num |-> 0, clean |-> FALSE]}
MCDeltas == {-3, 3}
MCTtls == {0, 2}
=============================================================================
