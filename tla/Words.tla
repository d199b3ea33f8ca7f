-------------------------------- MODULE Words --------------------------------
(***************************************************************************)
(* What every record of a storage shard shares: 64-bit words, a deadline   *)
(* that is such a word, and the way the background sweep picks expired     *)
(* records.                                                                *)
(***************************************************************************)
EXTENDS Integers, FiniteSets

CONSTANTS
    MaxU64,   \* largest std::uint64_t, 2^64 - 1 in the code
    MaxI64    \* largest std::int64_t, 2^63 - 1 in the code

MinI64 == -MaxI64 - 1

ASSUME WordAssumption ==
    /\ MaxI64 \in Nat \ {0}
    /\ MaxU64 = 2 * MaxI64 + 1

(* Mutant: the sum is kept in a wider type. *)
AddU64_Unbounded(a, b) == a + b

(* Unsigned addition wraps around. *)
AddU64(a, b) == IF a + b > MaxU64 THEN a + b - (MaxU64 + 1) ELSE a + b

(* So does multiplication. *)
MulU64(a, b) == (a * b) % (MaxU64 + 1)

(* Mutant: off by one. *)
IsExpired_Late(r, t) == r.expire_at > 0 /\ t > r.expire_at

(* A deadline of 0 means none; a record is gone at its deadline. *)
IsExpired(r, t) == r.expire_at > 0 /\ t >= r.expire_at

(* Mutant: a record that is to expire never does. *)
Deadline_Never(t, ttl) == 0

Deadline(t, ttl) == IF ttl > 0 THEN AddU64(t, ttl) ELSE 0

(***************************************************************************)
(* What a ForEach of PurgeExpired can collect of the expired records S of  *)
(* a table: all of them, or sample_limit of them, whichever is less.       *)
(***************************************************************************)
Samples(S, limit) ==
    {T \in SUBSET S : Cardinality(T) = IF Cardinality(S) < limit
                                       THEN Cardinality(S) ELSE limit}
=============================================================================
