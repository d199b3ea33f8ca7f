------------------------------- MODULE Entries -------------------------------
(***************************************************************************)
(* The value stored under one key of a storage shard, and what each        *)
(* key-value operation of MemoryStore makes of it.  Every operation runs   *)
(* under the shard's mutex and touches one key, so an operation is a       *)
(* function from the entry it finds (or NoEntry) and the clock it reads    *)
(* under the lock to the entry it leaves.                                  *)
(*                                                                         *)
(* The value of an entry is a string.  All the store ever does with one is *)
(* parse it, so a string is kept as the number std::stoull or std::stoll   *)
(* reads off its front and a flag, `clean`, that is FALSE when characters  *)
(* are left over.  A string with no number in front is [num |-> 0, clean   *)
(* |-> FALSE]: every catch (...) of the quota code continues as if it had  *)
(* read 0.                                                                 *)
(***************************************************************************)
EXTENDS Words

CONSTANTS
    NoEntry   \* what HashTable::Find returns for a key that is not there

Number == MinI64 .. MaxU64

Value == [num : Number, clean : BOOLEAN]

Entry == [num : Number, clean : BOOLEAN, expire_at : Nat]

ASSUME NoEntryAssumption == NoEntry \notin Entry

(* std::stoull reads a negative number as its two's complement. *)
Stoull(num) == IF num < 0 THEN num + MaxU64 + 1 ELSE num

Live(e, t) == e # NoEntry /\ ~IsExpired(e, t)

(* Find followed by the lazy erasure of an entry that has expired. *)
Lookup(e, t) == IF Live(e, t) THEN e ELSE NoEntry

(***************************************************************************)
(* The key-value operations.                                               *)
(***************************************************************************)
WriteCondition == {"Always", "IfAbsent", "IfPresent"}

Refuses(cond, found) ==
    \/ cond = "IfAbsent" /\ found # NoEntry
    \/ cond = "IfPresent" /\ found = NoEntry

AfterSet(e, t, v, cond, ttl) ==
    IF Refuses(cond, Lookup(e, t))
    THEN Lookup(e, t)
    ELSE [num |-> v.num, clean |-> v.clean, expire_at |-> Deadline(t, ttl)]

AfterExpire(e, t, ttl) ==
    IF Live(e, t) /\ ttl > 0
    THEN [e EXCEPT !.expire_at = AddU64(t, ttl)]
    ELSE NoEntry

AfterPersist(e, t) ==
    IF Live(e, t) THEN [e EXCEPT !.expire_at = 0] ELSE NoEntry

(* Mutant: the range of the sum is not checked. *)
IncrFails_Unchecked(e, delta) == ~e.clean \/ e.num > MaxI64

(* A value that std::stoll does not take whole, or a sum out of range. *)
IncrFails(e, delta) ==
    \/ ~e.clean
    \/ e.num > MaxI64
    \/ e.num + delta \notin MinI64 .. MaxI64

AfterIncrBy(e, t, delta, ttl) ==
    IF ~Live(e, t)
    THEN [num |-> delta, clean |-> TRUE, expire_at |-> Deadline(t, ttl)]
    ELSE IF IncrFails(e, delta) THEN e
    ELSE [e EXCEPT !.num = @ + delta]
=============================================================================
