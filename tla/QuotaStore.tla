----------------------------- MODULE QuotaStore ------------------------------
(***************************************************************************)
(* Two-phase quota reservations of MemoryStore on one shard.               *)
(*                                                                         *)
(* A pool is an ordinary entry whose value is its balance; the key-value   *)
(* API can overwrite, expire, increment or delete it at any time.  RESERVE *)
(* moves an amount out of the pool into a reservation with a deadline.     *)
(* COMMIT and ROLLBACK settle a reservation, and the background sweep      *)
(* (PurgeExpired, on a timer of worker 0) rolls back the ones whose        *)
(* deadline has passed.  A reservation lives in the shard of its pool, so  *)
(* every operation runs under one mutex and is one step; the sweep holds   *)
(* the mutex over several steps, because it refunds one reservation after  *)
(* the other.                                                              *)
(***************************************************************************)
EXTENDS Entries, FiniteSetsExt

CONSTANTS
    Keys,             \* pools of the shard
    Writes,           \* values clients write to a pool
    Ttls,             \* times to live of pools, 0 for none
    Deltas,           \* increments of a pool
    Amounts,          \* amounts reserved (RESERVE refuses 0)
    Actuals,          \* amounts committed
    ReserveTtls,      \* times to live of reservations (RESERVE refuses 0)
    MaxReservations,  \* bound on the reservations ever made
    SampleLimit,      \* most records one sweep takes from a table
    MaxClock,         \* bound on the clock
    NoReservation     \* what Find returns for an id that is not there

Ids == 1 .. MaxReservations

Reservation == [key : Keys, amount : 1 .. MaxU64, expire_at : Nat]

ASSUME QuotaAssumption ==
    /\ Writes \subseteq Value
    /\ Ttls \subseteq 0 .. MaxU64
    /\ Deltas \subseteq MinI64 .. MaxI64
    /\ Amounts \subseteq 1 .. MaxU64
    /\ Actuals \subseteq 0 .. MaxU64
    /\ ReserveTtls \subseteq 1 .. MaxU64
    /\ MaxReservations \in Nat
    /\ SampleLimit \in Nat \ {0}
    /\ MaxClock \in Nat
    /\ NoReservation \notin Reservation

VARIABLES
    entries,        \* StorageShard::entries
    reservations,   \* StorageShard::reservations, by reservation id
    seq,            \* reservations issued so far (next_reservation_seq_ - 1)
    now,            \* the steady clock
    purgeAt,        \* the clock reading of the sweep under way, or NotPurging
    locked,         \* the sweep holds the shard's mutex
    todo            \* expired_reservations: what the sweep has yet to refund

storeVars == <<entries, reservations, seq, now, purgeAt, locked, todo>>

(***************************************************************************)
(* The books of an auditor.  They record what clients did to each pool and *)
(* are never read by the operations.                                       *)
(***************************************************************************)
VARIABLES
    granted,     \* net amount written to the pool through the key-value API
    held,        \* amount in reservations not yet settled
    consumed,    \* amount successful commits reported as consumed
    overdraft,   \* part of consumed that exceeded reservation and balance
    late,        \* a client settled an expired reservation and nobody refunded
    wrapped      \* a 64-bit number of this pool has wrapped around

books == <<granted, held, consumed, overdraft, late, wrapped>>
vars == <<entries, reservations, seq, now, purgeAt, locked, todo,
          granted, held, consumed, overdraft, late, wrapped>>

NotPurging == -1

Outstanding(id) == reservations[id] # NoReservation

(* The number stored in a pool, and the balance the quota code reads of it. *)
Num(e) == IF e = NoEntry THEN 0 ELSE e.num
Balance(k) == Stoull(Num(entries[k]))

(* Mutant: the refund of a pool that is gone is dropped. *)
WriteBack_OnlyIfPresent(k, balance) ==
    entries' = [entries EXCEPT ![k] =
        IF @ = NoEntry THEN NoEntry ELSE [@ EXCEPT !.num = balance, !.clean = TRUE]]

(* Store a balance; a pool that is gone comes back without a deadline. *)
WriteBack(k, balance) ==
    entries' = [entries EXCEPT ![k] =
        IF @ = NoEntry
        THEN [num |-> balance, clean |-> TRUE, expire_at |-> 0]
        ELSE [@ EXCEPT !.num = balance, !.clean = TRUE]]

(* Mutant: the settled reservation is left in the table. *)
Settle_NotErased(id) == UNCHANGED <<reservations, held>>

Settle(id) ==
    /\ reservations' = [reservations EXCEPT ![id] = NoReservation]
    /\ held' = [held EXCEPT ![reservations[id].key] = @ - reservations[id].amount]

Refund(k, amount) == WriteBack(k, AddU64(Balance(k), amount))

NoteWrap(k, wraps) == wrapped' = [wrapped EXCEPT ![k] = @ \/ wraps]

RefundWraps(k, amount) ==
    Num(entries[k]) < 0 \/ Balance(k) + amount > MaxU64

Init ==
    /\ entries = [k \in Keys |-> NoEntry]
    /\ reservations = [id \in Ids |-> NoReservation]
    /\ seq = 0
    /\ now = 0
    /\ purgeAt = NotPurging
    /\ locked = FALSE
    /\ todo = {}
    /\ granted = [k \in Keys |-> 0]
    /\ held = [k \in Keys |-> 0]
    /\ consumed = [k \in Keys |-> 0]
    /\ overdraft = [k \in Keys |-> 0]
    /\ late = [k \in Keys |-> FALSE]
    /\ wrapped = [k \in Keys |-> FALSE]

-----------------------------------------------------------------------------
(* Key-value operations on a pool. *)

KvOperation(k, e) ==
    /\ ~locked
    /\ entries' = [entries EXCEPT ![k] = e]
    /\ granted' = [granted EXCEPT ![k] = @ + Num(e) - Num(entries[k])]
    /\ UNCHANGED <<reservations, seq, now, purgeAt, locked, todo,
                   held, consumed, overdraft, late, wrapped>>

(* SET and, with the condition "Always", GK.QUOTA_INIT. *)
Set(k, v, cond, ttl) == KvOperation(k, AfterSet(entries[k], now, v, cond, ttl))

(* GET, GK.QUOTA_GET and every other read: erases a pool that has expired. *)
Get(k) == KvOperation(k, Lookup(entries[k], now))

Del(k) == KvOperation(k, NoEntry)

Expire(k, ttl) == KvOperation(k, AfterExpire(entries[k], now, ttl))

Persist(k) == KvOperation(k, AfterPersist(entries[k], now))

IncrBy(k, delta, ttl) ==
    KvOperation(k, AfterIncrBy(entries[k], now, delta, ttl))

-----------------------------------------------------------------------------
(* GK.RESERVE *)

CanReserve(k, amount) ==
    LET found == Lookup(entries[k], now)
    IN  found # NoEntry /\ found.clean /\ Stoull(found.num) >= amount

(* Mutant: the sequence number is read, used, and bumped too late. *)
NewId_Reused == IF seq = 0 THEN 1 ELSE seq

(* The id of a new reservation: unique, because the counter is. *)
NewId == seq + 1

ReserveQuota(k, amount, ttl) ==
    /\ ~locked
    /\ CanReserve(k, amount)
    /\ seq < MaxReservations
    /\ seq' = seq + 1
    /\ WriteBack(k, Balance(k) - amount)
    /\ reservations' = [reservations EXCEPT ![NewId] =
          [key |-> k, amount |-> amount, expire_at |-> AddU64(now, ttl)]]
    /\ held' = [held EXCEPT ![k] = @ + amount]
    /\ NoteWrap(k, Num(entries[k]) < 0)
    /\ UNCHANGED <<now, purgeAt, locked, todo,
                   granted, consumed, overdraft, late>>

(* A refused reservation still erases a pool that has expired. *)
ReserveRefused(k, amount) ==
    /\ ~CanReserve(k, amount)
    /\ KvOperation(k, Lookup(entries[k], now))

-----------------------------------------------------------------------------
(* GK.COMMIT.  An unknown id, or one of another pool, changes nothing. *)

CommitQuota(id, actual) ==
    LET r == reservations[id]
        k == r.key
        extra == actual - r.amount
    IN  /\ ~locked
        /\ Outstanding(id)
        /\ ~IsExpired(r, now)
        /\ Settle(id)
        /\ consumed' = [consumed EXCEPT ![k] = @ + actual]
        /\ \/ /\ actual <= r.amount
              /\ Refund(k, r.amount - actual)
              /\ NoteWrap(k, RefundWraps(k, r.amount - actual))
              /\ UNCHANGED overdraft
           \/ /\ actual > r.amount
              /\ Balance(k) >= extra
              /\ WriteBack(k, Balance(k) - extra)
              /\ NoteWrap(k, Num(entries[k]) < 0)
              /\ UNCHANGED overdraft
           \/ /\ actual > r.amount
              /\ Balance(k) < extra
              /\ WriteBack(k, 0)
              /\ overdraft' = [overdraft EXCEPT ![k] = @ + extra - Balance(k)]
              /\ NoteWrap(k, Num(entries[k]) < 0)
        /\ UNCHANGED <<seq, now, purgeAt, locked, todo, granted, late>>

(* Too late: the code rolls back, unless the pool itself is gone. *)
CommitExpired(id) ==
    LET r == reservations[id]
        k == r.key
    IN  /\ ~locked
        /\ Outstanding(id)
        /\ IsExpired(r, now)
        /\ Settle(id)
        /\ \/ /\ entries[k] # NoEntry
              /\ Refund(k, r.amount)
              /\ NoteWrap(k, RefundWraps(k, r.amount))
              /\ UNCHANGED late
           \/ /\ entries[k] = NoEntry
              /\ late' = [late EXCEPT ![k] = TRUE]
              /\ UNCHANGED <<entries, wrapped>>
        /\ UNCHANGED <<seq, now, purgeAt, locked, todo,
                       granted, consumed, overdraft>>

-----------------------------------------------------------------------------
(* GK.ROLLBACK *)

RollbackQuota(id) ==
    LET r == reservations[id]
        k == r.key
    IN  /\ ~locked
        /\ Outstanding(id)
        /\ Settle(id)
        /\ \/ /\ ~IsExpired(r, now)
              /\ Refund(k, r.amount)
              /\ NoteWrap(k, RefundWraps(k, r.amount))
              /\ UNCHANGED late
           \/ /\ IsExpired(r, now)
              /\ late' = [late EXCEPT ![k] = TRUE]
              /\ UNCHANGED <<entries, wrapped>>
        /\ UNCHANGED <<seq, now, purgeAt, locked, todo,
                       granted, consumed, overdraft>>

-----------------------------------------------------------------------------
(* PurgeExpired *)

PurgeBegin ==
    /\ purgeAt = NotPurging
    /\ purgeAt' = now
    /\ UNCHANGED <<entries, reservations, seq, now, locked, todo, books>>

ExpiredEntries(t) ==
    {k \in Keys : entries[k] # NoEntry /\ IsExpired(entries[k], t)}

(* Mutant: one millisecond early. *)
ExpiredReservations_Early(t) ==
    {id \in Ids : Outstanding(id) /\ IsExpired(reservations[id], t + 1)}

ExpiredReservations(t) ==
    {id \in Ids : Outstanding(id) /\ IsExpired(reservations[id], t)}

(* Lock the shard, erase expired pools, collect expired reservations. *)
PurgeLock ==
    /\ purgeAt # NotPurging
    /\ ~locked
    /\ locked' = TRUE
    /\ \E gone \in Samples(ExpiredEntries(purgeAt), SampleLimit) :
          /\ entries' = [k \in Keys |->
                IF k \in gone THEN NoEntry ELSE entries[k]]
          /\ granted' = [k \in Keys |->
                IF k \in gone THEN granted[k] - entries[k].num ELSE granted[k]]
    /\ todo' \in Samples(ExpiredReservations(purgeAt), SampleLimit)
    /\ UNCHANGED <<reservations, seq, now, purgeAt,
                   held, consumed, overdraft, late, wrapped>>

(* Roll back one of the collected reservations. *)
PurgeRefund(id) ==
    LET r == reservations[id]
    IN  /\ locked
        /\ id \in todo
        /\ todo' = todo \ {id}
        /\ Refund(r.key, r.amount)
        /\ NoteWrap(r.key, RefundWraps(r.key, r.amount))
        /\ Settle(id)
        /\ UNCHANGED <<seq, now, purgeAt, locked,
                       granted, consumed, overdraft, late>>

(* Mutant: the next sweep goes on with the clock of this one. *)
PurgeUnlock_KeepsClock ==
    /\ locked
    /\ todo = {}
    /\ locked' = FALSE
    /\ UNCHANGED <<entries, reservations, seq, now, purgeAt, todo, books>>

PurgeUnlock ==
    /\ locked
    /\ todo = {}
    /\ locked' = FALSE
    /\ purgeAt' = NotPurging
    /\ UNCHANGED <<entries, reservations, seq, now, todo, books>>

Tick ==
    /\ now < MaxClock
    /\ now' = now + 1
    /\ UNCHANGED <<entries, reservations, seq, purgeAt, locked, todo, books>>

-----------------------------------------------------------------------------
Sweep ==
    \/ PurgeBegin
    \/ PurgeLock
    \/ \E id \in Ids : PurgeRefund(id)
    \/ PurgeUnlock

Client ==
    \/ \E k \in Keys :
          \/ Get(k) \/ Del(k) \/ Persist(k)
          \/ \E ttl \in Ttls : Expire(k, ttl)
          \/ \E ttl \in Ttls, delta \in Deltas : IncrBy(k, delta, ttl)
          \/ \E ttl \in Ttls, v \in Writes, cond \in WriteCondition :
                Set(k, v, cond, ttl)
          \/ \E amount \in Amounts :
                \/ ReserveRefused(k, amount)
                \/ \E ttl \in ReserveTtls : ReserveQuota(k, amount, ttl)
    \/ \E id \in Ids :
          \/ \E actual \in Actuals : CommitQuota(id, actual)
          \/ CommitExpired(id)
          \/ RollbackQuota(id)

Next == Client \/ Sweep \/ Tick

Spec == Init /\ [][Next]_vars

(* The clock runs, and worker 0's timer keeps calling PurgeExpired. *)
FairSpec == Spec /\ WF_vars(Tick) /\ WF_vars(Sweep)

-----------------------------------------------------------------------------
(***************************************************************************)
(* Balances and reserved amounts are 64-bit words whatever is refunded to  *)
(* a pool, and the clock a sweep works from is never ahead of the clock.   *)
(***************************************************************************)
TypeOK ==
    /\ entries \in [Keys -> Entry \cup {NoEntry}]
    /\ reservations \in [Ids -> Reservation \cup {NoReservation}]
    /\ seq \in 0 .. MaxReservations
    /\ now \in 0 .. MaxClock
    /\ purgeAt \in -1 .. now
    /\ locked \in BOOLEAN
    /\ todo \in SUBSET Ids
    /\ granted \in [Keys -> Int]
    /\ held \in [Keys -> Int]
    /\ consumed \in [Keys -> Nat]
    /\ overdraft \in [Keys -> Nat]
    /\ late \in [Keys -> BOOLEAN]
    /\ wrapped \in [Keys -> BOOLEAN]

(* What the pool, its reservations and its consumers have of it. *)
Accounted(k) == Num(entries[k]) + held[k] + consumed[k]

(***************************************************************************)
(* Quota is never made out of nothing: what is left in a pool, reserved    *)
(* from it and consumed never exceeds what clients put in (commits above   *)
(* the reserved amount, which the code accepts and clamps at an empty      *)
(* pool, are booked as overdraft).  No order of commits, rollbacks, sweeps *)
(* and writes to the pool refunds a reservation twice.  Pools on which     *)
(* 64-bit arithmetic wrapped are excluded.                                 *)
(***************************************************************************)
NoOverGrant ==
    \A k \in Keys :
        ~wrapped[k] => Accounted(k) <= granted[k] + overdraft[k]

(***************************************************************************)
(* Quota is never lost either, as long as no client settles a reservation  *)
(* after its deadline: a client that commits or rolls back in time, and a  *)
(* client that crashed and left its reservation to the sweep, leave the    *)
(* books balanced, even if the pool was deleted, expired or overwritten in *)
(* the meantime.                                                           *)
(***************************************************************************)
Conservation ==
    \A k \in Keys :
        ~wrapped[k] /\ ~late[k] => Accounted(k) = granted[k] + overdraft[k]

(***************************************************************************)
(* The sweep cancels nothing early: although it works from a clock it read *)
(* before it had the lock, every reservation it is about to refund is      *)
(* still in the table and is expired by the current clock.                 *)
(***************************************************************************)
SweepTakesOnlyExpired ==
    \A id \in todo : Outstanding(id) /\ IsExpired(reservations[id], now)

(* The inductive invariant: the sweep has work in hand only under the lock. *)
SweepInv == (~locked => todo = {}) /\ SweepTakesOnlyExpired

IInv == TypeOK /\ SweepInv /\ NoOverGrant /\ Conservation

(***************************************************************************)
(* The books agree with the table: the held amount of a pool is the sum of *)
(* the amounts of its reservations.  Each amount enters and leaves the     *)
(* table exactly once.                                                     *)
(***************************************************************************)
HeldIsSum ==
    \A k \in Keys :
        held[k] = MapThenSumSet(
            LAMBDA id : reservations[id].amount,
            {id \in Ids : Outstanding(id) /\ reservations[id].key = k})

(* With it, what makes the sum inductive: no id above seq has been issued. *)
HeldInv == (\A id \in Ids : Outstanding(id) => id <= seq) /\ HeldIsSum

(***************************************************************************)
(* Auto-rollback: a reservation whose holder crashed is cancelled sooner   *)
(* or later once its deadline has passed, even if each sweep takes only    *)
(* SampleLimit reservations and clients keep the shard busy.               *)
(***************************************************************************)
AutoRollback ==
    \A id \in Ids :
        (Outstanding(id) /\ IsExpired(reservations[id], now))
            ~> ~Outstanding(id)
=============================================================================
