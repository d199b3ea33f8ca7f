------------------------------- MODULE KvStore -------------------------------
(***************************************************************************)
(* The key-value and TTL operations of MemoryStore on one of its shards,   *)
(* and the background sweep (PurgeExpired) that runs against them.         *)
(*                                                                         *)
(* Every operation locks the shard, then reads the clock, so it is one     *)
(* step.  PurgeExpired reads the clock once, before it locks the first     *)
(* shard, and uses that reading for every shard: by the time it holds this *)
(* shard's mutex, its clock may be old.                                    *)
(***************************************************************************)
EXTENDS Shard

CONSTANT
    SampleLimit   \* most entries one sweep erases from a table of a shard

ASSUME KvAssumption ==
    /\ Writes \subseteq Value
    /\ Ttls \subseteq 0 .. MaxU64
    /\ Deltas \subseteq MinI64 .. MaxI64
    /\ SampleLimit \in Nat \ {0}
    /\ MaxClock \in Nat

VARIABLES
    purgeAt,   \* the clock reading of the sweep under way, or NotPurging
    reply      \* the answer to the last request

shardVars == <<entries, now, purgeAt, reply>>

NotPurging == -1

Reply == [op : {"set", "get", "del", "expire", "persist", "pttl", "incr"},
          key : Keys, ok : BOOLEAN, val : Int]
            \cup [op : {"none"}, ok : BOOLEAN, val : Int]

Answer(op, k, ok, val) ==
    reply' = [op |-> op, key |-> k, ok |-> ok, val |-> val]

Leave(k, e) ==
    /\ entries' = [entries EXCEPT ![k] = e]
    /\ UNCHANGED <<now, purgeAt>>

ShardInit ==
    /\ entries = [k \in Keys |-> NoEntry]
    /\ now = 0
    /\ purgeAt = NotPurging
    /\ reply = [op |-> "none", ok |-> TRUE, val |-> 0]

Set(k, v, cond, ttl) ==
    /\ Leave(k, AfterSet(entries[k], now, v, cond, ttl))
    /\ Answer("set", k, ~Refuses(cond, Lookup(entries[k], now)), 0)

(* Get; Exists and Type do the same to the entry and answer with less. *)
Get(k) ==
    LET found == Lookup(entries[k], now)
    IN  /\ Leave(k, found)
        /\ Answer("get", k, found # NoEntry,
                  IF found = NoEntry THEN 0 ELSE found.num)

(* Del reports whether an entry was stored; it never looks at the deadline. *)
Del(k) ==
    /\ Leave(k, NoEntry)
    /\ Answer("del", k, entries[k] # NoEntry, 0)

Expire(k, ttl) ==
    /\ Leave(k, AfterExpire(entries[k], now, ttl))
    /\ Answer("expire", k, Live(entries[k], now), 0)

Persist(k) ==
    /\ Leave(k, AfterPersist(entries[k], now))
    /\ Answer("persist", k,
              Live(entries[k], now) /\ entries[k].expire_at # 0, 0)

(* Pttl; Ttl answers with the same number rounded up to seconds. *)
Pttl(k) ==
    LET found == Lookup(entries[k], now)
    IN  /\ Leave(k, found)
        /\ Answer("pttl", k, TRUE,
                  IF found = NoEntry THEN -2
                  ELSE IF found.expire_at = 0 THEN -1
                  ELSE found.expire_at - now)

IncrBy(k, delta, ttl) ==
    LET fails == Live(entries[k], now) /\ IncrFails(entries[k], delta)
        after == AfterIncrBy(entries[k], now, delta, ttl)
    IN  /\ Leave(k, after)
        /\ Answer("incr", k, ~fails, IF fails THEN 0 ELSE after.num)

ShardTick ==
    /\ now < MaxClock
    /\ now' = now + 1
    /\ UNCHANGED <<entries, purgeAt, reply>>

(* PurgeExpired reads its clock. *)
PurgeBegin ==
    /\ purgeAt = NotPurging
    /\ purgeAt' = now
    /\ UNCHANGED <<entries, now, reply>>

PurgeCandidates == {k \in Keys : entries[k] # NoEntry /\ IsExpired(entries[k], purgeAt)}

(* Mutant: the next sweep goes on with the clock of this one. *)
PurgeShard_KeepsClock ==
    /\ purgeAt # NotPurging
    /\ \E gone \in Samples(PurgeCandidates, SampleLimit) :
          entries' = [k \in Keys |-> IF k \in gone THEN NoEntry ELSE entries[k]]
    /\ UNCHANGED <<now, purgeAt, reply>>

(* PurgeExpired sweeps the shard's entries under its mutex. *)
PurgeShard ==
    /\ purgeAt # NotPurging
    /\ \E gone \in Samples(PurgeCandidates, SampleLimit) :
          entries' = [k \in Keys |-> IF k \in gone THEN NoEntry ELSE entries[k]]
    /\ purgeAt' = NotPurging
    /\ UNCHANGED <<now, reply>>

ShardNext ==
    \/ ShardTick \/ PurgeBegin \/ PurgeShard
    \/ \E k \in Keys :
          \/ Get(k) \/ Del(k) \/ Persist(k) \/ Pttl(k)
          \/ \E ttl \in Ttls : Expire(k, ttl)
          \/ \E ttl \in Ttls, delta \in Deltas : IncrBy(k, delta, ttl)
          \/ \E ttl \in Ttls, v \in Writes, cond \in WriteCondition :
                Set(k, v, cond, ttl)

ShardSpec == ShardInit /\ [][ShardNext]_shardVars

(* The timer of worker 0 calls PurgeExpired again and again. *)
ShardFairSpec == ShardSpec /\ WF_shardVars(PurgeBegin) /\ WF_shardVars(PurgeShard) /\ WF_shardVars(ShardTick)

-----------------------------------------------------------------------------
(***************************************************************************)
(* Entries stay entries: a counter never leaves its signed 64-bit range    *)
(* (IncrBy's overflow checks), and the clock a sweep works from is never   *)
(* ahead of the clock.                                                     *)
(***************************************************************************)
ShardTypeOK ==
    /\ entries \in [Keys -> Entry \cup {NoEntry}]
    /\ now \in 0 .. MaxClock
    /\ purgeAt \in -1 .. now
    /\ reply \in Reply

(***************************************************************************)
(* The shard implements a map whose keys vanish exactly at their deadline, *)
(* whether the expired entry is erased by the next request that finds it,  *)
(* by a sweep working from an old clock, or not yet: every reply is the    *)
(* one the ideal map gives.  One reply tells which it was, and the ideal   *)
(* map says so: DEL of an expired key answers TRUE until the entry has     *)
(* been erased and FALSE from then on.                                     *)
(***************************************************************************)
Ideal == INSTANCE TtlMap WITH
    visible <- [k \in Keys |-> Lookup(entries[k], now)],
    clock <- now,
    remains <- {k \in Keys : entries[k] # NoEntry /\ IsExpired(entries[k], now)},
    MinCount <- MinI64,
    MaxCount <- MaxI64

ImplementsTtlMap == Ideal!Spec

(***************************************************************************)
(* The sweep reclaims memory: an entry that has expired does not stay in   *)
(* the table for ever, even if no request ever asks for its key again.     *)
(***************************************************************************)
ExpiredIsReclaimed ==
    \A k \in Keys :
        (entries[k] # NoEntry /\ IsExpired(entries[k], now))
            ~> (entries[k] = NoEntry \/ ~IsExpired(entries[k], now))
=============================================================================
