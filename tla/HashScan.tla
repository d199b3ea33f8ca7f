------------------------------ MODULE HashScan ------------------------------
(***************************************************************************)
(* The hash tables behind the shards of MemoryStore, and the walks over    *)
(* them: SCAN, which hands the client a cursor between two calls, and KEYS *)
(* and DBSIZE, which visit all shards in one call but lock them one after  *)
(* the other.  Between two steps of a walk other clients write, keys       *)
(* expire, the sweep erases, and a table that fills up doubles its buckets *)
(* and moves every entry.                                                  *)
(*                                                                         *)
(* A SCAN cursor is shard << 32 | bucket; it is kept as the two numbers.   *)
(***************************************************************************)
EXTENDS Integers, Sequences, FiniteSets, FiniteSetsExt

CONSTANTS
    Keys,             \* keys: sequences of characters
    HashOf,           \* std::hash of a key
    ShardOf,          \* GetShard, a hash function of its own
    NumShards,        \* kNumShards
    InitialCapacity,  \* buckets of an empty table
    Counts,           \* COUNT arguments of SCAN
    DefaultCount,     \* what a COUNT of 0 stands for
    Patterns          \* arguments of KEYS

Shards == 0 .. NumShards - 1

ASSUME HashScanAssumption ==
    /\ NumShards \in Nat \ {0}
    /\ InitialCapacity \in Nat \ {0}
    /\ HashOf \in [Keys -> Nat]
    /\ ShardOf \in [Keys -> Shards]
    /\ Counts \subseteq Nat
    /\ DefaultCount \in Nat \ {0}
    /\ Keys \subseteq Seq(STRING)
    /\ Patterns \subseteq Seq(STRING)

VARIABLES
    tables,    \* StorageShard::entries of every shard
    expired,   \* stored keys whose deadline has passed
    walk,      \* the walk under way: command, pattern or COUNT, and where it is
    result,    \* the keys the walk has returned
    due        \* history: keys live ever since the walk began, not yet returned

vars == <<tables, expired, walk, result, due>>

-----------------------------------------------------------------------------
(* MatchPattern *)

(* The key is used up: what is left of the pattern must be stars. *)
RestMatches(pat, p) == \A i \in p + 1 .. Len(pat) : pat[i] = "*"

(***************************************************************************)
(* Where the loop of MatchPattern can be: p and s count the characters of  *)
(* the pattern and the key consumed, star is the place of the last '*'     *)
(* seen (-1 if none) and match the part of the key consumed before what    *)
(* that '*' was last tried with.                                           *)
(***************************************************************************)
Places(pat, str) ==
    {x \in [p : 0 .. Len(pat), s : 0 .. Len(str),
            star : -1 .. Len(pat) - 1, match : 0 .. Len(str)] :
        x.star < x.p /\ x.match <= x.s}

MatchPattern(pat, str) ==
    LET at(p, c) == p < Len(pat) /\ pat[p + 1] = c
        loop[x \in Places(pat, str)] ==
            IF x.s = Len(str) THEN RestMatches(pat, x.p)
            ELSE IF at(x.p, "?") \/ at(x.p, str[x.s + 1])
                 THEN loop[[x EXCEPT !.p = @ + 1, !.s = @ + 1]]
            ELSE IF at(x.p, "*")
                 THEN loop[[x EXCEPT !.p = @ + 1, !.star = x.p, !.match = x.s]]
            ELSE IF x.star # -1
                 THEN loop[[x EXCEPT !.p = x.star + 1, !.s = x.match + 1, !.match = @ + 1]]
            ELSE FALSE
    IN  pat = <<"*">> \/ loop[[p |-> 0, s |-> 0, star |-> -1, match |-> 0]]

(* The pattern's character c stands for the characters after a, up to b, of the key. *)
StandsFor(c, str, a, b) ==
    IF c = "*" THEN a <= b ELSE b = a + 1 /\ c \in {"?", str[b]}

(* What a pattern is to mean: the key can be cut into what its characters stand for. *)
Glob(pat, str) ==
    \E cut \in [0 .. Len(pat) -> 0 .. Len(str)] :
        /\ cut[0] = 0
        /\ cut[Len(pat)] = Len(str)
        /\ \A i \in 1 .. Len(pat) : StandsFor(pat[i], str, cut[i - 1], cut[i])

-----------------------------------------------------------------------------
(* HashTable: a record of its buckets, each the set of its keys, and size_ *)

EmptyTable == [buckets |-> [b \in 0 .. InitialCapacity - 1 |-> {}], size |-> 0]

Capacity(t) == Cardinality(DOMAIN t.buckets)

Stored(t) == UNION {t.buckets[b] : b \in DOMAIN t.buckets}

HashKey(t, k) == HashOf[k] % Capacity(t)

Find(t, k) == k \in t.buckets[HashKey(t, k)]

Resize(t, capacity) ==
    IF capacity <= t.size THEN t
    ELSE [t EXCEPT !.buckets =
             [b \in 0 .. capacity - 1 |-> {k \in Stored(t) : HashOf[k] % capacity = b}]]

(* Mutant: the table grows by half. *)
Grown_ByHalf(t) ==
    IF 4 * (t.size + 1) > 3 * Capacity(t) THEN Resize(t, (3 * Capacity(t) + 1) \div 2) ELSE t

(* max_load_factor_ is 0.75. *)
Grown(t) ==
    IF 4 * (t.size + 1) > 3 * Capacity(t) THEN Resize(t, 2 * Capacity(t)) ELSE t

(* Mutant: the index of the bucket is not computed again after a resize. *)
Insert_OldIndex(t, k) ==
    IF Find(t, k) THEN t
    ELSE [buckets |-> [Grown(t).buckets EXCEPT ![HashKey(t, k)] = @ \cup {k}],
          size |-> t.size + 1]

Insert(t, k) ==
    IF Find(t, k) THEN t
    ELSE [buckets |-> [Grown(t).buckets EXCEPT ![HashKey(Grown(t), k)] = @ \cup {k}],
          size |-> t.size + 1]

Erase(t, k) ==
    IF ~Find(t, k) THEN t
    ELSE [buckets |-> [t.buckets EXCEPT ![HashKey(t, k)] = @ \ {k}],
          size |-> t.size - 1]

(* Mutant: the cursor after the last bucket is not turned into 0. *)
NextBucket_PastEnd(t, i) == i

NextBucket(t, i) == IF i >= Capacity(t) THEN 0 ELSE i

(* Mutant: a call that has its keys leaves the cursor at the bucket it ended in. *)
TableScan_Stays(t, cursor, count) ==
    LET from == IF cursor >= Capacity(t) THEN 0 ELSE cursor
        keys == t.buckets[from]
    IN  [next |-> IF keys # {} THEN from ELSE NextBucket(t, from + 1), keys |-> keys]

(***************************************************************************)
(* HashTable::Scan: whole buckets, from the cursor on, until at least      *)
(* count keys are collected or the buckets are used up.                    *)
(***************************************************************************)
TableScan(t, cursor, count) ==
    LET from == IF cursor >= Capacity(t) THEN 0 ELSE cursor
        upTo(i) == UNION {t.buckets[b] : b \in from .. i - 1}
        ends == {i \in from + 1 .. Capacity(t) : Cardinality(upTo(i)) >= count}
        end == IF ends = {} THEN Capacity(t) ELSE Min(ends)
    IN  [next |-> NextBucket(t, end), keys |-> upTo(end)]

-----------------------------------------------------------------------------
(* The other clients, the clock and the sweep *)

TableOf(k) == tables[ShardOf[k]]

LiveKeys == {k \in Keys : Find(TableOf(k), k) /\ k \notin expired}

NoWalk == [op |-> "none"]

Init ==
    /\ tables = [s \in Shards |-> EmptyTable]
    /\ expired = {}
    /\ walk = NoWalk
    /\ result = {}
    /\ due = {}

(* A key that is no longer what the walk under way saw of it. *)
Touched(k) ==
    /\ expired' = expired \ {k}
    /\ walk' = IF walk.op = "none" THEN walk ELSE [walk EXCEPT !.stale = @ \ {k}]

(* Set: an expired entry is erased first; a live one is updated in place. *)
Set(k) ==
    /\ k \notin LiveKeys
    /\ LET t == IF k \in expired THEN Erase(TableOf(k), k) ELSE TableOf(k)
       IN  tables' = [tables EXCEPT ![ShardOf[k]] = Insert(t, k)]
    /\ Touched(k)
    /\ UNCHANGED <<result, due>>

(* Del, or the erasure of an expired key by a request or by the sweep. *)
Forget(k) ==
    /\ Find(TableOf(k), k)
    /\ tables' = [tables EXCEPT ![ShardOf[k]] = Erase(@, k)]
    /\ Touched(k)
    /\ due' = due \ {k}
    /\ UNCHANGED result

DeadlinePasses(k) ==
    /\ k \in LiveKeys
    /\ expired' = expired \cup {k}
    /\ due' = due \ {k}
    /\ UNCHANGED <<tables, walk, result>>

-----------------------------------------------------------------------------
(* The walks *)

(***************************************************************************)
(* The clock is read at the start of a call: what has expired by then is   *)
(* left out, what expires during the call is not.                          *)
(***************************************************************************)
ScanBegin(count) ==
    /\ walk.op = "none"
    /\ walk' = [op |-> "SCAN", at |-> "shard", shard |-> 0, bucket |-> 0,
                count |-> IF count = 0 THEN DefaultCount ELSE count,
                page |-> 0, stale |-> expired]
    /\ result' = {}
    /\ due' = LiveKeys
    /\ UNCHANGED <<tables, expired>>

(* The client calls again with the cursor it was given. *)
ScanAgain ==
    /\ walk.op = "SCAN"
    /\ walk.at = "client"
    /\ walk' = [walk EXCEPT !.at = "shard", !.page = 0, !.stale = expired]
    /\ UNCHANGED <<tables, expired, result, due>>

Returned(keys) ==
    /\ result' = result \cup keys
    /\ due' = due \ keys
    /\ UNCHANGED <<tables, expired>>

(* One turn of the loop of MemoryStore::Scan, under the lock of a shard. *)
ScanShard ==
    /\ walk.op = "SCAN"
    /\ walk.at = "shard"
    /\ LET scan == TableScan(tables[walk.shard], walk.bucket, walk.count - walk.page)
           keys == scan.keys \ walk.stale
           page == walk.page + Cardinality(keys)
       IN  /\ Returned(keys)
           /\ \/ /\ scan.next = 0
                 /\ walk' = [walk EXCEPT
                        !.shard = @ + 1, !.bucket = 0, !.page = page,
                        !.at = IF walk.shard + 1 = NumShards THEN "end"
                               ELSE IF page < walk.count THEN "shard" ELSE "client"]
              \/ /\ scan.next # 0
                 /\ walk' = [walk EXCEPT !.bucket = scan.next, !.page = page,
                                         !.at = "client"]

KeysBegin(pat) ==
    /\ walk.op = "none"
    /\ walk' = [op |-> "KEYS", at |-> "shard", shard |-> 0, pattern |-> pat,
                stale |-> expired]
    /\ result' = {}
    /\ due' = {k \in LiveKeys : Glob(pat, k)}
    /\ UNCHANGED <<tables, expired>>

(* ForEach over one shard; DBSIZE counts what KEYS * lists. *)
KeysShard ==
    /\ walk.op = "KEYS"
    /\ walk.at = "shard"
    /\ Returned({k \in Stored(tables[walk.shard]) \ walk.stale :
                    MatchPattern(walk.pattern, k)})
    /\ walk' = [walk EXCEPT !.shard = @ + 1,
                            !.at = IF walk.shard + 1 = NumShards THEN "end" ELSE "shard"]

WalkEnd ==
    /\ walk.op # "none"
    /\ walk.at = "end"
    /\ walk' = NoWalk
    /\ result' = {}
    /\ due' = {}
    /\ UNCHANGED <<tables, expired>>

WalkStep == ScanAgain \/ ScanShard \/ KeysShard

Next ==
    \/ \E k \in Keys : Set(k) \/ Forget(k) \/ DeadlinePasses(k)
    \/ \E count \in Counts : ScanBegin(count)
    \/ \E pat \in Patterns : KeysBegin(pat)
    \/ WalkStep \/ WalkEnd

Spec == Init /\ [][Next]_vars

(* The client that walks goes on, and every lock is handed over. *)
FairSpec == Spec /\ WF_vars(WalkStep)

-----------------------------------------------------------------------------
(***************************************************************************)
(* Buckets hold keys of the shard, and a walk stands at a shard and a      *)
(* bucket that exist.                                                      *)
(***************************************************************************)
TypeOK ==
    /\ \A s \in Shards :
          /\ tables[s].size \in Nat
          /\ \A b \in DOMAIN tables[s].buckets :
                tables[s].buckets[b] \subseteq {k \in Keys : ShardOf[k] = s}
    /\ expired \subseteq Keys
    /\ result \subseteq Keys
    /\ due \subseteq Keys
    /\ walk.op = "SCAN" /\ walk.at # "end" =>
          /\ walk.shard \in Shards
          /\ walk.bucket \in DOMAIN tables[walk.shard].buckets

(***************************************************************************)
(* No entry is lost or doubled when a table grows: every stored key is     *)
(* found where its hash says, and nowhere else, size_ counts the nodes,    *)
(* and the load stays within max_load_factor_.                             *)
(***************************************************************************)
Placed ==
    \A s \in Shards :
        LET t == tables[s]
        IN  /\ \A b \in DOMAIN t.buckets : \A k \in t.buckets[b] : HashKey(t, k) = b
            /\ t.size = Cardinality(Stored(t))
            /\ 4 * t.size <= 3 * Capacity(t)

(***************************************************************************)
(* A finished walk has returned every key that was there and live during   *)
(* the whole walk, although tables grew and entries moved between its      *)
(* steps: what SCAN's "iterates keys incrementally using cursor" and KEYS  *)
(* promise.  It rests on the table doubling: an entry in a bucket the      *)
(* cursor has not reached stays in one the cursor has not reached.  And    *)
(* KEYS lists no key that its pattern does not stand for, although         *)
(* MatchPattern backtracks to the last '*' only.                           *)
(***************************************************************************)
WalkIsExact ==
    /\ walk.op # "none" /\ walk.at = "end" => due = {}
    /\ walk.op = "KEYS" => \A k \in result : Glob(walk.pattern, k)

(* Every walk ends, however much is written meanwhile: SCAN's cursor reaches 0. *)
WalkEnds == walk.op # "none" ~> walk.op # "none" /\ walk.at = "end"
=============================================================================
