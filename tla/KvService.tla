------------------------------ MODULE KvService ------------------------------
(***************************************************************************)
(* The key-value requests of the two front ends, HttpService::HandleKv...  *)
(* and the opcodes of Processor, over time and across restarts.            *)
(*                                                                         *)
(* A worker thread takes the shard's mutex for one call of the store at a  *)
(* time.  A request that changes a key calls the store and then appends a  *)
(* line to the log; DEL and EXISTS of several keys, and the HTTP TTL       *)
(* request, which asks for seconds and then for milliseconds, call the     *)
(* store several times.  Between any two calls other workers run, keys     *)
(* expire and the process may be killed.                                   *)
(*                                                                         *)
(* The log holds times to live rather than deadlines and says nothing of   *)
(* keys that expire.  A restart replays it with the clock of the restart.  *)
(* A killed process keeps what it has written (Aof models power failures), *)
(* and the load is taken to be shorter than any time to live.              *)
(***************************************************************************)
EXTENDS Shard, SequencesExt

CONSTANTS
    EmptyKeys,     \* the empty key, if it is among the keys: only the binary
                   \* protocol takes it, and no line of it is replayed
    Workers,       \* threads of the server
    Lists,         \* lists of keys in DEL and EXISTS requests
    MsPerSecond,   \* 1000 in the code
    MaxRequests,   \* bound on the requests
    MaxKills,      \* bound on the restarts
    NoLine,        \* nothing to append
    Idle           \* a worker without a request

(* The commands that change a key, as the handlers log them. *)
Command ==
         [op : {"SET"}, key : Keys, val : Writes, cond : WriteCondition, ttl : Ttls]
    \cup [op : {"QUOTA_INIT"}, key : Keys, val : Writes, cond : {"Always"}, ttl : Ttls \cup {0}]
    \cup [op : {"DEL"}, key : Keys]
    \cup [op : {"PEXPIRE"}, key : Keys, ttl : Ttls]
    \cup [op : {"INCRBY"}, key : Keys, delta : Deltas, ttl : Ttls]

(* A request under way: its keys, the answers so far, and the line to append. *)
Task ==
    [op : {"SET", "QUOTA_INIT", "PEXPIRE", "INCRBY", "DEL", "EXISTS", "TTL"},
     keys : Seq(Keys), out : Seq(BOOLEAN \cup Int), line : Command \cup {NoLine},
     seen : [live : SUBSET Keys, stored : SUBSET Keys, gone : SUBSET Keys, wrote : SUBSET Keys]]

ASSUME KvServiceAssumption ==
    /\ IsFiniteSet(Workers)
    /\ NoLine \notin Command
    /\ Idle \notin Task
    /\ Writes \subseteq Value
    /\ Deltas \subseteq MinI64 .. MaxI64
    /\ EmptyKeys \subseteq Keys
    /\ Lists \subseteq Seq(Keys) \ {<<>>}
    /\ {MaxClock, MaxRequests, MaxKills} \subseteq Nat
    /\ MsPerSecond \in Nat \ {0}
    /\ \A ttl \in Ttls : ttl \in Nat /\ MaxClock + ttl <= MaxU64

VARIABLES
    file,      \* the lines of gatekeeper.aof, in order
    up,        \* the process is running
    task,      \* the request each worker is busy with
    served,    \* requests so far
    kills,     \* restarts so far
    unsure     \* history: keys that expired, or that two workers changed at
               \* once, since they were last written or deleted outright

vars == <<entries, now, file, up, task, served, kills, unsure>>

Empty == [k \in Keys |-> NoEntry]

-----------------------------------------------------------------------------
(* What a logged command does to the entry of its key, live or on replay. *)

Perform(e, t, c) ==
    CASE c.op \in {"SET", "QUOTA_INIT"} -> AfterSet(e, t, c.val, c.cond, c.ttl)
      [] c.op = "DEL"                   -> NoEntry
      [] c.op = "PEXPIRE"               -> AfterExpire(e, t, c.ttl)
      [] c.op = "INCRBY"                -> AfterIncrBy(e, t, c.delta, c.ttl)

(* The store's answer is true, and the command is logged. *)
Succeeds(e, t, c) ==
    CASE c.op \in {"SET", "QUOTA_INIT"} -> ~Refuses(c.cond, Lookup(e, t))
      [] c.op = "DEL"                   -> e # NoEntry
      [] c.op = "PEXPIRE"               -> Live(e, t)
      [] c.op = "INCRBY"                -> ~(Live(e, t) /\ IncrFails(e, c.delta))

(* Mutant: an EXPIRE that erases the key is not logged. *)
Line_NoErasure(c) ==
    IF c.op = "PEXPIRE" /\ c.ttl = 0 THEN NoLine
    ELSE IF c.op = "QUOTA_INIT" THEN [c EXCEPT !.ttl = 0] ELSE c

(* The time to live of a pool is not in its line. *)
Line(c) == IF c.op = "QUOTA_INIT" THEN [c EXCEPT !.ttl = 0] ELSE c

(* The handlers the loader calls refuse an empty key, but for DEL, which finds nothing. *)
Loaded(e, t, c) == IF c.key \in EmptyKeys THEN e ELSE Perform(e, t, c)

(* AofLoader::Load at time t. *)
Replay(lines, t) ==
    FoldLeft(LAMBDA s, c : [s EXCEPT ![c.key] = Loaded(@, t, c)], Empty, lines)

-----------------------------------------------------------------------------
Busy(w) == task[w] # Idle

(* Another worker has changed the key and not logged it yet. *)
Races(w, k) ==
    \E v \in Workers \ {w} : Busy(v) /\ task[v].line # NoLine /\ task[v].line.key = k

(* Commands that leave the same entry whatever they find. *)
Outright(c) ==
    \/ c.op \in {"QUOTA_INIT", "DEL"}
    \/ c.op = "SET" /\ c.cond = "Always"
    \/ c.op = "PEXPIRE" /\ c.ttl = 0

Doubt(w, c, ok) ==
    unsure' = IF ~ok THEN unsure
              ELSE IF Races(w, c.key) THEN unsure \cup {c.key}
              ELSE IF Outright(c) THEN unsure \ {c.key}
              ELSE unsure

(***************************************************************************)
(* History kept for the requests under way: the keys that were live,       *)
(* stored, and not live at some moment of the request, and the keys some   *)
(* command changed.                                                        *)
(***************************************************************************)
Seen(es, t) ==
    [live   |-> {k \in Keys : Live(es[k], t)},
     stored |-> {k \in Keys : es[k] # NoEntry},
     gone   |-> {k \in Keys : ~Live(es[k], t)},
     wrote  |-> {}]

Join(s, r) == [f \in DOMAIN s |-> s[f] \cup r[f]]

Watch(tasks, es, t, wrote) ==
    [v \in Workers |->
        IF tasks[v] = Idle \/ tasks[v].op \notin {"DEL", "EXISTS", "TTL"} THEN tasks[v]
        ELSE [tasks[v] EXCEPT !.seen =
                 Join(@, [Seen(es, t) EXCEPT !.wrote = wrote])]]

NothingSeen == [live |-> {}, stored |-> {}, gone |-> {}, wrote |-> {}]

NewTask(op, keys) ==
    [op |-> op, keys |-> keys, out |-> <<>>, line |-> NoLine, seen |-> NothingSeen]

Init ==
    /\ entries = Empty
    /\ now = 0
    /\ file = <<>>
    /\ up = TRUE
    /\ task = [w \in Workers |-> Idle]
    /\ served = 0
    /\ kills = 0
    /\ unsure = {}

-----------------------------------------------------------------------------
(* Requests of one call of the store *)

Accept(w) ==
    /\ up
    /\ ~Busy(w)
    /\ served < MaxRequests
    /\ served' = served + 1
    /\ UNCHANGED <<now, file, up, kills>>

(* Call the store; a call that succeeds leaves a line to append. *)
Write(w, c) ==
    LET ok    == Succeeds(entries[c.key], now, c)
        after == [entries EXCEPT ![c.key] = Perform(@, now, c)]
        mine  == IF ok THEN [NewTask(c.op, <<c.key>>) EXCEPT !.line = Line(c)] ELSE Idle
    IN  /\ Accept(w)
        /\ entries' = after
        /\ task' = Watch([task EXCEPT ![w] = mine], after, now, IF ok THEN {c.key} ELSE {})
        /\ Doubt(w, c, ok)

HandleKvSet(w, k, v, cond, ttl) ==
    Write(w, [op |-> "SET", key |-> k, val |-> v, cond |-> cond, ttl |-> ttl])

HandleQuotaInit(w, k, v, ttl) ==
    /\ v.clean
    /\ v.num >= 0
    /\ Write(w, [op |-> "QUOTA_INIT", key |-> k, val |-> v, cond |-> "Always", ttl |-> ttl])

HandleKvExpire(w, k, ttl) == Write(w, [op |-> "PEXPIRE", key |-> k, ttl |-> ttl])

(* Only the binary protocol has it. *)
Incr(w, k, delta, ttl) ==
    Write(w, [op |-> "INCRBY", key |-> k, delta |-> delta, ttl |-> ttl])

(* The store erases an entry that has expired. *)
Read(w, k) ==
    LET after == [entries EXCEPT ![k] = Lookup(@, now)]
    IN  /\ Accept(w)
        /\ entries' = after
        /\ task' = Watch(task, after, now, {})
        /\ UNCHANGED unsure

HandleKvGet(w, k) == Read(w, k)

HandleKvType(w, k) == Read(w, k)

-----------------------------------------------------------------------------
(* Requests of several calls *)

Begin(w, op, keys) ==
    /\ Accept(w)
    /\ task' = Watch([task EXCEPT ![w] = NewTask(op, keys)], entries, now, {})
    /\ UNCHANGED <<entries, unsure>>

HandleKvDel(w, keys) == Begin(w, "DEL", keys)

HandleKvExists(w, keys) == Begin(w, "EXISTS", keys)

(* The key, once for Ttl and once for Pttl. *)
HandleKvTtl(w, k) ==
    /\ k \notin EmptyKeys
    /\ Begin(w, "TTL", <<k, k>>)

(* The worker calls the store for the next key; its last line is written. *)
AtCall(w, op) ==
    /\ up
    /\ Busy(w)
    /\ task[w].op = op
    /\ task[w].line = NoLine
    /\ Len(task[w].out) < Len(task[w].keys)

NextKey(w) == task[w].keys[Len(task[w].out) + 1]

Called(w, after, answer, line, wrote) ==
    /\ entries' = after
    /\ task' = Watch([task EXCEPT ![w].out = Append(@, answer), ![w].line = line],
                     after, now, wrote)
    /\ UNCHANGED <<now, file, up, served, kills>>

(* Mutant: the line names the first key of the request. *)
DelNext_FirstKey(w) ==
    LET k  == NextKey(w)
        c  == [op |-> "DEL", key |-> k]
        ok == Succeeds(entries[k], now, c)
    IN  /\ AtCall(w, "DEL")
        /\ Called(w, [entries EXCEPT ![k] = NoEntry], ok,
                  IF ok THEN [c EXCEPT !.key = task[w].keys[1]] ELSE NoLine,
                  IF ok THEN {k} ELSE {})
        /\ Doubt(w, c, ok)

DelNext(w) ==
    LET k  == NextKey(w)
        c  == [op |-> "DEL", key |-> k]
        ok == Succeeds(entries[k], now, c)
    IN  /\ AtCall(w, "DEL")
        /\ Called(w, [entries EXCEPT ![k] = NoEntry], ok, IF ok THEN c ELSE NoLine,
                  IF ok THEN {k} ELSE {})
        /\ Doubt(w, c, ok)

ExistsNext(w) ==
    LET k == NextKey(w)
    IN  /\ AtCall(w, "EXISTS")
        /\ Called(w, [entries EXCEPT ![k] = Lookup(@, now)], Live(entries[k], now), NoLine, {})
        /\ UNCHANGED unsure

Remaining(e) == IF e = NoEntry THEN -2 ELSE IF e.expire_at = 0 THEN -1 ELSE e.expire_at - now

(* Mutant: the remaining time is rounded down. *)
RoundUp_Down(ms) == IF ms < 0 THEN ms ELSE ms \div MsPerSecond

RoundUp(ms) == IF ms < 0 THEN ms ELSE (ms + MsPerSecond - 1) \div MsPerSecond

(* Ttl answers in seconds, Pttl in milliseconds. *)
TtlNext(w) ==
    LET k  == NextKey(w)
        ms == Remaining(Lookup(entries[k], now))
    IN  /\ AtCall(w, "TTL")
        /\ Called(w, [entries EXCEPT ![k] = Lookup(@, now)],
                  IF task[w].out = <<>> THEN RoundUp(ms) ELSE ms, NoLine, {})
        /\ UNCHANGED unsure

-----------------------------------------------------------------------------
Answered(w) == task[w].op \notin {"DEL", "EXISTS", "TTL"}

(* AofWriter::Append; a request of one call is answered after it. *)
AppendLine(w) ==
    /\ up
    /\ Busy(w)
    /\ task[w].line # NoLine
    /\ file' = Append(file, task[w].line)
    /\ task' = [task EXCEPT ![w] = IF Answered(w) THEN Idle ELSE [@ EXCEPT !.line = NoLine]]
    /\ UNCHANGED <<entries, now, up, served, kills, unsure>>

Finished(w) ==
    Busy(w) /\ task[w].line = NoLine /\ Len(task[w].out) = Len(task[w].keys)

Finish(w) ==
    /\ up
    /\ Finished(w)
    /\ task' = [task EXCEPT ![w] = Idle]
    /\ UNCHANGED <<entries, now, file, up, served, kills, unsure>>

Expiring == {k \in Keys : Live(entries[k], now) /\ IsExpired(entries[k], now + 1)}

Tick ==
    /\ now < MaxClock
    /\ now' = now + 1
    /\ unsure' = unsure \cup Expiring
    /\ task' = Watch(task, entries, now + 1, {})
    /\ UNCHANGED <<entries, file, up, served, kills>>

(* PurgeExpired, which KvStore models in detail, erases a key. *)
Sweep(k) ==
    LET after == [entries EXCEPT ![k] = NoEntry]
    IN  /\ up
        /\ entries[k] # NoEntry
        /\ IsExpired(entries[k], now)
        /\ entries' = after
        /\ task' = Watch(task, after, now, {})
        /\ UNCHANGED <<now, file, up, served, kills, unsure>>

Kill ==
    /\ up
    /\ kills < MaxKills
    /\ up' = FALSE
    /\ entries' = Empty
    /\ task' = [w \in Workers |-> Idle]
    /\ unsure' = {}
    /\ UNCHANGED <<now, file, served, kills>>

Restart ==
    /\ ~up
    /\ up' = TRUE
    /\ kills' = kills + 1
    /\ entries' = Replay(file, now)
    /\ UNCHANGED <<now, file, task, served, unsure>>

-----------------------------------------------------------------------------
Requests(w) ==
    \/ \E k \in Keys :
          \/ \E v \in Writes, ttl \in Ttls :
                \/ HandleQuotaInit(w, k, v, ttl)
                \/ \E cond \in WriteCondition : HandleKvSet(w, k, v, cond, ttl)
          \/ \E ttl \in Ttls : HandleKvExpire(w, k, ttl)
          \/ \E delta \in Deltas, ttl \in Ttls : Incr(w, k, delta, ttl)
          \/ HandleKvGet(w, k) \/ HandleKvType(w, k)
          \/ HandleKvTtl(w, k)
    \/ \E keys \in Lists : HandleKvDel(w, keys) \/ HandleKvExists(w, keys)

Next ==
    \/ \E w \in Workers :
          \/ Requests(w)
          \/ DelNext(w) \/ ExistsNext(w) \/ TtlNext(w)
          \/ AppendLine(w) \/ Finish(w)
    \/ \E k \in Keys : Sweep(k)
    \/ Tick \/ Kill \/ Restart

Spec == Init /\ [][Next]_vars

-----------------------------------------------------------------------------
(***************************************************************************)
(* Every value stays a 64-bit number with a deadline the clock can reach,  *)
(* and the line a worker is about to append is that of the key it has just *)
(* changed.                                                                *)
(***************************************************************************)
TypeOK ==
    /\ entries \in [Keys -> Entry \cup {NoEntry}]
    /\ now \in 0 .. MaxClock
    /\ up \in BOOLEAN
    /\ unsure \subseteq Keys
    /\ \A w \in Workers : Busy(w) =>
          /\ Len(task[w].out) <= Len(task[w].keys)
          /\ task[w].line # NoLine =>
                task[w].line.key = Last(<<task[w].keys[1]>> \o SubSeq(task[w].keys, 1, Len(task[w].out)))

(* The lines that are not in the file yet, in some order. *)
Unwritten ==
    SetToSeq({task[w].line : w \in {v \in Workers : Busy(v) /\ task[v].line # NoLine}})

NotEarlier(d, e) == d = 0 \/ (e # 0 /\ d >= e)

(***************************************************************************)
(* What the log keeps of keys with a time to live: for every key that has  *)
(* not expired since it was last written outright, a restart at any moment *)
(* (in the middle of a DEL of several keys too) brings back the value that *)
(* is in memory, or no key where there is none, with a deadline that is    *)
(* not earlier.  Keys that have expired are the exception: neither their   *)
(* expiry nor the DEL of a key the sweep has erased is in the log, so they *)
(* come back, and a SET NX or an INCRBY after the expiry is replayed on    *)
(* the old value.  So are keys two workers change at once, and the empty   *)
(* key, which never comes back.                                            *)
(***************************************************************************)
LiveKeysSurvive ==
    LET recovered == Replay(file \o Unwritten, now)
    IN  up => \A k \in Keys \ (unsure \cup EmptyKeys) :
                 IF entries[k] = NoEntry THEN recovered[k] = NoEntry
                 ELSE /\ recovered[k] # NoEntry
                      /\ recovered[k].num = entries[k].num
                      /\ recovered[k].clean = entries[k].clean
                      /\ NotEarlier(recovered[k].expire_at, entries[k].expire_at)

Among(keys, S) == Cardinality({i \in DOMAIN keys : keys[i] \in S})

Count(out) == Cardinality({i \in DOMAIN out : out[i]})

(***************************************************************************)
(* The answers of requests that call the store several times fit the       *)
(* moments of the request.  EXISTS and DEL of several keys count at least  *)
(* what was there at every moment and at most what was there at some       *)
(* moment, and after a DEL every key it names has been absent; a key that  *)
(* is named twice counts twice in EXISTS.  The two numbers of the HTTP TTL *)
(* answer, seconds first, agree unless a worker wrote the key in between:  *)
(* both say "no key" or "no deadline", or the milliseconds are at most the *)
(* seconds, or the key has just expired.                                   *)
(***************************************************************************)
AnswersFit ==
    \A w \in Workers : Busy(w) /\ Finished(w) =>
        LET r == task[w]
        IN  /\ r.op = "EXISTS" =>
                  /\ Count(r.out) <= Among(r.keys, r.seen.live)
                  /\ Count(r.out) >= Among(r.keys, Keys \ r.seen.gone)
            /\ r.op = "DEL" =>
                  /\ Count(r.out) <= Among(r.keys, r.seen.stored)
                  /\ ToSet(r.keys) \subseteq r.seen.gone
            /\ r.op = "TTL" =>
                  \/ r.keys[1] \in r.seen.wrote
                  \/ r.out[1] < 0 /\ r.out[2] = r.out[1]
                  \/ /\ r.out[1] > 0
                     /\ r.out[2] = -2 \/ r.out[2] \in 1 .. r.out[1] * MsPerSecond
=============================================================================
