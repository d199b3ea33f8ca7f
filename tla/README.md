# GateKeeper in TLA+

TLA+ modules, TLC configurations and TLAPS proofs for GateKeeper, the in-memory
key-value store, rate limiter, quota ledger and idempotency engine in `src/`.
`PROJECT.json` lists the runs, the mutants that show each property can fail, the
source lines behind every definition, the hazards and the findings.

## The system

| part | state | operations | interacts with |
|---|---|---|---|
| `MemoryStore` (storage/memory_store.cpp) | 64 shards, each a mutex and four tables: entries, reservations, rate limits, idempotency records; two atomic counters for ids | SET, GET, DEL, EXPIRE, PERSIST, TTL, INCRBY; RATE_LIMIT; RESERVE, COMMIT, ROLLBACK; IDEM_BEGIN, IDEM_COMPLETE, IDEM_FAIL, IDEM_GET | everything; an operation locks one shard, then reads the steady clock |
| background sweep (`PurgeExpired(50)`) | a clock reading | erases up to 50 expired records per table and shard, refunds expired reservations | called by worker 0's timer; reads the clock once, before the first lock |
| `Processor`, `HttpService` | none | one handler per command: store operation, then append to the log, then the answer | store, `AofWriter`; called by the worker threads |
| AOF (`AofWriter`, `AofLoader`, `Dispatcher`) | the file, what of it is on the disk | append under a mutex, fdatasync (policy `always`, and the timer), replay at start-up | handlers, start-up |
| SDK middleware (sdk/go, sdk/nodejs) | key, payload hash and owner token of the request in hand | begin, run the handler, report | idempotency records, over a network that loses messages |
| `ParkingLot` | waiters by key | park, broadcast, cancel, time out | nothing: the server never uses it |
| event loop, server, channels, decoder, streams, HTTP channel | file descriptors, buffers, worker threads | read, frame, dispatch, write, close, stop | sockets, handlers |
| hash table | buckets | insert, erase, resize, scan | the tables of a shard |
| CLI, configuration, logging, JSON | - | - | - |

What is hard here: the sweep works from an old clock while requests change the
records it judges; three parties can settle one reservation, and the pool it came
from is an ordinary key that anybody may delete or overwrite; owners of claims
crash, and answers are lost; two clients of one idempotency key race; windows roll
over while records expire; a worker changes the store and logs the change in two
steps that other workers and power failures can separate; what is logged is not
always what the loader accepts, and it says nothing of time; a request over several
keys is several locked calls; tables double under a cursor; sockets take and give
bytes in any pieces; a signal handler stops loops that are starting, sleeping or
busy.

For each component the properties that make it correct are in the table of runs
below; the hazards they answer are in `PROJECT.json`, each at its line.

## The modules

* **Words, Entries, Shard** - 64-bit words with their wrap-around, deadlines, the sampling
  of the sweep; the value of an entry and, as pure functions, what every key-value
  operation makes of it; the variables and arguments of one shard. A value is kept as
  the number `std::stoull`/`std::stoll` reads off its front and a flag that says whether
  that was all of it, because parsing is all the store ever does with it. A string with
  no number in front reads as 0, which is how every `catch (...)` of the quota code
  continues.
* **KvStore** - entries of one shard, one action per operation, `PurgeBegin`
  (the clock reading) and `PurgeShard` (the locked part) as two steps. `reply` is
  the last answer. **TtlMap** is the abstract map: keys vanish at their deadline, deadlines
  are exact, and there is no sweep. One thing of the implementation shows through: DEL
  answers true for an entry that has expired and that nobody has erased yet
  (memory_store.cpp:129-134), and false once the sweep was there. `TtlMap` therefore has
  `remains`, the vanished keys of which something is left, reclaimed at any moment; only
  `Del` reads them. `KvStore!ImplementsTtlMap` maps `visible` to what a lookup now would
  find, and `remains` to the entries that are stored and expired.
* **QuotaStore** - pools and reservations of one shard with all key-value
  operations on the pools. The sweep holds the mutex over several steps
  (`PurgeLock`, `PurgeRefund`, `PurgeUnlock`). The variables `granted`, `held`,
  `consumed`, `overdraft`, `late`, `wrapped` are an auditor's books, never read by
  the operations.
* **Idempotency** - the records of one shard and two kinds of clients: the SDK
  middleware as written, and a direct client that follows the README (own token,
  asks again on PARK). Clients are slow, crash, lose answers and reports, and
  direct ones repeat their reports.
* **RateLimiter** - the sliding window counter of one key, the HTTP check with its
  Retry-After, and the sweep of the record; `log` remembers what was really admitted
  in each window. The product of a count and a weight is computed in doubles and
  truncated; `Product` stands for what the machine computes, any function that is 0 for a
  count of 0 and leaves room for the sums in a word. For counts well below 2^53 it is at
  most one less than the exact product (5 * (1.0 - 4.0 / 5.0) truncates to 0), above it
  may be off in both directions. The deadline `(idx + 2) * window_ms` wraps around as in
  the code (`MulU64`); `Wraps` names the windows, of 2^63 ms and more, for which it does
  and whose counts are therefore forgotten.
* **Aof** - the tables as a pure state machine (`Perform`), the handlers that change
  them and later append a line, fdatasync, writes and syncs that fail, power failures
  that keep what was synced and any part of the rest, possibly ending within a line, and
  the loader. A line that follows a torn one becomes one line with it. `diverged` and
  `lost` name the keys and commands the log is known to lose: among them claims and
  reports the store accepts and the loader refuses (no key, no request hash, no owner
  token) and the message of a binary IDEM_FAIL, which is not logged. Binary handlers put
  keys, hashes, tokens and bodies between quotes as they are (processor.cpp:355, 397, 480,
  532, 575): if one of them holds a quote, a backslash or a control character
  (`OddKeys`, `OddTokens`, the hash and the body `"quoted"`), the line reads as any
  command of `Misreadings`, which stands for one that is refused as well (a RESERVE with
  a field too many), and a newline among them makes further lines of it (`AppendMore`).
  Not modelled: a write error after the first of these further lines, and a kernel that
  drops dirty pages for good after an fdatasync that failed (a later sync makes the file
  durable).
* **KvService** - the key-value requests of both front ends, store call by store call,
  with deadlines and restarts. `task` is the request a worker is busy with: the
  answers it has so far and the line it has yet to append. DEL and EXISTS take one
  step per key, the HTTP TTL request one for `Ttl` and one for `Pttl`. A restart
  replays the log with the clock of the restart. It uses the entry functions of
  Entries, which KvStore shows to implement the ideal map. `unsure` names the keys
  for which the log cannot be right: keys that expired, and keys two workers changed
  at once, since they were last written outright. The binary protocol accepts and
  logs the empty key, which the loader then refuses (`EmptyKeys`). The load is taken to be
  instantaneous, and a killed process keeps what it wrote (Aof has power failures).
* **HashScan** - two shards as hash tables with buckets, doubling at 3/4 load, the
  SCAN cursor (shard and bucket) that lives in a client while keys are set, deleted,
  expire and tables grow, KEYS shard by shard, and `MatchPattern` as a function of
  pattern and key, next to `Glob`, the relation it is meant to decide. The handlers of
  SCAN, KEYS and DBSIZE are registered with the `Dispatcher`, which only the loader and
  the tests use: no front end of the server reaches them, and they are modelled as what
  a caller of the `Dispatcher` or of `MemoryStore` gets.
* **Channel** - one connection, GKWP/2 or HTTP: requests arrive in any pieces, `Poll`
  is what `epoll_wait` returns, and the read handler, the decoder with its
  compaction, the stream table, `Send` and `HandleWrite` are steps of the worker.
  Bytes are counted, not spelled: an answer is a sequence of numbered units, a
  request a head and a body of so many units. The sum of head and Content-Length, which
  wraps around in the code for a Content-Length within a head of 2^64 (also "-1",
  http_channel.cpp:198), does not wrap here: requests have bodies far below.
* **ParkingLot** - the waiter lists; a broadcast or a purge takes its batch under the
  lock and calls it step by step while everybody else goes on. A list is the set of its
  registrations, which are numbered: the order of a list decides only who of a batch is
  called next, and the model leaves that open.
* **Server** - main, the worker threads and their event loops, the signal handler,
  which interrupts a thread and stops the loops one by one in two steps each
  (`running_ = false`, then the eventfd), exceptions, and clients that connect to
  any listening socket. A signal reaches the server until main has cleared `g_server`
  (server_main.cpp:103), after `Run` has returned too; `~Server` stops the loops once
  more. The callback of a connection is a loop (`HandleClient`, then `Serve` for every
  request that comes in meanwhile, until `Drained` or `CloseChannel`), since HandleRead
  goes on until EAGAIN. accept may fail with clients left in the queue, epoll_ctl may
  fail without anybody looking, and a loop may have no eventfd (`silent`). Not modelled:
  a failing epoll_ctl for a listening socket, a SIGTERM whose handler runs at the same time
  as that of a SIGINT, and a signal between a `Run` that throws and the end of main,
  when `g_server` is still set. `running_` is a plain bool written by another thread; the
  module says why single-step reads and writes are what the build produces.
* **KvProofs, QuotaProofs, IdempotencyProofs, RateLimiterProofs, AofProofs,
  HashScanProofs, ChannelProofs, ServerProofs** - the theorems about these modules,
  with their inductive invariants and lemmas. `KvProofs` is about both `KvService` and
  `KvStore`, `ServerProofs` about both `Server` and `ParkingLot`, which is why the
  initial predicate, next-state relation and specification of `KvStore` and `ParkingLot`
  have names of their own (`ShardInit`, `LotSpec`, ...).

MC modules only give values to constants (and an `ASSUME` in `MCHashScan` has TLC
compare `MatchPattern` with `Glob` on every pattern and key of up to four characters,
which `MatcherDecides` proves for all).

A shard's mutex makes every operation one step; nothing spans two shards except
the sweep, and one shard is therefore enough: the other 63 appear as the delay
between the sweep's clock reading and its lock. SCAN and KEYS do walk from shard to
shard, so `HashScan` has two.

How the modules compose: `Words` and `Entries` are shared by all store modules, and
`Shard` (the entries, the clock and what clients ask for) by `KvStore` and `KvService`;
`KvStore` implements `TtlMap` by refinement; `KvService` and `Aof` put front ends and the
log around the same entry functions, the one with time and requests of several calls,
the other with power failures, quota and idempotency; `Channel` takes the handler as one
step that turns a request into an answer, and `Server` takes the requests a channel
reads as steps of its worker.

## The runs

| run | checks | shows |
|---|---|---|
| `kv` | `ShardTypeOK`, `ImplementsTtlMap`, `ExpiredIsReclaimed` | lazy erasure and a stale sweep are invisible: every reply is the ideal map's, and that of DEL alone tells whether something of a vanished key was left; counters never leave their range; expired entries are reclaimed |
| `quota` | `TypeOK`, `NoOverGrant`, `Conservation`, `SweepTakesOnlyExpired`, `HeldIsSum`, `AutoRollback` | nothing is refunded twice; nothing is lost unless settled late; the sweep cancels nothing early; orphaned reservations return |
| `idem` | `TypeOK`, `ReplayMatchesRequest`, `OnlyParkBreaksSingleFlight`, `OnlySharedClaimRevokes`, `ClaimsEnd` | a replayed response belongs to the same request; all that breaks single flight, or revokes a completed response, is middleware that went on after PARK with the owner's token; no claim blocks its key for ever |
| `idem_park` | `SingleFlight` - violated | the middleware executes on PARK |
| `rate` | `TypeOK`, `CountsAreTrue`, `FormulaBoundsAdmission`, `SecondRetrySucceeds` | the two counters are exactly what was admitted; the documented formula bounds it, but for what the product of doubles falls short (one unit); whoever waits as told is admitted after two waits |
| `aof` | `TypeOK`, `LogReproducesStore`, `AckedIsDurable` | replay yields what is in memory, and acknowledged means whole and on the disk, through a failing write or sync and a power failure, up to the named exceptions |
| `aof_torn` | `AckedSurvives` - violated | the first command after a torn line is lost |
| `kvservice` | `TypeOK`, `LiveKeysSurvive`, `AnswersFit` | a restart at any moment keeps every key that has not expired, with no earlier deadline; answers composed of several calls fit the moments of the request |
| `hashscan` | `TypeOK`, `Placed`, `WalkIsExact`, `WalkEnds` | doubling loses and doubles nothing; a SCAN or KEYS misses no key that stays, KEYS lists no other; every walk ends |
| `channel` | `TypeOK`, `InOrder`, `ArmedIffUnsent`, `ClosesAfterFlush`, `LimitLeavesRoom`, `Answered` | answers leave once and in order whatever the pieces; EPOLLOUT is armed exactly while something is unsent; closing flushes; the decoder's limit refuses only frames near it; every request read is answered |
| `parking` | `OneFate`, `TakenAreCalled` | nobody is called twice or after a successful cancel; whoever a broadcast or a purge took off its list is called, unless a callback before it throws |
| `server` | `TypeOK`, `NobodyAfterClose`, `StopEndsLoops`, `NothingStarves` | a loop that hears Stop ends; the log is closed and the loops are destroyed after workers and handlers are gone; as long as read loops end, connections and requests are taken up and the timer fires, accept failing or not |

**Bounds.** Words have 3 bits (4 in `kvservice`, 5 in `rate`), so that both ends of a
range are a few steps away; the wrap-around is the code's. Two keys, or one pool with two
reservations, are enough for the operations of one shard to meet on one record and on
different ones; a sample limit of 1 makes every sweep incomplete as soon as two records
have expired. Clocks run to 2 or 3 ticks past the longest time to live, which covers
"before", "at" and "after" each deadline and a sweep whose clock is up to all of it old
(in `kvservice` the clock stops at the deadline of a key written at time 0); `rate` covers
at least two windows of 2 and of 5 ticks, and one of 20, whose deadline wraps, and its
`Product` falls short once and is too large once. In `aof` three commands of two workers,
on an ordinary key and one with odd characters, with one error and one power failure cover
every handler against every other, a line that reads as a SET of the other key or as two
lines, a claim without a hash, a torn line and what is glued to it, under the policy
`always`; under the others nothing is promised of the disk, and the replay does not depend
on the policy. Odd tokens, odd hashes and the empty key are left to the proofs.
`kvservice` has two workers, an ordinary key and the empty one, three requests and one
restart, enough for two requests of several calls to interleave with a write or with each
other, a second of two milliseconds, and lists with and without a repeated key; survival
is judged key by key, so one key that is first, last or twice on a list is enough.
`hashscan` has tables of two buckets that double with the second key of a shard, and
hashes that part only after one or two doublings. `channel` has three requests, a socket
of two units, answers of two, a read of three and a decoder of six, so that every request
is cut in every way, buffers fill up and a frame meets the limit. `parking` has three
registrations on two keys and two threads that call; `server` two workers, one client, one
signal and one exception or failure at any point (with a second client the run takes more
than its time; a worker takes up connections and requests one by one, so what one client
waits for are the timer, the wake-up, and its own earlier requests). Deadlines that wrap
(`now + ttl >= 2^64`) are outside the bounds of `kv`; `Idempotency` asks only for
deadlines within the clock's bound so that every claim can be seen to end. `aof`,
`kvservice`, `channel` and `parking` run without the deadlock check: an idle server does
nothing, and the counts of requests, registrations and clock ticks are bounded. So does
`server`: a Stop that only worker 0 heard leaves main waiting for the others, and when the
one client waits on a connection that epoll_ctl refused, nothing is left to happen.

**Fairness.** `KvStore!ShardFairSpec` and `QuotaStore!FairSpec`: the clock advances, and
worker 0's timer calls `PurgeExpired` again and again (event_loop.cpp sets it up when
`--timer` is positive; with `-1`, the timer is off and expired reservations stay until
somebody settles them). Nothing is asked of clients. Because the clock of a model stops,
only finitely many records expire, and the sweep catches up; a real server in which more
than 50 records per shard and sweep keep expiring could pass over one of them for ever.
`Idempotency!FairSpec`: the clock advances; not even the sweep is needed, since an expired
claim is not found. `HashScan!FairSpec`: the client that walks goes on with its walk.
`Channel!FairSpec`: the worker that owns the connection runs, and the peer reads what it
is sent (a peer that does not keeps the answers in the buffers up to their limit, and then
the connection is closed). `ParkingLot!LotSpec`: a thread in the loop over its batch goes
on, and nothing else; in particular nobody has to call `PurgeTimeout`, and outside the
tests nobody does, so a timed waiter to which nobody broadcasts waits on. `Server!Spec`:
the scheduler runs main, every worker and the signal handler; no fairness of clients,
signals, exceptions or the clock. HandleRead has no bound (channel.cpp:66,
http_channel.cpp:67), so a client that sends faster than it is served keeps its worker for
ever; `StopEndsLoops` and `NothingStarves` say what holds as long as no client does
(`ReadsEnd`).

**Scope of the properties.** The ledger excludes pools on which 64-bit arithmetic wrapped
(a pool that INCRBY made negative is read as a number near 2^64). The rate properties are
about keys used with one window length: another length resets the counters; and about
windows whose deadline is a word. Clients of the idempotency records always report with
the token they were given; the store also accepts an empty one. `LiveKeysSurvive` is about
keys that have not expired since they were last written outright: the log says nothing of
expiry, so an expired key comes back, and a SET NX or an INCRBY after the expiry is
replayed on the old value. It is not about the empty key, which never comes back.
`LogReproducesStore` says nothing of the keys in `diverged`: it shows that whatever the
log loses is confined to them. `StopEndsLoops` is about loops that have an eventfd and
were in `Run` when Stop came. `NothingStarves` excepts workers that ended with an
exception and connections epoll_ctl did not take.

## What is proved

For every value of the constants, under the assumptions named in the modules: the
ranges of the arguments, that "nothing there" (`NoRecord`, `NoEntry`, `NoHandler`,
`Nobody`, `NoLine`, `Idle`, `Refused`) is no record, handler, worker, line, request or
store, that a server has finitely many workers, that only GKWP/2 requests have a stream
number, that in `KvService` no deadline wraps, that a misread line is no COMMIT or ROLLBACK
that the loader would carry out (it would need an id of the new process), and that the
limiter is asked for at least one limit, none so large that the computed product, a
limit and a cost add up to more than a word.

All safety theorems have the
form `Spec => []P` or `Spec => [][A]_vars` and follow from an invariant that is shown to
hold initially and to be kept by every action; TLC checked each of these invariants on
the instance of the module's run before it was proved.

* `KvProofs`, the shard: `ShardTyped` (`ShardTypeOK` is inductive) and `ShardIsTtlMap`,
  the refinement `ShardSpec => ImplementsTtlMap`, step by step: an operation of the shard
  is the operation of the ideal map on what is visible, a tick makes exactly the entries
  invisible whose deadline it reaches, and a sweep changes nothing visible, because what
  had expired by its old clock has expired by the present one; it reclaims remains. It
  assumes `NoWrap`, that `now + ttl` stays below 2^64: a deadline that wraps lies in the
  past, and the shard then really differs from the ideal map.
* `KvProofs`, the requests: `ServiceInvariance`, `Spec => []SInv` with `SInv == StateOK /\
  TasksFit /\ \A k \in Keys : KeyOK(k)`, and from it `ServiceTyped`, `KeysSurvive` and
  `AnswersAreTrue`. `KeyOK` makes `LiveKeysSurvive` inductive, key by key: of a key that
  is not `unsure` at most one worker holds an unwritten line, and replaying the file and
  that line, *now or at any later time*, leaves the value in memory with a deadline that
  is not earlier (`Follows`). The later times are needed because a line is replayed with
  the clock of the restart. A command applied to both sides of `Follows` keeps it
  (`PerformFollows`), and one that writes or deletes the key outright establishes it from
  anything (`OutrightFollows`), which is when a key stops being `unsure`. The empty key is
  excepted: no line of it is replayed. `TasksFit` ties every answer a request has
  collected so far to what was under its key at some moment since the request began, and
  the counts then follow from comparing sets of positions. For the first of the two TTL
  answers it says what the second will be, as long as nobody writes the key in between
  (`Agrees`).
* `QuotaProofs`: `Spec => []IInv` with
  `IInv == TypeOK /\ SweepInv /\ NoOverGrant /\ Conservation`, and from it
  `TypeCorrect`, `NothingOverGranted`, `NothingLost`, `SweepNeverEarly`. On top of it,
  `HeldMatchesTable`: what a pool holds for reservations is the sum of the amounts in
  the table. The sum over a finite set is computed by the induction described below, and
  a settled reservation takes its amount out of the sum of its own pool and no other.
  `SweepInv` is needed because a refund of the sweep is right only if the
  reservation is still in the table when its turn comes: the work list holds
  reservations that are open and expired, and it is empty whenever the mutex is
  free, so no client can settle one of them in between. The ledger is argued through
  `Missing(k)`, the difference between what came in and what can be accounted for:
  every operation leaves it alone, or increases it and sets `late`, or sets
  `wrapped`.
* `IdempotencyProofs`: `Spec => []IInv` with
  `IInv == TypeOK /\ RecordInv /\ ClientInv /\ ReplayMatchesRequest`, and from it
  `TypeCorrect` and `ReplaysAreOwn`. The heart is that a token stands for one
  request (`Stands`): the one it was issued for or the one of the client that
  brought it. Records and clients only hold tokens of their own request, so a report
  that matches a record's token comes from a client with the same key and payload,
  however late it is and whoever else holds the token. A second invariant on top of it,
  `FlightInv`, gives `OnlyPark` and `OnlySharedRevokes`: a client gets its token once,
  so sharing is for ever; while a client runs in time under a claim that no middleware
  shares, the record of its key is in progress, has its token and its deadline
  (`OwnersHold`), so IDEM_BEGIN cannot hand the key out, no report of anybody else
  matches it and no sweep may take it; two such clients would have the same token.
  A completed record carries the token of the client that completed it.
* `RateLimiterProofs`: `IInv == TypeOK /\ RecordBehind /\ RecordIsHistory /\
  FormulaBoundsAdmission`, from which `TypeCorrect`, `CountersNeverForget`,
  `AdmissionBounded` and `RetryAfterIsKept`. The properties speak of the record after it
  has been rolled to the present window; what is inductive is about the record as it is
  stored, any number of windows behind or already swept: its counts are the last
  admissions there were, and nothing was admitted since. `CountersNeverForget` and
  `AdmissionBounded` hold for every window up to the word size and at every moment at
  which `Wraps` does not hold, and `AdmissionBounded` for every `Product`: what is
  admitted exceeds the formula by no more than `Product` fell short of the exact product
  at some instant of the window. `RetryAfterIsKept` needs neither, only that rounding
  the header up does not wrap. The arithmetic of windows and weights (`\div`, `%`) is in
  lemmas.
* `AofProofs`: `IInv == FileOK /\ PendingOK /\ WriterWrote /\ AckedIsDurable`, from
  which `Durability`, and the action property `SyncedLinesStay`: a whole line that has
  been synced is never changed or removed, whatever the policy. `WriterWrote` speaks of
  the moment between `write` and `fdatasync`, when nobody has been answered yet.
  A second invariant, `RInv`, gives `TypeCorrect` and `LogReproduces`. It has the shape
  of `KeyOK` above, without time and with the three tables: what a command does to a key
  depends only on what is under that key (`PerformSame`), so a line has the same effect
  live, in the replay of the file, and after other lines of other keys; and of a key
  outside `diverged` at most one line is not in the file yet, so the order in which the
  workers append does not matter. A line with unescaped characters may be a command of
  any key; the key it came from and the keys it and its further lines read as are in
  `diverged` before a replay can see them (`WritingPreserves`, `MorePreserves`). A piece of
  a line is only ever the last thing in the
  file, which is why a power failure takes whole lines off the replay or none.
* `HashScanProofs`: `IInv == TablesOK /\ WalkOK /\ DueAhead /\ KeysMatch`, from which
  `TypeCorrect`, `TablesArePlaced`, `ScanIsComplete` and `WalksAreExact`. `DueAhead` is
  the reason a SCAN misses nothing: every key the walk still owes lies in a later shard
  or at or behind the cursor's bucket, and doubling keeps it there, since a key moves
  from bucket b to b or to b plus the old capacity. `ScanIsComplete` has no hypothesis;
  `WalksAreExact` assumes `PlainKeys`, that no key has a `*` of its own. It rests on
  `MatcherDecides`: for such keys, and patterns and keys of any length, `MatchPattern`
  says what `Glob` says, although it goes back to the last `*` only. The loop is a
  function on the places it can be in; every turn lowers `Rank`, so there is one such
  function, and induction over `Rank` shows what it finds out at each place (`Answer`):
  whether the rest of the pattern can be cut to the rest of the key from the last `*`
  on. An earlier `*` need not be tried again because what follows it up to the last one
  was matched as early as possible, and the last one can take up any slack (`FromStar`,
  `FromLastStar`).
* `ChannelProofs`: `CInv == PeerOK /\ ReadOK /\ DecoderOK /\ HttpOK /\ StreamsOK /\
  WriteOK /\ SentOK /\ LimitLeavesRoom`, from which `TypeCorrect`, `AnswersInOrder`,
  `ArmedWhileUnsent`, `FlushedBeforeClose` and `RoomForFrames`. `InOrder` alone is not
  inductive, since it speaks of the wire only. `SentOK` speaks of `wire \o wbuf`, what was
  sent followed by what is unsent: it is the answers to the first `handled` requests in
  order, and complete as long as the connection is open. `HandleWrite` moves units from
  one to the other and leaves the whole alone; `Send` appends one answer to it, or a
  piece of one if it closes the connection. `DecoderOK` bounds what the decoder keeps of
  consumed bytes, which is what `LimitLeavesRoom` needs.
* `ServerProofs`, the parking lot: `LotInv == CountsOK /\ ListsOK /\ Apart /\ Parted`,
  from which `FatesAreOne`. `Apart` (a registration is in one place, once) is needed
  because the operations move whole lists: were a registration on two, it would have two
  fates after a broadcast.
* `ServerProofs`, the threads: from an invariant about where each thread can be,
  `TypeCorrect`, `LogClosesLast`, and `StopIsHeard`, the safety half of `StopEndsLoops`: a
  loop that heard Stop and sleeps has its eventfd, if it has one, readable, or the handler
  is about to write it. `LogClosesLast` rests on `HandlerOK`: the handler runs on main's
  thread, which it keeps from going on, or on a worker that is alive, and main waits for
  those. A signal may come after `Run` has returned; it then interrupts main, so the
  handler has left the loops before main clears `g_server`, closes the log and destroys
  them.

Only model-checked: liveness (`ExpiredIsReclaimed`, `AutoRollback`, `ClaimsEnd`,
`WalkEnds`, `Answered`, `TakenAreCalled`, `StopEndsLoops`, `NothingStarves`), which is out
of the prover's reach.

Every safety property the runs check is a theorem. The folds behind `HeldIsSum`, `Replay`
and `EndOf` and the loop of `MatchPattern` need induction over data. The library's
induction theorems take an operator as parameter, which no backend can instantiate, so
the proof modules state induction with a *set* for the predicate (`NatSetInduction`,
`SubsetInduction`, `SeqSetInduction`) and derive it from the well-foundedness of `<` on
the naturals; what a fold computes is then characterised by the function on subsets of
positions that it is defined by.

## Findings

Two runs show a promise of the repository's documentation broken:

1. `idem_park`: the SDK middleware runs the handler on PARK
   (sdk/go/idempotency.go:270; the Node one, sdk/nodejs/idempotency.js:89, does the
   same; README: "exactly-once"). Nothing in the server parks a connection.
2. `aof_torn`: a torn last line of the log swallows the next one (aof_writer.cpp:21;
   README: "safely ignoring truncated commands").

What the passing properties name as exceptions are the other places where the code
does less than its README says:

* A ROLLBACK that arrives after the deadline and before the sweep erases the
  reservation without a refund (memory_store.cpp:672; "restores 100%"): the flag
  `late` of `Conservation`.
* IDEM_FAIL does not ask whether the record is completed (memory_store.cpp:832):
  the second disjunct of `OnlySharedClaimRevokes`.
* The weight of the previous window is a double and the product is truncated
  (memory_store.cpp:481): `Shortfall` in `FormulaBoundsAdmission`. For window_ms of 2^63
  and more the deadline of the record wraps (memory_store.cpp:438) and the counts are
  forgotten: `Wraps`.
* DEL of an expired key answers true until the entry is erased (memory_store.cpp:129):
  `remains` in `TtlMap`.
* Binary handlers do not escape what they log (processor.cpp:480), and the result of
  fdatasync is ignored (aof_writer.cpp:68): `diverged` and `lost`.
* RESERVE lines of the binary protocol are refused on replay (processor.cpp:356):
  `diverged` in `LogReproducesStore`.
* The HTTP quota init does not log the pool's time to live (http_service.cpp:620),
  expiry is not logged, and a DEL of a key the sweep has erased is not logged either:
  the deadline clause and `unsure` of `LiveKeysSurvive`.
* A worker that ends with an exception keeps its listening socket open
  (server.cpp:281): `broken` in `NothingStarves`; a connection epoll_ctl refuses is kept
  and never heard (server.cpp:187): `deaf`; a steady sender keeps its worker
  (channel.cpp:66): `ReadsEnd`. A Stop that comes before
  `EventLoop::Run` is forgotten (event_loop.cpp:92): `heard` in `StopEndsLoops`; if
  only worker 0 hears it, main waits for the others and the timer is gone.
* The decoder's 16 MiB limit counts the header and consumed bytes (decoder.cpp:11),
  so a payload of nearly kMaxPayloadLength can be refused: `LimitLeavesRoom`.

Noted while reading, without a property: `MatchPattern` compares a literal before it
looks for `*`, so a key that itself contains `*` can fail to match (pattern `*b`, key
`*ab`; hence `PlainKeys`); frames decoded before a bad one in the same read are
dropped with it; `PurgeIdleStreams` is never called; the SDKs' TCP clients speak
GKWP/1, which the server's decoder refuses.

## Not modelled, and the plan

What is left to prove: the liveness properties, whose proofs are beyond this prover.

Left out for good: the CLI and its client, configuration, logging, the JSON readers,
the byte layout of headers and payloads (binary_codec.h) and benchmarks: sequential
input and output without shared state, which a model would only transliterate. Of
the SDKs' transports only what they do to messages (lost, late, repeated) appears. Of the
event loop, the limit of 64 events per wait is left out; of the channels, the
session statistics.
