--------------------------------- MODULE Aof ---------------------------------
(***************************************************************************)
(* The append-only file: workers that change the store and then log the    *)
(* change, crashes that cut the file, and the loader that replays it.      *)
(*                                                                         *)
(* A handler of Processor (binary protocol) or HttpService changes the     *)
(* store under the shard's mutex, then appends a line under the writer's   *)
(* mutex, then answers: three steps, between which other workers run and   *)
(* the machine may crash.  The handlers differ in what they log, and the   *)
(* loader accepts only the lines the Dispatcher's command handlers can     *)
(* parse.  Some binary handlers put the client's strings between quotes as *)
(* they are: with a quote, a backslash or a control character in one of    *)
(* them, the line may read as another command, of another key, as none, or *)
(* as several lines.                                                       *)
(*                                                                         *)
(* Time is left out: keys, reservations and claims here do not expire.     *)
(* Requests that are refused, and therefore change nothing and log         *)
(* nothing, are left out as well.                                          *)
(***************************************************************************)
EXTENDS Entries, SequencesExt

CONSTANTS
    Workers,         \* threads of the server
    Keys,            \* keys: ordinary ones, pools and idempotency keys
    EmptyKeys,       \* of these, the empty string, if it is one of them
    OddKeys,         \* of these, the ones with quotes, backslashes or control characters
    OddTokens,       \* owner tokens with such characters
    Misreadings,     \* commands that a line with such characters may read as
    Hashes,          \* request hashes: "plain", "quoted" with such characters, "empty"
    Writes,          \* values clients write
    Conditions,      \* and the conditions they write them under
    Deltas,          \* increments clients ask for
    Amounts,         \* amounts reserved
    Actuals,         \* amounts committed
    Policies,        \* fsync policies: "always", or "timer" for the others
    MaxCommands,     \* bound on the commands handled
    MaxLines,        \* bound on a file that unescaped newlines make longer
    MaxWriteErrors,  \* bound on the writes and syncs that fail
    MaxCrashes,      \* bound on the restarts
    NoRecord,        \* no idempotency record under a key
    NoLine,          \* nothing to append
    Nobody,          \* no worker
    Refused          \* the answer of a store that changes nothing

EmptyToken == <<>>

(* Reservation ids and owner tokens: made up after so many restarts, by that command. *)
Id == Nat \X Nat

Token == Id \cup OddTokens

Reservation == [id : Id, key : Keys, amount : 1 .. MaxU64]

Record ==
    [status : {"InProgress", "Completed", "Failed"}, hash : Hashes, token : Token,
     body : {"none", "plain", "quoted", "error"}]

(* The tables of the store. *)
Store ==
    [entries : [Keys -> Entry \cup {NoEntry}],
     reservations : SUBSET Reservation,
     idem : [Keys -> Record \cup {NoRecord}]]

(* The commands that change them, as the handlers log them. *)
Command ==
         [op : {"SET"}, key : Keys, val : Writes, cond : Conditions \cup {"Always"}]
    \cup [op : {"DEL"}, key : Keys]
    \cup [op : {"INCRBY"}, key : Keys, delta : Deltas]
    \cup [op : {"RESERVE"}, key : Keys, amount : Amounts, front : {"binary", "http"}]
    \cup [op : {"SETTLE"}, key : Keys, id : Id, actual : Actuals \cup {0}]
    \cup [op : {"IDEM_BEGIN"}, key : Keys, hash : Hashes, token : Token]
    \cup [op : {"IDEM_COMPLETE"}, key : Keys, token : Token \cup {EmptyToken},
          body : {"plain", "quoted"}]
    \cup [op : {"IDEM_FAIL"}, key : Keys, token : Token \cup {EmptyToken},
          body : {"none", "error"}]

(***************************************************************************)
(* A line of the file: the command it reads as, the number of the request  *)
(* that wrote it, how much of it is there, and whether it holds unescaped  *)
(* characters.                                                             *)
(***************************************************************************)
Line ==
    [cmd : Command, n : Nat, cut : {"none", "newline", "mid", "glued"}, raw : BOOLEAN]

ASSUME AofAssumption ==
    /\ IsFiniteSet(Workers)
    /\ EmptyKeys \cup OddKeys \subseteq Keys
    /\ Misreadings \subseteq {c \in Command : c.op # "SETTLE"}
    /\ NoLine \notin Command \cup Line
    /\ Refused \notin Store
    /\ Writes \subseteq Value
    /\ Conditions \subseteq WriteCondition
    /\ Hashes \subseteq {"plain", "quoted", "empty"}
    /\ Deltas \subseteq MinI64 .. MaxI64
    /\ Amounts \subseteq 1 .. MaxU64
    /\ Actuals \subseteq 0 .. MaxU64
    /\ Policies \subseteq {"always", "timer"}
    /\ {MaxCommands, MaxLines, MaxWriteErrors, MaxCrashes} \subseteq Nat
    /\ Nobody \notin Workers

VARIABLES
    store,     \* the tables: entries, reservations, idempotency records
    file,      \* the lines of gatekeeper.aof, in order
    synced,    \* how many of them are on the disk
    up,        \* the server is running
    policy,    \* the fsync policy it was started with
    pending,   \* the line each worker has yet to append
    writer,    \* the worker that holds AofWriter::mutex_ after write()
    serial,    \* commands handled so far; a line carries its number
    epoch,     \* restarts so far
    errors,    \* history: writes and syncs that failed
    acked,     \* history: numbers of the logged commands clients saw succeed
    lost,      \* history: numbers of commands whose line was spoilt or not synced
    diverged   \* history: keys the log is known not to reproduce

vars == <<store, file, synced, up, policy, pending, writer, serial, epoch,
          errors, acked, lost, diverged>>

EmptyStore == [entries |-> [k \in Keys |-> NoEntry],
               reservations |-> {},
               idem |-> [k \in Keys |-> NoRecord]]

-----------------------------------------------------------------------------
(* What a command does to the tables, live or on replay.  Each operator    *)
(* returns the tables it leaves, or Refused.                               *)

PutEntry(s, k, e) == [s EXCEPT !.entries[k] = e]

PutBalance(s, k, balance) ==
    PutEntry(s, k, [num |-> balance, clean |-> TRUE, expire_at |-> 0])

BalanceOf(s, k) == IF s.entries[k] = NoEntry THEN 0 ELSE Stoull(s.entries[k].num)

DoSet(s, c) ==
    IF Refuses(c.cond, s.entries[c.key]) THEN Refused
    ELSE PutEntry(s, c.key, AfterSet(s.entries[c.key], 0, c.val, c.cond, 0))

DoDel(s, c) ==
    IF s.entries[c.key] = NoEntry THEN Refused ELSE PutEntry(s, c.key, NoEntry)

DoIncrBy(s, c) ==
    LET e == s.entries[c.key]
    IN  IF e # NoEntry /\ IncrFails(e, c.delta) THEN Refused
        ELSE PutEntry(s, c.key, AfterIncrBy(e, 0, c.delta, 0))

(* id is the reservation id the store makes up, on replay a new one. *)
DoReserve(s, c, id) ==
    LET e == s.entries[c.key]
    IN  IF e = NoEntry \/ ~e.clean \/ Stoull(e.num) < c.amount THEN Refused
        ELSE [PutBalance(s, c.key, Stoull(e.num) - c.amount) EXCEPT
                 !.reservations = @ \cup {[id |-> id, key |-> c.key, amount |-> c.amount]}]

(* COMMIT and, with actual = 0, ROLLBACK: both look the reservation up. *)
DoSettle(s, c) ==
    LET found == {r \in s.reservations : r.id = c.id /\ r.key = c.key}
    IN  IF found = {} THEN Refused
        ELSE LET r == CHOOSE r \in found : TRUE
                 b == BalanceOf(s, c.key)
                 balance == IF c.actual <= r.amount THEN AddU64(b, r.amount - c.actual)
                            ELSE IF b >= c.actual - r.amount THEN b - (c.actual - r.amount)
                            ELSE 0
             IN  [PutBalance(s, c.key, balance) EXCEPT !.reservations = @ \ {r}]

(* The claim of a key that is new, failed or already the caller's, for the *)
(* same request.  Only the verdict EXECUTE is logged, with the token.      *)
DoIdemBegin(s, c) ==
    LET rec == s.idem[c.key]
    IN  IF rec # NoRecord /\ rec.hash # c.hash THEN Refused
        ELSE IF rec = NoRecord \/ rec.status = "Failed"
        THEN [s EXCEPT !.idem[c.key] = [status |-> "InProgress", hash |-> c.hash,
                                        token |-> c.token, body |-> "none"]]
        ELSE IF rec.status = "InProgress" /\ rec.token = c.token THEN s ELSE Refused

(* The store takes an empty token for any. *)
Owns(s, c) ==
    s.idem[c.key] # NoRecord /\ c.token \in {EmptyToken, s.idem[c.key].token}

DoIdemComplete(s, c) ==
    IF ~Owns(s, c) THEN Refused
    ELSE IF s.idem[c.key].status = "Completed" THEN s
    ELSE [s EXCEPT !.idem[c.key].status = "Completed", !.idem[c.key].body = c.body]

DoIdemFail(s, c) ==
    IF ~Owns(s, c) THEN Refused
    ELSE [s EXCEPT !.idem[c.key].status = "Failed", !.idem[c.key].body = c.body]

Perform(s, c, id) ==
    CASE c.op = "SET"           -> DoSet(s, c)
      [] c.op = "DEL"           -> DoDel(s, c)
      [] c.op = "INCRBY"        -> DoIncrBy(s, c)
      [] c.op = "RESERVE"       -> DoReserve(s, c, id)
      [] c.op = "SETTLE"        -> DoSettle(s, c)
      [] c.op = "IDEM_BEGIN"    -> DoIdemBegin(s, c)
      [] c.op = "IDEM_COMPLETE" -> DoIdemComplete(s, c)
      [] c.op = "IDEM_FAIL"     -> DoIdemFail(s, c)

-----------------------------------------------------------------------------
(* AofLoader::Load.  A line is refused if it was cut short or glued to     *)
(* another one, if its command handler cannot parse it, or if the store    *)
(* refuses the command.  A line that lacks only its newline is accepted.   *)

(***************************************************************************)
(* The binary RESERVE line has a field, reservation_id, that the command   *)
(* handler rejects; and the command handlers, unlike the store, insist on  *)
(* an owner token, on a request hash and, but for DEL, on a key.           *)
(***************************************************************************)
Parses(c) ==
    /\ ~(c.op = "RESERVE" /\ c.front = "binary")
    /\ ~(c.op \in {"IDEM_COMPLETE", "IDEM_FAIL"} /\ c.token = EmptyToken)
    /\ ~(c.op = "IDEM_BEGIN" /\ c.hash = "empty")
    /\ c.key \in EmptyKeys => c.op = "DEL"

Readable(line) == line.cut \in {"none", "newline"} /\ Parses(line.cmd)

(* Mutant: a replayed claim is given a new owner token. *)
Dispatch_NewToken(s, line, ep) ==
    IF ~Readable(line) THEN s
    ELSE LET c == IF line.cmd.op = "IDEM_BEGIN"
                  THEN [line.cmd EXCEPT !.token = <<ep, line.n>>] ELSE line.cmd
             after == Perform(s, c, <<ep, line.n>>)
         IN  IF after = Refused THEN s ELSE after

Dispatch(s, line, ep) ==
    IF ~Readable(line) THEN s
    ELSE LET after == Perform(s, line.cmd, <<ep, line.n>>)
         IN  IF after = Refused THEN s ELSE after

Load(f, ep) == FoldLeft(LAMBDA s, line : Dispatch(s, line, ep), EmptyStore, f)

-----------------------------------------------------------------------------
(* AofWriter::Append *)

EndsTorn(f) == f # <<>> /\ Last(f).cut \in {"mid", "newline"}

(* A line written after a piece of a line becomes one line with it. *)
Written(f, line) ==
    IF EndsTorn(f) THEN Append(Front(f), [Last(f) EXCEPT !.cut =
                           IF line.cut = "none" THEN "glued" ELSE "mid"])
    ELSE Append(f, line)

(* The commands that a line glued to the end of f takes down. *)
Spoilt(f, line) ==
    IF ~EndsTorn(f) THEN {}
    ELSE {line} \cup (IF Last(f).cut = "newline" THEN {Last(f)} ELSE {})

NoteSpoilt(lines) ==
    /\ lost' = lost \cup {l.n : l \in lines}
    /\ diverged' = diverged \cup {l.cmd.key : l \in lines}

Init ==
    /\ store = EmptyStore
    /\ file = <<>>
    /\ synced = 0
    /\ up = TRUE
    /\ policy \in Policies
    /\ pending = [w \in Workers |-> NoLine]
    /\ writer = Nobody
    /\ serial = 0
    /\ epoch = 0
    /\ errors = 0
    /\ acked = {}
    /\ lost = {}
    /\ diverged = {}

-----------------------------------------------------------------------------
(* The handlers *)

(* Another worker has changed the key and not written it to the file yet. *)
Races(w, k) ==
    \E v \in Workers \ {w} :
        pending[v] # NoLine /\ writer # v /\ pending[v].cmd.key = k

(* Perform c on the store; the command log, if any, is appended later. *)
Handle(w, c, log, raw) ==
    LET after == Perform(store, c, <<epoch, serial + 1>>)
        replays == log = c /\ Parses(c) /\ c.op # "SETTLE" /\ ~Races(w, c.key)
        line == [cmd |-> log, n |-> serial + 1, cut |-> "none", raw |-> raw]
    IN  /\ up
        /\ pending[w] = NoLine
        /\ serial < MaxCommands
        /\ after # Refused
        /\ store' = after
        /\ serial' = serial + 1
        /\ pending' = [pending EXCEPT ![w] = IF log = NoLine THEN NoLine ELSE line]
        /\ diverged' = IF replays THEN diverged
                       ELSE diverged \cup {c.key} \cup (IF log = NoLine THEN {} ELSE {log.key})
        /\ UNCHANGED <<file, synced, up, policy, writer, epoch, errors, acked, lost>>

Logged(w, c) == Handle(w, c, c, FALSE)

NotLogged(w, c) == Handle(w, c, NoLine, FALSE)

(* There are characters in the strings of c that need escaping. *)
Odd(c) ==
    \/ c.key \in OddKeys
    \/ c.op = "IDEM_BEGIN" /\ c.hash = "quoted"
    \/ c.op \in {"IDEM_BEGIN", "IDEM_COMPLETE", "IDEM_FAIL"} /\ c.token \in OddTokens
    \/ c.op = "IDEM_COMPLETE" /\ c.body = "quoted"

(* A handler that logs the strings of c unescaped. *)
Unescaped(w, c, log) ==
    \/ ~Odd(c) /\ Handle(w, c, log, FALSE)
    \/ Odd(c) /\ \E d \in Misreadings : Handle(w, c, d, TRUE)

Set(w, k, v, cond) ==
    Logged(w, [op |-> "SET", key |-> k, val |-> v, cond |-> cond])

(* An unconditional write of a clean number. *)
QuotaInit(w, k, v) ==
    /\ v.clean
    /\ Logged(w, [op |-> "SET", key |-> k, val |-> v, cond |-> "Always"])

Del(w, k) == Logged(w, [op |-> "DEL", key |-> k])

IncrBy(w, k, delta) == Logged(w, [op |-> "INCRBY", key |-> k, delta |-> delta])

Booking(k, amount, front) ==
    [op |-> "RESERVE", key |-> k, amount |-> amount, front |-> front]

Reserve(w, k, amount) ==
    LET c == Booking(k, amount, "binary") IN Unescaped(w, c, c)

(* The HTTP handlers escape what they log, and refuse empty strings. *)
HttpReserve(w, k, amount) ==
    k \notin EmptyKeys /\ Logged(w, Booking(k, amount, "http"))

Settlement(r, actual) ==
    [op |-> "SETTLE", key |-> r.key, id |-> r.id, actual |-> actual]

Commit(w, r, actual) == Unescaped(w, Settlement(r, actual), Settlement(r, actual))

Rollback(w, r) == Logged(w, Settlement(r, 0))

(* The HTTP handlers of COMMIT and ROLLBACK have no call of Append. *)
HttpCommit(w, r, actual) ==
    r.key \notin EmptyKeys /\ NotLogged(w, Settlement(r, actual))

HttpRollback(w, r) ==
    r.key \notin EmptyKeys /\ NotLogged(w, Settlement(r, 0))

(* The tokens a claim may come with: a new one, or the one in the record. *)
ClaimTokens(k) ==
    {<<epoch, serial + 1>>} \cup OddTokens \cup
        IF store.idem[k] = NoRecord THEN {} ELSE {store.idem[k].token}

Claim(k, hash, token) == [op |-> "IDEM_BEGIN", key |-> k, hash |-> hash, token |-> token]

IdemBegin(w, k, hash, token) ==
    LET c == Claim(k, hash, token) IN Unescaped(w, c, c)

HttpIdemBegin(w, k, hash, token) ==
    k \notin EmptyKeys /\ hash # "empty" /\ Logged(w, Claim(k, hash, token))

(* The tokens a report may come with and be accepted. *)
ReportTokens(k) ==
    IF store.idem[k] = NoRecord THEN {} ELSE {EmptyToken, store.idem[k].token}

Completion(k, token, body) ==
    [op |-> "IDEM_COMPLETE", key |-> k, token |-> token, body |-> body]

IdemComplete(w, k, token, body) ==
    LET c == Completion(k, token, body) IN Unescaped(w, c, c)

HttpIdemComplete(w, k, token, body) ==
    k \notin EmptyKeys /\ token # EmptyToken /\ Logged(w, Completion(k, token, body))

FailureReport(k, token, message) ==
    [op |-> "IDEM_FAIL", key |-> k, token |-> token, body |-> message]

(* The binary handler does not log the error message. *)
IdemFail(w, k, token, message) ==
    Unescaped(w, FailureReport(k, token, message), FailureReport(k, token, "none"))

HttpIdemFail(w, k, token, message) ==
    k \notin EmptyKeys /\ token # EmptyToken /\ Logged(w, FailureReport(k, token, message))

-----------------------------------------------------------------------------
(* Mutant: the client is answered before fdatasync. *)
AppendLine_AcksEarly(w) ==
    /\ up
    /\ pending[w] # NoLine
    /\ writer = Nobody
    /\ writer' = w
    /\ file' = Written(file, pending[w])
    /\ NoteSpoilt(Spoilt(file, pending[w]))
    /\ acked' = acked \cup {pending[w].n}
    /\ UNCHANGED <<store, synced, up, policy, pending, serial, epoch, errors>>

(* Take the mutex and write the line, or the first of the lines it reads as. *)
AppendLine(w) ==
    /\ up
    /\ pending[w] # NoLine
    /\ writer = Nobody
    /\ writer' = w
    /\ file' = Written(file, pending[w])
    /\ NoteSpoilt(Spoilt(file, pending[w]))
    /\ UNCHANGED <<store, synced, up, policy, pending, serial, epoch, errors, acked>>

(* Another one, if there is a newline among the unescaped characters. *)
AppendMore(w) ==
    /\ up
    /\ writer = w
    /\ pending[w].raw
    /\ Len(file) < MaxLines
    /\ \E c \in Misreadings :
          LET line == [pending[w] EXCEPT !.cmd = c]
          IN  /\ file' = Written(file, line)
              /\ lost' = lost \cup {l.n : l \in Spoilt(file, line)}
              /\ diverged' = diverged \cup {l.cmd.key : l \in Spoilt(file, line)} \cup {c.key}
    /\ UNCHANGED <<store, synced, up, policy, pending, writer, serial, epoch, errors, acked>>

(* Release the mutex and answer the client. *)
Answer(w) ==
    /\ up
    /\ writer = w
    /\ writer' = Nobody
    /\ acked' = acked \cup {pending[w].n}
    /\ pending' = [pending EXCEPT ![w] = NoLine]
    /\ UNCHANGED <<store, file, up, policy, serial, epoch, diverged>>

(* First comes fdatasync, if the policy is "always". *)
SyncLine(w) ==
    /\ Answer(w)
    /\ synced' = IF policy = "always" THEN Len(file) ELSE synced
    /\ UNCHANGED <<errors, lost>>

(* It fails, and nobody looks at its result. *)
SyncFails(w) ==
    /\ Answer(w)
    /\ policy = "always"
    /\ errors < MaxWriteErrors
    /\ errors' = errors + 1
    /\ lost' = lost \cup {pending[w].n}
    /\ UNCHANGED synced

(* write() fails, at once or half way: Append returns false, and nobody    *)
(* looks at it.                                                            *)
AppendFails(w) ==
    LET piece == [pending[w] EXCEPT !.cut = "mid"]
    IN  /\ up
        /\ pending[w] # NoLine
        /\ writer = Nobody
        /\ errors < MaxWriteErrors
        /\ errors' = errors + 1
        /\ \/ /\ file' = Written(file, piece)
              /\ NoteSpoilt(Spoilt(file, piece) \cup {piece})
           \/ /\ file' = file
              /\ NoteSpoilt({piece})
        /\ acked' = acked \cup {pending[w].n}
        /\ pending' = [pending EXCEPT ![w] = NoLine]
        /\ UNCHANGED <<store, synced, up, policy, writer, serial, epoch>>

(* AofWriter::Fsync, from the timer of worker 0 whatever the policy. *)
Fsync ==
    /\ up
    /\ writer = Nobody
    /\ synced < Len(file)
    /\ synced' = Len(file)
    /\ UNCHANGED <<store, file, up, policy, pending, writer, serial, epoch,
                   errors, acked, lost, diverged>>

-----------------------------------------------------------------------------
(* Crashes and restarts *)

Stopped(f) ==
    /\ up
    /\ epoch < MaxCrashes
    /\ up' = FALSE
    /\ file' = f
    /\ synced' = Len(f)
    /\ store' = EmptyStore
    /\ pending' = [w \in Workers |-> NoLine]
    /\ writer' = Nobody
    /\ UNCHANGED <<policy, serial, epoch, errors, acked, lost, diverged>>

(* The server is stopped in an orderly way, and closes the file. *)
Shutdown ==
    /\ \A w \in Workers : pending[w] = NoLine
    /\ Stopped(file)

(***************************************************************************)
(* What a power failure may leave: all that was synced, and a part of the  *)
(* rest that may end within a line.                                        *)
(***************************************************************************)
Prefix(n) == SubSeq(file, 1, n)

Torn(n, cut) == Append(Prefix(n), [file[n + 1] EXCEPT !.cut = cut])

Crash ==
    \/ \E n \in synced .. Len(file) : Stopped(Prefix(n))
    \/ \E n \in synced .. Len(file) - 1, cut \in {"mid", "newline"} : Stopped(Torn(n, cut))

Restart ==
    /\ ~up
    /\ up' = TRUE
    /\ epoch' = epoch + 1
    /\ store' = Load(file, epoch + 1)
    /\ diverged' = {}
    /\ UNCHANGED <<file, synced, policy, pending, writer, serial, errors, acked, lost>>

-----------------------------------------------------------------------------
Handlers(w) ==
    \/ \E k \in Keys :
          \/ \E v \in Writes : QuotaInit(w, k, v)
          \/ \E v \in Writes, cond \in Conditions : Set(w, k, v, cond)
          \/ Del(w, k)
          \/ \E delta \in Deltas : IncrBy(w, k, delta)
          \/ \E amount \in Amounts : Reserve(w, k, amount) \/ HttpReserve(w, k, amount)
          \/ \E hash \in Hashes, token \in ClaimTokens(k) :
                IdemBegin(w, k, hash, token) \/ HttpIdemBegin(w, k, hash, token)
          \/ \E token \in ReportTokens(k) :
                \/ \E body \in {"plain", "quoted"} :
                      \/ IdemComplete(w, k, token, body)
                      \/ HttpIdemComplete(w, k, token, body)
                \/ \E message \in {"none", "error"} :
                      IdemFail(w, k, token, message) \/ HttpIdemFail(w, k, token, message)
    \/ \E r \in store.reservations :
          \/ Rollback(w, r) \/ HttpRollback(w, r)
          \/ \E actual \in Actuals : Commit(w, r, actual) \/ HttpCommit(w, r, actual)

Next ==
    \/ \E w \in Workers :
          \/ Handlers(w) \/ AppendLine(w) \/ AppendMore(w) \/ AppendFails(w)
          \/ SyncLine(w) \/ SyncFails(w)
    \/ Fsync \/ Shutdown \/ Crash \/ Restart

Spec == Init /\ [][Next]_vars

-----------------------------------------------------------------------------
(***************************************************************************)
(* Balances and counters stay 64-bit words on replay as well, and a piece  *)
(* of a line is only ever the last thing in the file.                      *)
(***************************************************************************)
TypeOK ==
    /\ store \in Store
    /\ file \in Seq(Line)
    /\ \A i \in 1 .. Len(file) - 1 : file[i].cut \in {"none", "glued"}
    /\ synced \in 0 .. Len(file)
    /\ pending \in [Workers -> Line \cup {NoLine}]
    /\ writer \in Workers \cup {Nobody}
    /\ {serial, epoch} \subseteq Nat
    /\ acked \cup lost \subseteq 1 .. serial
    /\ diverged \subseteq Keys

(* The lines that are not in the file yet, in some order. *)
Unwritten ==
    SetToSeq({pending[w] : w \in {v \in Workers : pending[v] # NoLine /\ writer # v}})

(* What a restart at this moment would make of the log. *)
Recovered ==
    FoldLeft(LAMBDA s, line : Dispatch(s, line, epoch + 1), Load(file, epoch + 1), Unwritten)

(***************************************************************************)
(* The log reproduces the store: at every moment, replaying the file and   *)
(* the lines the workers are about to append yields the entries and the    *)
(* idempotency records that are in memory.  The keys in diverged are the   *)
(* only exceptions: keys of settled reservations, of binary RESERVEs, of   *)
(* claims without a hash, of reports without a token and of binary failure *)
(* reports with a message; the empty key; keys of binary commands with     *)
(* unescaped characters, and the keys those lines read as; keys two        *)
(* workers change at once; and keys of lines that were glued to a piece of *)
(* a line or not written.                                                  *)
(***************************************************************************)
LogReproducesStore ==
    LET recovered == Recovered
    IN  up => \A k \in Keys \ diverged :
                 /\ recovered.entries[k] = store.entries[k]
                 /\ recovered.idem[k] = store.idem[k]

(***************************************************************************)
(* Durability: with fsync "always" the line of every command a client saw  *)
(* succeed is on the disk, whole, through any number of power failures.    *)
(* The only exceptions are lines that write() or fdatasync() failed on,    *)
(* and lines glued to a piece of a line.                                   *)
(***************************************************************************)
AckedIsDurable ==
    policy = "always" =>
        \A n \in acked \ lost :
            \E i \in 1 .. synced : file[i].n = n /\ file[i].cut = "none"

(***************************************************************************)
(* The README's "safely ignoring truncated commands": with fsync "always"  *)
(* and no write error, what a client saw succeed is never lost, even if a  *)
(* power failure truncated another command.                                *)
(***************************************************************************)
AckedSurvives ==
    policy = "always" /\ errors = 0 =>
        \A n \in acked :
            \E i \in 1 .. Len(file) : file[i].n = n /\ file[i].cut = "none"
=============================================================================
