------------------------------ MODULE KvProofs ------------------------------
(***************************************************************************)
(* The key-value requests for any number of workers, keys, values, times   *)
(* to live, kills and restarts, and the shard of the store below them.     *)
(*                                                                         *)
(* That a restart brings keys back is proved key by key.  Of a key that is *)
(* not `unsure` at most one worker holds a line that is not in the file,   *)
(* and replaying the file and that line, now or at any later time, leaves  *)
(* the value that stands under the key with a deadline that is not earlier *)
(* (KeyOK).  Appending the line, letting time pass and applying the next   *)
(* command to both sides keep this; a command that writes or deletes the   *)
(* key outright establishes it from nothing.                               *)
(*                                                                         *)
(* The answers of requests with several calls are tied, call by call, to   *)
(* what was under their keys at some moment since the request began        *)
(* (Fits).                                                                 *)
(***************************************************************************)
EXTENDS KvService, KvStore, SequenceTheorems, FiniteSetTheorems, WellFoundedInduction, TLAPS

-----------------------------------------------------------------------------
(* The inductive invariant *)

Several == {"DEL", "EXISTS", "TTL"}

(* The shape of a request under way. *)
Shape(r) ==
    /\ r.keys # <<>> /\ Len(r.out) <= Len(r.keys)
    /\ r.op \notin Several => r.out = <<>> /\ r.line # NoLine /\ r.line.key = r.keys[1]
    /\ r.op = "DEL" /\ r.line # NoLine => r.out # <<>> /\ r.line.key = r.keys[Len(r.out)]
    /\ r.op \in {"EXISTS", "TTL"} => r.line = NoLine
    /\ r.op \in {"DEL", "EXISTS"} => r.out \in Seq(BOOLEAN)
    /\ r.op = "TTL" => r.out \in Seq(Int) /\ Len(r.keys) = 2 /\ r.keys[2] = r.keys[1]

StateOK ==
    /\ entries \in [Keys -> Entry \cup {NoEntry}]
    /\ now \in 0 .. MaxClock
    /\ up \in BOOLEAN
    /\ unsure \subseteq Keys
    /\ file \in Seq(Command)
    /\ task \in [Workers -> Task \cup {Idle}]
    /\ \A w \in Workers : task[w] # Idle => up /\ Shape(task[w])

(* What stands under each key at time t has been noted. *)
Noted(seen, es, t) ==
    \A k \in Keys :
        /\ IF Live(es[k], t) THEN k \in seen.live ELSE k \in seen.gone
        /\ es[k] # NoEntry => k \in seen.stored

(* Ttl answered with n, and Pttl of the entry e, if it is asked now, will agree. *)
Agrees(n, e, t) ==
    \/ n = -2 /\ ~Live(e, t)
    \/ n = -1 /\ e # NoEntry /\ e.expire_at = 0
    \/ n > 0 /\ (Live(e, t) => e.expire_at > t /\ e.expire_at - t <= n * MsPerSecond)

(* The answers of a request so far fit its moments so far. *)
Fits(r, es, t) ==
    /\ Noted(r.seen, es, t)
    /\ r.op = "EXISTS" => \A i \in 1 .. Len(r.out) :
          IF r.out[i] THEN r.keys[i] \in r.seen.live ELSE r.keys[i] \in r.seen.gone
    /\ r.op = "DEL" => \A i \in 1 .. Len(r.out) :
          /\ r.out[i] => r.keys[i] \in r.seen.stored
          /\ r.keys[i] \in r.seen.gone
    /\ r.op = "TTL" /\ r.keys[1] \notin r.seen.wrote =>
          /\ Len(r.out) = 1 => Agrees(r.out[1], es[r.keys[1]], t)
          /\ Len(r.out) = 2 =>
                \/ r.out[1] < 0 /\ r.out[2] = r.out[1]
                \/ /\ r.out[1] > 0
                   /\ r.out[2] = -2 \/ r.out[2] \in 1 .. r.out[1] * MsPerSecond

TasksFit ==
    \A w \in Workers : task[w] # Idle /\ task[w].op \in Several => Fits(task[w], entries, now)

(* The worker w has changed the key k and not logged it yet. *)
Waits(w, k) == task[w] # Idle /\ task[w].line # NoLine /\ task[w].line.key = k

(* The entry d is what a restart may bring back of the entry e. *)
Follows(d, e) ==
    IF e = NoEntry THEN d = NoEntry
    ELSE d # NoEntry /\ d.num = e.num /\ d.clean = e.clean /\ NotEarlier(d.expire_at, e.expire_at)

(* Replaying the lines of a key, now or at any later time, brings it back. *)
KeyOK(k) ==
    up /\ k \notin unsure /\ k \notin EmptyKeys =>
        /\ \A v, w \in Workers : Waits(v, k) /\ Waits(w, k) => v = w
        /\ entries[k] # NoEntry => Live(entries[k], now)
        /\ (\A w \in Workers : ~Waits(w, k)) =>
              \A t \in now .. MaxClock : Follows(Replay(file, t)[k], entries[k])
        /\ \A w \in Workers : Waits(w, k) =>
              \A t \in now .. MaxClock :
                  Follows(Perform(Replay(file, t)[k], t, task[w].line), entries[k])

SInv == StateOK /\ TasksFit /\ \A k \in Keys : KeyOK(k)

-----------------------------------------------------------------------------
(* What one command does to the entry of its key *)

(* What an operation leaves under a key: nothing, or an entry that is live. *)
Fresh(e, t) == e \in Entry \cup {NoEntry} /\ (e # NoEntry => Live(e, t))

(* Every command is of one of five kinds. *)
LEMMA CommandCases ==
    ASSUME NEW c \in Command
    PROVE  /\ c.key \in Keys
           /\ \/ c.op = "SET" /\ c.val \in Writes /\ c.cond \in WriteCondition /\ c.ttl \in Ttls
              \/ /\ c.op = "QUOTA_INIT" /\ c.val \in Writes /\ c.cond = "Always"
                 /\ c.ttl \in Ttls \cup {0}
              \/ c.op = "DEL"
              \/ c.op = "PEXPIRE" /\ c.ttl \in Ttls
              \/ c.op = "INCRBY" /\ c.delta \in Deltas /\ c.ttl \in Ttls
BY DEF Command

(* What Perform is, by the name of the command. *)
LEMMA PerformCases ==
    ASSUME NEW e, NEW t, NEW c
    PROVE  /\ c.op \in {"SET", "QUOTA_INIT"} => Perform(e, t, c) = AfterSet(e, t, c.val, c.cond, c.ttl)
           /\ c.op = "DEL" => Perform(e, t, c) = NoEntry
           /\ c.op = "PEXPIRE" => Perform(e, t, c) = AfterExpire(e, t, c.ttl)
           /\ c.op = "INCRBY" => Perform(e, t, c) = AfterIncrBy(e, t, c.delta, c.ttl)
BY DEF Perform

(* What Succeeds is, by the name of the command. *)
LEMMA SucceedsCases ==
    ASSUME NEW e, NEW t, NEW c
    PROVE  /\ c.op \in {"SET", "QUOTA_INIT"} => Succeeds(e, t, c) = ~Refuses(c.cond, Lookup(e, t))
           /\ c.op = "DEL" => Succeeds(e, t, c) = (e # NoEntry)
           /\ c.op = "PEXPIRE" => Succeeds(e, t, c) = Live(e, t)
           /\ c.op = "INCRBY" => Succeeds(e, t, c) = ~(Live(e, t) /\ IncrFails(e, c.delta))
BY DEF Succeeds

(* A deadline is 0 or in the future: nothing wraps. *)
LEMMA DeadlineAhead ==
    ASSUME NEW t \in 0 .. MaxClock, NEW ttl \in Ttls \cup {0}
    PROVE  /\ ttl \in Nat
           /\ ttl = 0 => Deadline(t, ttl) = 0
           /\ ttl > 0 => Deadline(t, ttl) = t + ttl /\ AddU64(t, ttl) = t + ttl
<1>1. MaxClock \in Nat /\ (ttl \in Ttls => ttl \in Nat /\ MaxClock + ttl <= MaxU64)
  BY KvServiceAssumption
<1>2. MaxU64 \in Nat
  BY WordAssumption
<1> QED
  BY <1>1, <1>2 DEF Deadline, AddU64

(* Lookup leaves nothing, or an entry that is live. *)
LEMMA LookupFresh ==
    ASSUME NEW e \in Entry \cup {NoEntry}, NEW t
    PROVE  Fresh(Lookup(e, t), t) /\ (Fresh(e, t) => Lookup(e, t) = e)
BY DEF Fresh, Lookup, Live

(* Words of the client's values and of the counter stay words. *)
LEMMA EntryMade ==
    ASSUME NEW v \in Value, NEW d \in Nat
    PROVE  [num |-> v.num, clean |-> v.clean, expire_at |-> d] \in Entry
BY DEF Value, Entry

(* An increment that does not fail leaves a signed 64-bit number. *)
LEMMA EntryIncremented ==
    ASSUME NEW e \in Entry, NEW delta \in Deltas, ~IncrFails(e, delta)
    PROVE  [e EXCEPT !.num = @ + delta] \in Entry
<1>1. e.num + delta \in MinI64 .. MaxI64 /\ e.num + delta \in Number
  BY WordAssumption DEF IncrFails, Number, MinI64
<1> QED
  BY <1>1 DEF Entry

(* A command leaves nothing, or an entry that is live. *)
LEMMA PerformFresh ==
    ASSUME NEW e \in Entry \cup {NoEntry}, NEW t \in 0 .. MaxClock, NEW c \in Command
    PROVE  Fresh(Perform(e, t, c), t)
<1>0. /\ t \in Nat /\ Writes \subseteq Value /\ Deltas \subseteq Number /\ MaxClock \in Nat
      /\ NoEntry \notin Entry
  BY KvServiceAssumption, WordAssumption, NoEntryAssumption DEF Number, MinI64
<1>1. CASE c.op \in {"SET", "QUOTA_INIT"}
  <2>1. c.val \in Value /\ c.ttl \in Ttls \cup {0}
    BY <1>0, <1>1, CommandCases
  <2> DEFINE d == Deadline(t, c.ttl)
             a == [num |-> c.val.num, clean |-> c.val.clean, expire_at |-> d]
  <2>2. d \in Nat /\ (d > 0 => d > t)
    BY <1>0, <2>1, DeadlineAhead
  <2>3. a \in Entry /\ a.expire_at = d
    BY <2>1, <2>2, EntryMade
  <2>4. Perform(e, t, c) = Lookup(e, t) \/ Perform(e, t, c) = a
    BY <1>1, PerformCases DEF AfterSet
  <2> HIDE DEF a, d
  <2>5. Fresh(a, t)
    BY <1>0, <2>2, <2>3 DEF Fresh, Live, IsExpired
  <2> QED
    BY <2>4, <2>5, LookupFresh
<1>2. CASE c.op = "DEL"
  BY <1>2, PerformCases DEF Fresh
<1>3. CASE c.op = "PEXPIRE"
  <2>1. Perform(e, t, c) = AfterExpire(e, t, c.ttl) /\ c.ttl \in Ttls \cup {0}
    BY <1>3, PerformCases, CommandCases
  <2>2. CASE Live(e, t) /\ c.ttl > 0
    <3> DEFINE a == [e EXCEPT !.expire_at = t + c.ttl]
    <3>1. e \in Entry /\ c.ttl \in Nat
      BY <2>1, <2>2, DeadlineAhead DEF Live
    <3>2. a \in Entry /\ a.expire_at = t + c.ttl
      BY <1>0, <3>1 DEF Entry
    <3>3. Perform(e, t, c) = a
      BY <2>1, <2>2, DeadlineAhead DEF AfterExpire
    <3> HIDE DEF a
    <3> QED
      BY <1>0, <2>2, <3>1, <3>2, <3>3 DEF Fresh, Live, IsExpired
  <2>3. CASE ~(Live(e, t) /\ c.ttl > 0)
    BY <2>1, <2>3 DEF AfterExpire, Fresh
  <2> QED
    BY <2>2, <2>3
<1>4. CASE c.op = "INCRBY"
  <2>1. /\ Perform(e, t, c) = AfterIncrBy(e, t, c.delta, c.ttl)
        /\ c.ttl \in Ttls \cup {0} /\ c.delta \in Deltas
    BY <1>4, PerformCases, CommandCases
  <2>2. CASE ~Live(e, t)
    <3> DEFINE d == Deadline(t, c.ttl)
               a == [num |-> c.delta, clean |-> TRUE, expire_at |-> d]
    <3>1. d \in Nat /\ (d > 0 => d > t)
      BY <1>0, <2>1, DeadlineAhead
    <3>2. a \in Entry /\ a.expire_at = d
      BY <1>0, <2>1, <3>1 DEF Entry
    <3>3. Perform(e, t, c) = a
      BY <2>1, <2>2 DEF AfterIncrBy
    <3> HIDE DEF a, d
    <3> QED
      BY <1>0, <3>1, <3>2, <3>3 DEF Fresh, Live, IsExpired
  <2>3. CASE Live(e, t) /\ IncrFails(e, c.delta)
    BY <2>1, <2>3 DEF AfterIncrBy, Fresh
  <2>4. CASE Live(e, t) /\ ~IncrFails(e, c.delta)
    <3> DEFINE a == [e EXCEPT !.num = @ + c.delta]
    <3>1. e \in Entry
      BY <2>4 DEF Live
    <3>2. a \in Entry /\ a.expire_at = e.expire_at
      BY <2>1, <2>4, <3>1, EntryIncremented DEF Entry
    <3>3. Perform(e, t, c) = a
      BY <2>1, <2>4 DEF AfterIncrBy
    <3> HIDE DEF a
    <3> QED
      BY <1>0, <2>4, <3>2, <3>3 DEF Fresh, Live, IsExpired
  <2> QED
    BY <2>2, <2>3, <2>4
<1> QED
  BY <1>1, <1>2, <1>3, <1>4, CommandCases

(* A command that does not succeed only erases what has expired. *)
LEMMA PerformFails ==
    ASSUME NEW e \in Entry \cup {NoEntry}, NEW t, NEW c \in Command, ~Succeeds(e, t, c)
    PROVE  Perform(e, t, c) = Lookup(e, t)
<1>1. CASE c.op \in {"SET", "QUOTA_INIT"}
  BY <1>1, PerformCases, SucceedsCases DEF AfterSet
<1>2. CASE c.op = "DEL"
  <2>1. e = NoEntry
    BY <1>2 DEF Succeeds
  <2> QED
    BY <1>2, <2>1, PerformCases DEF Lookup, Live
<1>3. CASE c.op = "PEXPIRE"
  BY <1>3, PerformCases, SucceedsCases DEF AfterExpire, Lookup
<1>4. CASE c.op = "INCRBY"
  BY <1>4, PerformCases, SucceedsCases DEF AfterIncrBy, Lookup
<1> QED
  BY <1>1, <1>2, <1>3, <1>4, CommandCases

(* The line of a command. *)
LEMMA LineIs ==
    ASSUME NEW c \in Command
    PROVE  /\ Line(c) \in Command /\ Line(c).key = c.key /\ Line(c).op = c.op
           /\ c.op # "QUOTA_INIT" => Line(c) = c
           /\ c.op = "QUOTA_INIT" => Line(c).val = c.val /\ Line(c).cond = "Always" /\ Line(c).ttl = 0
BY DEF Line, Command

(* Following is kept by a command that is applied to both, the later one later. *)
LEMMA PerformFollows ==
    ASSUME NEW s \in 0 .. MaxClock, NEW t \in 0 .. MaxClock, s <= t,
           NEW e, Fresh(e, s), NEW d, Fresh(d, t), Follows(d, e), NEW c \in Command
    PROVE  Follows(Perform(d, t, c), Perform(e, s, c))
<1>0. /\ s \in Nat /\ t \in Nat /\ NoEntry \notin Entry
      /\ Lookup(d, t) = d /\ Lookup(e, s) = e
      /\ Live(d, t) = (d # NoEntry) /\ Live(e, s) = (e # NoEntry)
      /\ e \in Entry \cup {NoEntry} /\ d \in Entry \cup {NoEntry}
      /\ (d = NoEntry) = (e = NoEntry)
  BY KvServiceAssumption, NoEntryAssumption DEF Fresh, Lookup, Live, Follows
<1>5. Deltas \subseteq Number
  BY KvServiceAssumption, WordAssumption DEF Number, MinI64
<1>1. CASE c.op \in {"SET", "QUOTA_INIT"}
  <2>1. /\ c.val \in Value /\ c.ttl \in Ttls \cup {0}
        /\ Perform(d, t, c) = AfterSet(d, t, c.val, c.cond, c.ttl)
        /\ Perform(e, s, c) = AfterSet(e, s, c.val, c.cond, c.ttl)
    BY <1>1, CommandCases, PerformCases, KvServiceAssumption
  <2>2. Refuses(c.cond, Lookup(d, t)) <=> Refuses(c.cond, Lookup(e, s))
    BY <1>0 DEF Refuses
  <2>3. CASE Refuses(c.cond, Lookup(e, s))
    BY <1>0, <2>1, <2>2, <2>3 DEF AfterSet
  <2>4. CASE ~Refuses(c.cond, Lookup(e, s))
    <3> DEFINE a == [num |-> c.val.num, clean |-> c.val.clean, expire_at |-> Deadline(t, c.ttl)]
               b == [num |-> c.val.num, clean |-> c.val.clean, expire_at |-> Deadline(s, c.ttl)]
    <3>1. Perform(d, t, c) = a /\ Perform(e, s, c) = b
      BY <2>1, <2>2, <2>4 DEF AfterSet
    <3>2. Deadline(t, c.ttl) \in Nat /\ Deadline(s, c.ttl) \in Nat
      BY <1>0, <2>1, DeadlineAhead
    <3>3. a \in Entry /\ b \in Entry
      BY <2>1, <3>2, EntryMade
    <3>4. NotEarlier(Deadline(t, c.ttl), Deadline(s, c.ttl))
      BY <1>0, <2>1, DeadlineAhead DEF NotEarlier
    <3> QED
      BY <1>0, <3>1, <3>3, <3>4 DEF Follows
  <2> QED
    BY <2>3, <2>4
<1>2. CASE c.op = "DEL"
  BY <1>2, PerformCases DEF Follows
<1>3. CASE c.op = "PEXPIRE"
  <2>1. /\ c.ttl \in Ttls \cup {0}
        /\ Perform(d, t, c) = AfterExpire(d, t, c.ttl)
        /\ Perform(e, s, c) = AfterExpire(e, s, c.ttl)
    BY <1>3, CommandCases, PerformCases
  <2>2. CASE e # NoEntry /\ c.ttl > 0
    <3>1. d \in Entry /\ e \in Entry /\ d.num = e.num /\ d.clean = e.clean
      BY <1>0, <2>2 DEF Follows
    <3> DEFINE a == [d EXCEPT !.expire_at = t + c.ttl]
               b == [e EXCEPT !.expire_at = s + c.ttl]
    <3>2. Perform(d, t, c) = a /\ Perform(e, s, c) = b
      BY <1>0, <2>1, <2>2, DeadlineAhead DEF AfterExpire
    <3>3. c.ttl \in Nat
      BY <2>1, DeadlineAhead
    <3>4. a \in Entry /\ b \in Entry
      BY <1>0, <3>1, <3>3 DEF Entry
    <3>5. a.num = b.num /\ a.clean = b.clean /\ a.expire_at = t + c.ttl /\ b.expire_at = s + c.ttl
      BY <3>1 DEF Entry
    <3> HIDE DEF a, b
    <3>6. NotEarlier(a.expire_at, b.expire_at)
      BY <1>0, <2>2, <3>3, <3>5 DEF NotEarlier
    <3> QED
      BY <1>0, <3>2, <3>4, <3>5, <3>6 DEF Follows
  <2>3. CASE ~(e # NoEntry /\ c.ttl > 0)
    BY <1>0, <2>1, <2>3 DEF AfterExpire, Follows
  <2> QED
    BY <2>2, <2>3
<1>4. CASE c.op = "INCRBY"
  <2>1. /\ c.ttl \in Ttls \cup {0} /\ c.delta \in Deltas
        /\ Perform(d, t, c) = AfterIncrBy(d, t, c.delta, c.ttl)
        /\ Perform(e, s, c) = AfterIncrBy(e, s, c.delta, c.ttl)
    BY <1>4, CommandCases, PerformCases
  <2>2. CASE e = NoEntry
    <3> DEFINE a == [num |-> c.delta, clean |-> TRUE, expire_at |-> Deadline(t, c.ttl)]
               b == [num |-> c.delta, clean |-> TRUE, expire_at |-> Deadline(s, c.ttl)]
    <3>1. Perform(d, t, c) = a /\ Perform(e, s, c) = b
      BY <1>0, <2>1, <2>2 DEF AfterIncrBy
    <3>2. /\ Deadline(t, c.ttl) \in Nat /\ Deadline(s, c.ttl) \in Nat
          /\ c.delta \in Number
      <4>1. c.delta \in Number
        BY <1>5, <2>1
      <4> QED
        BY <1>0, <2>1, <4>1, DeadlineAhead
    <3>3. a \in Entry /\ b \in Entry
      BY <3>2 DEF Entry
    <3>4. NotEarlier(Deadline(t, c.ttl), Deadline(s, c.ttl))
      BY <1>0, <2>1, DeadlineAhead DEF NotEarlier
    <3>5. a.num = b.num /\ a.clean = b.clean /\ NotEarlier(a.expire_at, b.expire_at)
      BY <3>4
    <3> HIDE DEF a, b
    <3> QED
      BY <1>0, <3>1, <3>3, <3>5 DEF Follows
  <2>3. CASE e # NoEntry
    <3>1. /\ d \in Entry /\ e \in Entry /\ d.num = e.num /\ d.clean = e.clean
          /\ NotEarlier(d.expire_at, e.expire_at)
      BY <1>0, <2>3 DEF Follows
    <3>2. IncrFails(d, c.delta) <=> IncrFails(e, c.delta)
      BY <3>1 DEF IncrFails
    <3>3. CASE IncrFails(e, c.delta)
      BY <1>0, <2>1, <2>3, <3>2, <3>3 DEF AfterIncrBy
    <3>4. CASE ~IncrFails(e, c.delta)
      <4> DEFINE a == [d EXCEPT !.num = @ + c.delta]
                 b == [e EXCEPT !.num = @ + c.delta]
      <4>1. Perform(d, t, c) = a /\ Perform(e, s, c) = b
        BY <1>0, <2>1, <2>3, <3>2, <3>4 DEF AfterIncrBy
      <4>2. a \in Entry /\ b \in Entry
        BY <2>1, <3>1, <3>2, <3>4, EntryIncremented
      <4>3. a.num = b.num /\ a.clean = b.clean /\ NotEarlier(a.expire_at, b.expire_at)
        BY <3>1 DEF Entry
      <4> HIDE DEF a, b
      <4> QED
        BY <1>0, <4>1, <4>2, <4>3 DEF Follows
    <3> QED
      BY <3>3, <3>4
  <2> QED
    BY <2>2, <2>3
<1> QED
  BY <1>1, <1>2, <1>3, <1>4, CommandCases

(* So does a command and, later, its line. *)
LEMMA LineFollows ==
    ASSUME NEW s \in 0 .. MaxClock, NEW t \in 0 .. MaxClock, s <= t,
           NEW e, Fresh(e, s), NEW d, Fresh(d, t), NEW c \in Command,
           Follows(d, e) \/ c.op = "QUOTA_INIT"
    PROVE  Follows(Perform(d, t, Line(c)), Perform(e, s, c))
<1>1. CASE c.op # "QUOTA_INIT"
  BY <1>1, LineIs, PerformFollows
<1>2. CASE c.op = "QUOTA_INIT"
  <2>1. /\ c.val \in Value /\ c.cond = "Always" /\ c.ttl \in Ttls \cup {0}
        /\ Line(c).op = "QUOTA_INIT" /\ Line(c).val = c.val
        /\ Line(c).cond = "Always" /\ Line(c).ttl = 0
    BY <1>2, CommandCases, LineIs, KvServiceAssumption
  <2> DEFINE a == [num |-> c.val.num, clean |-> c.val.clean, expire_at |-> 0]
             b == [num |-> c.val.num, clean |-> c.val.clean, expire_at |-> Deadline(s, c.ttl)]
  <2>2. Perform(e, s, c) = b
    BY <1>2, <2>1, PerformCases DEF AfterSet, Refuses
  <2>3. Perform(d, t, Line(c)) = a
    BY <2>1, PerformCases DEF AfterSet, Refuses, Deadline
  <2>4. Deadline(s, c.ttl) \in Nat
    BY <2>1, DeadlineAhead, KvServiceAssumption
  <2>5. a \in Entry /\ b \in Entry
    BY <2>1, <2>4, EntryMade
  <2> QED
    BY <2>2, <2>3, <2>5, NoEntryAssumption DEF Follows, NotEarlier
<1> QED
  BY <1>1, <1>2

(* A command that asks nothing of what it finds needs no such start. *)
LEMMA OutrightFollows ==
    ASSUME NEW s \in 0 .. MaxClock, NEW t \in 0 .. MaxClock, s <= t,
           NEW e \in Entry \cup {NoEntry}, NEW d \in Entry \cup {NoEntry},
           NEW c \in Command, Outright(c)
    PROVE  Follows(Perform(d, t, Line(c)), Perform(e, s, c))
<1>1. CASE c.op \in {"SET", "QUOTA_INIT"}
  <2>1. c.cond = "Always" /\ Line(c).cond = "Always" /\ Line(c).op = c.op
    BY <1>1, CommandCases, LineIs DEF Outright
  <2>2. /\ Perform(e, s, c) = Perform(NoEntry, s, c)
        /\ Perform(d, t, Line(c)) = Perform(NoEntry, t, Line(c))
    BY <1>1, <2>1, PerformCases DEF AfterSet, Refuses
  <2>3. Fresh(NoEntry, s) /\ Fresh(NoEntry, t) /\ Follows(NoEntry, NoEntry)
    BY DEF Fresh, Follows
  <2> QED
    BY <2>2, <2>3, LineFollows
<1>2. CASE c.op = "DEL"
  BY <1>2, LineIs, PerformCases DEF Follows
<1>3. CASE c.op = "PEXPIRE"
  <2>1. c.ttl = 0 /\ Line(c) = c
    BY <1>3, LineIs DEF Outright
  <2> QED
    BY <1>3, <2>1, PerformCases DEF Follows, AfterExpire
<1>4. CASE c.op = "INCRBY"
  BY <1>4 DEF Outright
<1> QED
  BY <1>1, <1>2, <1>3, <1>4, CommandCases

-----------------------------------------------------------------------------
(* The replay of a file *)

(* Induction over the natural numbers, with a set for the predicate. *)
LEMMA NatSetInduction ==
    ASSUME NEW P, 0 \in P, \A n \in Nat : n \in P => n + 1 \in P
    PROVE  \A n \in Nat : n \in P
<1> DEFINE below == {p \in Nat \X Nat : p[1] < p[2]}
           bad == Nat \ P
<1>1. IsWellFoundedOn(below, Nat)
  BY NatLessThanWellFounded DEF OpToRel
<1> SUFFICES ASSUME bad # {} PROVE FALSE
  OBVIOUS
<1>2. bad \subseteq Nat
  OBVIOUS
<1> HIDE DEF below, bad
<1>3. PICK m \in bad : \A n \in bad : ~(<<n, m>> \in below)
  BY <1>1, <1>2, WFMin
<1>4. m \in Nat /\ m # 0 /\ m \notin P
  BY <1>3, <1>2 DEF bad
<1>5. m - 1 \in Nat /\ <<m - 1, m>> \in below
  BY <1>4 DEF below
<1>6. m - 1 \in P
  BY <1>3, <1>5 DEF bad
<1>7. (m - 1) + 1 \in P
  BY <1>5, <1>6
<1> QED
  BY <1>4, <1>7

-----------------------------------------------------------------------------
(* FoldLeft over the lines of a file. *)

(* Induction over sequences, one element at a time. *)
LEMMA SeqSetInduction ==
    ASSUME NEW S, NEW P, <<>> \in P,
           \A f \in Seq(S), l \in S : f \in P => Append(f, l) \in P
    PROVE  \A f \in Seq(S) : f \in P
<1> DEFINE Q == {n \in Nat : \A f \in Seq(S) : Len(f) = n => f \in P}
<1>1. 0 \in Q
  <2> SUFFICES ASSUME NEW f \in Seq(S), Len(f) = 0 PROVE f \in P
    OBVIOUS
  <2>1. f = <<>>
    OBVIOUS
  <2> QED
    BY <2>1
<1>2. ASSUME NEW n \in Nat, n \in Q PROVE n + 1 \in Q
  <2> SUFFICES ASSUME NEW f \in Seq(S), Len(f) = n + 1 PROVE f \in P
    OBVIOUS
  <2>1. f # <<>>
    OBVIOUS
  <2>2. PICK g \in Seq(S), l \in S : f = Append(g, l)
    BY <2>1, SequenceEmptyOrAppend
  <2>3. Len(g) = n
    BY <2>2
  <2> QED
    BY <1>2, <2>2, <2>3
<1> HIDE DEF Q
<1>3. \A n \in Nat : n \in Q
  BY <1>1, <1>2, NatSetInduction
<1> QED
  BY <1>3 DEF Q

(* A line applied to the keys of the store at time t. *)
Applied(s, c, t) == [s EXCEPT ![c.key] = Loaded(@, t, c)]

(* What FoldLeft makes of a set of positions, given what it made of the rest. *)
Step(g, f, t, s) ==
    IF s = {} THEN Empty ELSE Applied(g[s \ {Max(s)}], f[Max(s)], t)

(* g replays the lines of f at every set of positions up to n. *)
Replays(g, f, t, n) == g = [s \in SUBSET (1 .. n) |-> Step(g, f, t, s)]

(* The largest of the positions 1 to i + 1, and the others. *)
LEMMA LastPosition ==
    ASSUME NEW i \in Nat
    PROVE  Max(1 .. i + 1) = i + 1 /\ (1 .. i + 1) \ {i + 1} = 1 .. i
<1>1. i + 1 \in 1 .. i + 1 /\ \A y \in 1 .. i + 1 : i + 1 >= y
  OBVIOUS
<1>2. \A x \in 1 .. i + 1 : (\A y \in 1 .. i + 1 : x >= y) => x = i + 1
  <2> TAKE x \in 1 .. i + 1
  <2> HAVE \A y \in 1 .. i + 1 : x >= y
  <2>1. x >= i + 1 /\ x <= i + 1 /\ x \in Int
    BY <1>1
  <2> QED
    BY <2>1
<1>3. Max(1 .. i + 1) = i + 1
  BY <1>1, <1>2 DEF Max
<1> QED
  BY <1>3

(* The largest position of a set, where the others are smaller. *)
LEMMA MaxOfPositions ==
    ASSUME NEW n \in Nat, NEW s \in SUBSET (1 .. n + 1)
    PROVE  s = {} \/ s \ {Max(s)} \in SUBSET (1 .. n)
<1> SUFFICES ASSUME s # {} PROVE s \ {Max(s)} \in SUBSET (1 .. n)
  OBVIOUS
<1>1. CASE n + 1 \in s
  <2>1. \A y \in s : n + 1 >= y
    OBVIOUS
  <2>2. \A x \in s : (\A y \in s : x >= y) => x = n + 1
    <3> TAKE x \in s
    <3> HAVE \A y \in s : x >= y
    <3>1. x >= n + 1 /\ x <= n + 1 /\ x \in Int
      BY <1>1, <2>1
    <3> QED
      BY <3>1
  <2>3. Max(s) = n + 1
    BY <1>1, <2>1, <2>2 DEF Max
  <2> QED
    BY <2>3
<1>2. CASE n + 1 \notin s
  <2>1. \A x \in s : x \in 1 .. n + 1 /\ x # n + 1
    BY <1>2
  <2>2. \A x \in s : x \in 1 .. n
    BY <2>1
  <2> QED
    BY <2>2
<1> QED
  BY <1>1, <1>2

(* There is a function that replays. *)
LEMMA ReplayExists ==
    ASSUME NEW f, NEW t, NEW n \in Nat
    PROVE  \E g : Replays(g, f, t, n)
<1> DEFINE Q == {m \in Nat : \E g : \A s \in SUBSET (1 .. n) :
                    s \in SUBSET (1 .. m) => g[s] = Step(g, f, t, s)}
<1>1. 0 \in Q
  <2> DEFINE g == [s \in SUBSET (1 .. n) |-> Empty]
  <2>1. ASSUME NEW s \in SUBSET (1 .. n), s \in SUBSET (1 .. 0)
        PROVE  g[s] = Step(g, f, t, s)
    <3>1. s = {}
      BY <2>1
    <3> QED
      BY <3>1 DEF Step
  <2> HIDE DEF g
  <2> QED
    BY <2>1
<1>2. ASSUME NEW m \in Nat, m \in Q PROVE m + 1 \in Q
  <2>1. PICK g : \A s \in SUBSET (1 .. n) :
                    s \in SUBSET (1 .. m) => g[s] = Step(g, f, t, s)
    BY <1>2
  <2> DEFINE h == [s \in SUBSET (1 .. n) |-> Step(g, f, t, s)]
  <2>2. ASSUME NEW s \in SUBSET (1 .. n), s \in SUBSET (1 .. m + 1)
        PROVE  h[s] = Step(h, f, t, s)
    <3>1. CASE s = {}
      BY <3>1 DEF Step
    <3>2. CASE s # {}
      <4> DEFINE rest == s \ {Max(s)}
      <4>1. rest \in SUBSET (1 .. m) /\ rest \in SUBSET (1 .. n)
        BY <2>2, <3>2, MaxOfPositions
      <4>2. h[rest] = g[rest]
        BY <4>1, <2>1
      <4> HIDE DEF rest, h
      <4>3. Step(g, f, t, s) = Step(h, f, t, s)
        BY <3>2, <4>2 DEF Step, rest
      <4> QED
        BY <4>3 DEF h
    <3> QED
      BY <3>1, <3>2
  <2> HIDE DEF h
  <2> QED
    BY <2>2
<1> HIDE DEF Q
<1>3. n \in Q
  BY <1>1, <1>2, NatSetInduction
<1>4. PICK g : \A s \in SUBSET (1 .. n) : g[s] = Step(g, f, t, s)
  BY <1>3 DEF Q
<1> DEFINE h == [s \in SUBSET (1 .. n) |-> Step(g, f, t, s)]
<1>5. ASSUME NEW s \in SUBSET (1 .. n) PROVE Step(g, f, t, s) = Step(h, f, t, s)
  <2>1. s \ {Max(s)} \in SUBSET (1 .. n)
    OBVIOUS
  <2>2. h[s \ {Max(s)}] = g[s \ {Max(s)}]
    BY <2>1, <1>4
  <2> HIDE DEF h
  <2> QED
    BY <2>2 DEF Step
<1>6. h = [s \in SUBSET (1 .. n) |-> Step(h, f, t, s)]
  BY <1>5
<1> HIDE DEF h
<1> QED
  BY <1>6 DEF Replays

(* Replay is the value of such a function. *)
LEMMA ReplayedIs ==
    ASSUME NEW S, NEW f \in Seq(S), NEW t
    PROVE  \E g : Replays(g, f, t, Len(f)) /\ Replay(f, t) = g[1 .. Len(f)]
<1> DEFINE g == CHOOSE g : Replays(g, f, t, Len(f))
<1>1. Replays(g, f, t, Len(f))
  BY ReplayExists
<1>2. DOMAIN f = 1 .. Len(f)
  OBVIOUS
<1>3. Replay(f, t) = g[1 .. Len(f)]
  BY <1>2 DEF Replay, Applied, FoldLeft, MapThenFoldSet, Step, Replays
<1> HIDE DEF g
<1> QED
  BY <1>1, <1>3

(* Two such functions agree as long as the lines do. *)
LEMMA ReplaysAgree ==
    ASSUME NEW t, NEW n \in Nat, NEW m \in Nat, n <= m, NEW f, NEW e,
           \A i \in 1 .. n : f[i] = e[i],
           NEW g, Replays(g, f, t, n), NEW h, Replays(h, e, t, m)
    PROVE  g[1 .. n] = h[1 .. n]
<1> DEFINE Q == {i \in Nat : i <= n => g[1 .. i] = h[1 .. i]}
<1>0. ASSUME NEW i \in Nat, i <= n
      PROVE  /\ g[1 .. i] = Step(g, f, t, 1 .. i)
             /\ h[1 .. i] = Step(h, e, t, 1 .. i)
  <2>1. 1 .. i \in SUBSET (1 .. n) /\ 1 .. i \in SUBSET (1 .. m)
    BY <1>0
  <2> QED
    BY <2>1 DEF Replays
<1>1. 0 \in Q
  <2>1. 1 .. 0 = {}
    OBVIOUS
  <2> QED
    BY <1>0, <2>1 DEF Step
<1>2. ASSUME NEW i \in Nat, i \in Q PROVE i + 1 \in Q
  <2> SUFFICES ASSUME i + 1 <= n PROVE g[1 .. i + 1] = h[1 .. i + 1]
    OBVIOUS
  <2>1. g[1 .. i] = h[1 .. i] /\ f[i + 1] = e[i + 1]
    BY <1>2
  <2>2. 1 .. i + 1 # {}
    OBVIOUS
  <2>3. /\ g[1 .. i + 1] = Step(g, f, t, 1 .. i + 1)
        /\ h[1 .. i + 1] = Step(h, e, t, 1 .. i + 1)
    BY <1>0
  <2>4. /\ g[1 .. i + 1] = Applied(g[1 .. i], f[i + 1], t)
        /\ h[1 .. i + 1] = Applied(h[1 .. i], e[i + 1], t)
    BY <2>2, <2>3, LastPosition DEF Step
  <2> QED
    BY <2>1, <2>4
<1> HIDE DEF Q
<1>3. n \in Q
  BY <1>1, <1>2, NatSetInduction
<1> QED
  BY <1>3 DEF Q

(* An empty file leaves no keys. *)
LEMMA ReplayEmpty ==
    ASSUME NEW t
    PROVE  Replay(<<>>, t) = Empty
<1>1. <<>> \in Seq({}) /\ Len(<<>>) = 0 /\ 1 .. 0 = {}
  OBVIOUS
<1>2. PICK g : Replays(g, <<>>, t, 0) /\ Replay(<<>>, t) = g[1 .. 0]
  BY <1>1, ReplayedIs
<1> QED
  BY <1>1, <1>2 DEF Replays, Step

(* One more line is applied after all the others. *)
LEMMA ReplayAppend ==
    ASSUME NEW S, NEW f \in Seq(S), NEW l \in S, NEW t
    PROVE  Replay(Append(f, l), t) = Applied(Replay(f, t), l, t)
<1> DEFINE e == Append(f, l)
           n == Len(f)
<1>1. /\ n \in Nat /\ e \in Seq(S) /\ Len(e) = n + 1 /\ e[n + 1] = l
      /\ \A i \in 1 .. n : f[i] = e[i]
  OBVIOUS
<1> HIDE DEF e
<1>2. PICK g : Replays(g, f, t, n) /\ Replay(f, t) = g[1 .. n]
  BY ReplayedIs
<1>3. PICK h : Replays(h, e, t, n + 1) /\ Replay(e, t) = h[1 .. n + 1]
  BY <1>1, ReplayedIs
<1> HIDE DEF n
<1>4. g[1 .. n] = h[1 .. n]
  BY <1>1, <1>2, <1>3, ReplaysAgree
<1>5. 1 .. n + 1 # {} /\ 1 .. n + 1 \in SUBSET (1 .. n + 1)
  <2>1. n + 1 \in 1 .. n + 1
    BY <1>1
  <2> QED
    BY <2>1
<1>6. h[1 .. n + 1] = Step(h, e, t, 1 .. n + 1)
  BY <1>3, <1>5 DEF Replays
<1>7. h[1 .. n + 1] = Applied(h[1 .. n], l, t)
  BY <1>1, <1>5, <1>6, LastPosition DEF Step
<1> QED
  BY <1>2, <1>3, <1>4, <1>7 DEF e

(* The entry of one key that is not empty after one more line. *)
LEMMA ReplayKey ==
    ASSUME NEW f \in Seq(Command), NEW l \in Command, NEW t, NEW k \in Keys \ EmptyKeys,
           Replay(f, t) \in [Keys -> Entry \cup {NoEntry}]
    PROVE  Replay(Append(f, l), t)[k] = IF k = l.key THEN Perform(Replay(f, t)[k], t, l)
                                        ELSE Replay(f, t)[k]
<1>1. Replay(Append(f, l), t) = Applied(Replay(f, t), l, t)
  BY ReplayAppend
<1>2. l.key \in Keys
  BY CommandCases
<1> QED
  BY <1>1, <1>2 DEF Applied, Loaded

(* A replay brings back entries, all of them live. *)
LEMMA ReplayFresh ==
    ASSUME NEW f \in Seq(Command), NEW t \in 0 .. MaxClock
    PROVE  /\ Replay(f, t) \in [Keys -> Entry \cup {NoEntry}]
           /\ \A k \in Keys : Fresh(Replay(f, t)[k], t)
<1> DEFINE P == {g \in Seq(Command) : /\ Replay(g, t) \in [Keys -> Entry \cup {NoEntry}]
                                      /\ \A k \in Keys : Fresh(Replay(g, t)[k], t)}
<1>1. <<>> \in P
  <2>1. <<>> \in Seq(Command) /\ Replay(<<>>, t) = Empty
    BY ReplayEmpty
  <2> QED
    BY <2>1 DEF Empty, Fresh
<1>2. ASSUME NEW g \in Seq(Command), NEW l \in Command, g \in P PROVE Append(g, l) \in P
  <2> DEFINE r == Replay(g, t)
             n == Replay(Append(g, l), t)
             p == Loaded(r[l.key], t, l)
  <2>1. r \in [Keys -> Entry \cup {NoEntry}] /\ l.key \in Keys /\ \A k \in Keys : Fresh(r[k], t)
    BY <1>2, CommandCases
  <2>2. n = [r EXCEPT ![l.key] = p]
    BY ReplayAppend DEF Applied
  <2>3. Fresh(p, t) /\ p \in Entry \cup {NoEntry}
    BY <2>1, PerformFresh DEF Fresh, Loaded
  <2> HIDE DEF r, n, p
  <2>4. n \in [Keys -> Entry \cup {NoEntry}] /\ \A k \in Keys : Fresh(n[k], t)
    BY <2>1, <2>2, <2>3
  <2> QED
    BY <2>4 DEF n
<1> HIDE DEF P
<1>3. f \in P
  BY <1>1, <1>2, SeqSetInduction
<1> QED
  BY <1>3 DEF P

(* A later replay of the same file follows an earlier one. *)
LEMMA ReplayFollows ==
    ASSUME NEW f \in Seq(Command), NEW s \in 0 .. MaxClock, NEW t \in 0 .. MaxClock, s <= t
    PROVE  \A k \in Keys \ EmptyKeys : Follows(Replay(f, t)[k], Replay(f, s)[k])
<1> DEFINE P == {g \in Seq(Command) :
                    \A k \in Keys \ EmptyKeys : Follows(Replay(g, t)[k], Replay(g, s)[k])}
<1>1. <<>> \in P
  <2>1. <<>> \in Seq(Command) /\ Replay(<<>>, t) = Empty /\ Replay(<<>>, s) = Empty
    BY ReplayEmpty
  <2> QED
    BY <2>1 DEF Empty, Follows
<1>2. ASSUME NEW g \in Seq(Command), NEW l \in Command, g \in P PROVE Append(g, l) \in P
  <2>0. Append(g, l) \in Seq(Command)
    OBVIOUS
  <2>1. ASSUME NEW k \in Keys \ EmptyKeys
        PROVE  Follows(Replay(Append(g, l), t)[k], Replay(Append(g, l), s)[k])
    <3>1. Replay(g, t) \in [Keys -> Entry \cup {NoEntry}] /\ Fresh(Replay(g, t)[k], t)
      BY ReplayFresh
    <3>2. Replay(g, s) \in [Keys -> Entry \cup {NoEntry}] /\ Fresh(Replay(g, s)[k], s)
      BY ReplayFresh
    <3>3. Follows(Replay(g, t)[k], Replay(g, s)[k])
      BY <1>2
    <3>4. Replay(Append(g, l), t)[k] = IF k = l.key THEN Perform(Replay(g, t)[k], t, l)
                                       ELSE Replay(g, t)[k]
      BY <3>1, ReplayKey
    <3>5. Replay(Append(g, l), s)[k] = IF k = l.key THEN Perform(Replay(g, s)[k], s, l)
                                       ELSE Replay(g, s)[k]
      BY <3>2, ReplayKey
    <3>6. Follows(Perform(Replay(g, t)[k], t, l), Perform(Replay(g, s)[k], s, l))
      BY <3>1, <3>2, <3>3, PerformFollows
    <3> QED
      BY <3>3, <3>4, <3>5, <3>6
  <2> QED
    BY <2>0, <2>1
<1> HIDE DEF P
<1>3. f \in P
  BY <1>1, <1>2, SeqSetInduction
<1> QED
  BY <1>3 DEF P

(* Further lines, at most one of which is of the key k, as LiveKeysSurvive has them. *)
LEMMA ReplayMore ==
    ASSUME NEW f \in Seq(Command), NEW t \in 0 .. MaxClock,
           NEW k \in Keys \ EmptyKeys, NEW u \in Seq(Command)
    PROVE  /\ (\A i \in 1 .. Len(u) : u[i].key # k) => Replay(f \o u, t)[k] = Replay(f, t)[k]
           /\ \A i \in 1 .. Len(u) :
                 (\A j \in 1 .. Len(u) : u[j].key = k <=> j = i)
                     => Replay(f \o u, t)[k] = Perform(Replay(f, t)[k], t, u[i])
<1> DEFINE A(v) == (\A i \in 1 .. Len(v) : v[i].key # k) => Replay(f \o v, t)[k] = Replay(f, t)[k]
           B(v) == \A i \in 1 .. Len(v) :
                      (\A j \in 1 .. Len(v) : v[j].key = k <=> j = i)
                          => Replay(f \o v, t)[k] = Perform(Replay(f, t)[k], t, v[i])
           P == {v \in Seq(Command) : A(v) /\ B(v)}
<1>1. <<>> \in P
  <2>1. <<>> \in Seq(Command) /\ Len(<<>>) = 0 /\ f \o <<>> = f
    OBVIOUS
  <2>2. A(<<>>) /\ B(<<>>)
    BY <2>1
  <2> QED
    BY <2>1, <2>2
<1>2. ASSUME NEW v \in Seq(Command), NEW l \in Command, v \in P PROVE Append(v, l) \in P
  <2> DEFINE n == Len(v)
             a == Append(v, l)
             g == f \o v
  <2>1. /\ a \in Seq(Command) /\ Len(a) = n + 1 /\ a[n + 1] = l /\ n \in Nat
        /\ \A i \in 1 .. n : a[i] = v[i]
    OBVIOUS
  <2>2. g \in Seq(Command) /\ f \o a = Append(g, l)
    OBVIOUS
  <2>3. A(v) /\ B(v)
    BY <1>2
  <2> HIDE DEF a, g
  <2>4. Replay(g, t) \in [Keys -> Entry \cup {NoEntry}]
    BY <2>2, ReplayFresh
  <2>5. Replay(f \o a, t)[k] = IF k = l.key THEN Perform(Replay(g, t)[k], t, l)
                               ELSE Replay(g, t)[k]
    BY <2>2, <2>4, ReplayKey
  <2>6. A(a)
    <3> SUFFICES ASSUME \A i \in 1 .. n + 1 : a[i].key # k
                 PROVE  Replay(f \o a, t)[k] = Replay(f, t)[k]
      BY <2>1
    <3>1. l.key # k /\ \A i \in 1 .. n : v[i].key # k
      BY <2>1
    <3> QED
      BY <2>3, <2>5, <3>1 DEF g
  <2>7. ASSUME NEW i \in 1 .. n + 1, \A j \in 1 .. n + 1 : a[j].key = k <=> j = i
        PROVE  Replay(f \o a, t)[k] = Perform(Replay(f, t)[k], t, a[i])
    <3>1. CASE i = n + 1
      <4>1. l.key = k
        BY <2>1, <2>7, <3>1
      <4>2. \A j \in 1 .. n : v[j].key # k
        BY <2>1, <2>7, <3>1
      <4>3. Replay(g, t)[k] = Replay(f, t)[k]
        BY <2>3, <4>2 DEF g
      <4> QED
        BY <2>1, <2>5, <3>1, <4>1, <4>3
    <3>2. CASE i # n + 1
      <4>1. i \in 1 .. n /\ n + 1 \in 1 .. n + 1
        BY <2>1, <3>2
      <4>2. l.key # k
        BY <2>1, <2>7, <3>2, <4>1
      <4>3. \A j \in 1 .. n : v[j].key = k <=> j = i
        BY <2>1, <2>7
      <4>4. Replay(g, t)[k] = Perform(Replay(f, t)[k], t, v[i])
        BY <2>3, <4>1, <4>3 DEF g
      <4> QED
        BY <2>1, <2>5, <4>1, <4>2, <4>4
    <3> QED
      BY <3>1, <3>2
  <2>8. B(a)
    BY <2>1, <2>7
  <2> QED
    BY <2>1, <2>6, <2>8 DEF a
<1> HIDE DEF P
<1>3. u \in P
  BY <1>1, <1>2, SeqSetInduction
<1> QED
  BY <1>3 DEF P

-----------------------------------------------------------------------------
(* What a step does to the requests under way *)

(* The fields of a request under way. *)
LEMMA TaskFields ==
    ASSUME NEW r \in Task
    PROVE  /\ r # Idle
           /\ r.op \in {"SET", "QUOTA_INIT", "PEXPIRE", "INCRBY", "DEL", "EXISTS", "TTL"}
           /\ r.keys \in Seq(Keys) /\ r.out \in Seq(BOOLEAN \cup Int)
           /\ r.line \in Command \cup {NoLine}
           /\ r.seen \in [live : SUBSET Keys, stored : SUBSET Keys,
                          gone : SUBSET Keys, wrote : SUBSET Keys]
BY KvServiceAssumption DEF Task

(* The request q is r after it has seen the entries es at time t and the writes wrote. *)
Watched(q, r, es, t, wrote) ==
    /\ q.op = r.op /\ q.keys = r.keys /\ q.out = r.out /\ q.line = r.line
    /\ q.seen.live = r.seen.live \cup {k \in Keys : Live(es[k], t)}
    /\ q.seen.stored = r.seen.stored \cup {k \in Keys : es[k] # NoEntry}
    /\ q.seen.gone = r.seen.gone \cup {k \in Keys : ~Live(es[k], t)}
    /\ q.seen.wrote = r.seen.wrote \cup wrote

(* Watch changes nothing but what the requests of several calls have seen. *)
LEMMA WatchFacts ==
    ASSUME NEW tasks \in [Workers -> Task \cup {Idle}], NEW es, NEW t,
           NEW wrote \in SUBSET Keys, NEW v \in Workers,
           NEW q, q = Watch(tasks, es, t, wrote)[v]
    PROVE  /\ tasks[v] = Idle => q = Idle
           /\ tasks[v] # Idle =>
                 /\ q \in Task /\ q # Idle
                 /\ q.op = tasks[v].op /\ q.keys = tasks[v].keys
                 /\ q.out = tasks[v].out /\ q.line = tasks[v].line
           /\ tasks[v] # Idle /\ tasks[v].op \in Several => Watched(q, tasks[v], es, t, wrote)
<1> DEFINE r == tasks[v]
           n == [Seen(es, t) EXCEPT !.wrote = wrote]
           m == Join(r.seen, n)
<1>1. q = IF r = Idle \/ r.op \notin Several THEN r ELSE [r EXCEPT !.seen = m]
  BY DEF Watch, Several
<1>2. CASE r = Idle \/ r.op \notin Several
  <2>1. q = r /\ r \in Task \cup {Idle}
    BY <1>1, <1>2
  <2> QED
    BY <1>2, <2>1
<1>3. CASE r # Idle /\ r.op \in Several
  <2>1. r \in Task /\ q = [r EXCEPT !.seen = m]
    BY <1>1, <1>3
  <2>2. r.seen \in [live : SUBSET Keys, stored : SUBSET Keys,
                    gone : SUBSET Keys, wrote : SUBSET Keys]
    BY <2>1, TaskFields
  <2>3. /\ n.live = {k \in Keys : Live(es[k], t)}
        /\ n.stored = {k \in Keys : es[k] # NoEntry}
        /\ n.gone = {k \in Keys : ~Live(es[k], t)}
        /\ n.wrote = wrote
    BY DEF Seen
  <2>4. DOMAIN r.seen = {"live", "stored", "gone", "wrote"}
    BY <2>2
  <2>5. m = [f \in {"live", "stored", "gone", "wrote"} |-> r.seen[f] \cup n[f]]
    BY <2>4 DEF Join
  <2> HIDE DEF n
  <2>6. /\ m.live = r.seen.live \cup n.live /\ m.stored = r.seen.stored \cup n.stored
        /\ m.gone = r.seen.gone \cup n.gone /\ m.wrote = r.seen.wrote \cup n.wrote
    BY <2>5
  <2>7. /\ r.seen.live \cup n.live \in SUBSET Keys /\ r.seen.stored \cup n.stored \in SUBSET Keys
        /\ r.seen.gone \cup n.gone \in SUBSET Keys /\ r.seen.wrote \cup n.wrote \in SUBSET Keys
    BY <2>2, <2>3
  <2>8. m \in [live : SUBSET Keys, stored : SUBSET Keys,
               gone : SUBSET Keys, wrote : SUBSET Keys]
    BY <2>5, <2>6, <2>7
  <2> HIDE DEF m
  <2>9. q \in Task /\ q.seen = m
    BY <2>1, <2>8 DEF Task
  <2>10. q.op = r.op /\ q.keys = r.keys /\ q.out = r.out /\ q.line = r.line
    BY <2>1 DEF Task
  <2>11. q # Idle
    BY <2>9, TaskFields
  <2>12. Watched(q, r, es, t, wrote)
    BY <2>3, <2>6, <2>9, <2>10 DEF Watched
  <2> QED
    BY <1>3, <2>9, <2>10, <2>11, <2>12
<1> QED
  BY <1>2, <1>3

(* Watch returns requests. *)
LEMMA WatchType ==
    ASSUME NEW tasks \in [Workers -> Task \cup {Idle}], NEW es, NEW t, NEW wrote \in SUBSET Keys
    PROVE  Watch(tasks, es, t, wrote) \in [Workers -> Task \cup {Idle}]
<1> DEFINE W == Watch(tasks, es, t, wrote)
<1>1. W = [v \in Workers |-> W[v]]
  BY DEF Watch
<1>2. \A v \in Workers : W[v] \in Task \cup {Idle}
  BY WatchFacts
<1> HIDE DEF W
<1> QED
  BY <1>1, <1>2 DEF W

(* A request with the same words has the same shape. *)
LEMMA SameShape ==
    ASSUME NEW r, NEW q, q.op = r.op, q.keys = r.keys, q.out = r.out, q.line = r.line, Shape(r)
    PROVE  Shape(q)
BY DEF Shape

(* What time, the lazy erasure and the sweep make of an entry nobody writes. *)
Ages(f, e, t, u) == t <= u /\ (f = e \/ (f = NoEntry /\ ~Live(e, t)))

(* Lookup is such a thing. *)
LEMMA LookupAges ==
    ASSUME NEW e, NEW t \in Nat
    PROVE  Ages(Lookup(e, t), e, t, t) /\ Ages(e, e, t, t)
BY DEF Ages, Lookup

(* The first answer of a TTL request still agrees with an entry that ages. *)
LEMMA AgreesAges ==
    ASSUME NEW e \in Entry \cup {NoEntry}, NEW f, NEW t \in Nat, NEW u \in Nat, NEW n \in Int,
           Ages(f, e, t, u), Agrees(n, e, t)
    PROVE  Agrees(n, f, u)
<1>0. NoEntry \notin Entry /\ (e \in Entry => e.expire_at \in Nat)
  BY NoEntryAssumption DEF Entry
<1>1. CASE n = -2 /\ ~Live(e, t)
  BY <1>0, <1>1 DEF Agrees, Ages, Live, IsExpired
<1>2. CASE n = -1 /\ e # NoEntry /\ e.expire_at = 0
  BY <1>0, <1>2 DEF Agrees, Ages, Live, IsExpired
<1>3. CASE n > 0 /\ (Live(e, t) => e.expire_at > t /\ e.expire_at - t <= n * MsPerSecond)
  <2> DEFINE m == n * MsPerSecond
  <2>1. m \in Int
    BY KvServiceAssumption
  <2>2. Live(f, u) => f = e /\ Live(e, t) /\ Live(e, u) /\ e \in Entry
    BY <1>0 DEF Ages, Live, IsExpired
  <2>3. Live(f, u) => f.expire_at > t /\ f.expire_at - t <= m /\ f.expire_at \in Nat
    BY <1>0, <1>3, <2>2
  <2> HIDE DEF m
  <2>4. Live(f, u) => f.expire_at > u /\ f.expire_at - u <= m
    BY <2>1, <2>2, <2>3 DEF Ages, Live, IsExpired
  <2> QED
    BY <1>3, <2>4 DEF Agrees, m
<1> QED
  BY <1>1, <1>2, <1>3 DEF Agrees

(* The answers so far keep fitting while the entries age and others write. *)
LEMMA FitsKept ==
    ASSUME NEW r \in Task, r.op \in Several, Shape(r),
           NEW es \in [Keys -> Entry \cup {NoEntry}], NEW t \in Nat, Fits(r, es, t),
           NEW fs \in [Keys -> Entry \cup {NoEntry}], NEW u \in Nat, NEW wrote \in SUBSET Keys,
           \A k \in Keys \ wrote : Ages(fs[k], es[k], t, u),
           NEW q, Watched(q, r, fs, u, wrote)
    PROVE  Fits(q, fs, u)
<1> USE DEF Watched
<1>0. r.keys \in Seq(Keys) /\ r.out \in Seq(BOOLEAN \cup Int) /\ r.keys # <<>>
  BY TaskFields DEF Shape
<1>1. Noted(q.seen, fs, u)
  BY DEF Noted
<1>2. ASSUME q.op = "EXISTS", NEW i \in 1 .. Len(q.out)
      PROVE  IF q.out[i] THEN q.keys[i] \in q.seen.live ELSE q.keys[i] \in q.seen.gone
  <2>1. IF r.out[i] THEN r.keys[i] \in r.seen.live ELSE r.keys[i] \in r.seen.gone
    BY <1>2 DEF Fits
  <2> QED
    BY <2>1
<1>3. ASSUME q.op = "DEL", NEW i \in 1 .. Len(q.out)
      PROVE  (q.out[i] => q.keys[i] \in q.seen.stored) /\ q.keys[i] \in q.seen.gone
  <2>1. (r.out[i] => r.keys[i] \in r.seen.stored) /\ r.keys[i] \in r.seen.gone
    BY <1>3 DEF Fits
  <2> QED
    BY <2>1
<1>4. ASSUME q.op = "TTL", q.keys[1] \notin q.seen.wrote
      PROVE  /\ Len(q.out) = 1 => Agrees(q.out[1], fs[q.keys[1]], u)
             /\ Len(q.out) = 2 =>
                   \/ q.out[1] < 0 /\ q.out[2] = q.out[1]
                   \/ /\ q.out[1] > 0
                      /\ q.out[2] = -2 \/ q.out[2] \in 1 .. q.out[1] * MsPerSecond
  <2> DEFINE k == r.keys[1]
  <2>1. k \in Keys \ wrote /\ k \notin r.seen.wrote
    BY <1>0, <1>4
  <2>2. /\ Len(r.out) = 1 => Agrees(r.out[1], es[k], t)
        /\ Len(r.out) = 2 =>
              \/ r.out[1] < 0 /\ r.out[2] = r.out[1]
              \/ /\ r.out[1] > 0
                 /\ r.out[2] = -2 \/ r.out[2] \in 1 .. r.out[1] * MsPerSecond
    BY <1>4, <2>1 DEF Fits
  <2>3. ASSUME Len(r.out) = 1 PROVE Agrees(r.out[1], fs[k], u)
    <3>1. r.out[1] \in Int
      BY <1>4, <2>3 DEF Shape
    <3>2. Ages(fs[k], es[k], t, u) /\ es[k] \in Entry \cup {NoEntry}
      BY <2>1
    <3> HIDE DEF k
    <3> QED
      BY <2>2, <2>3, <3>1, <3>2, AgreesAges
  <2> QED
    BY <2>2, <2>3
<1> QED
  BY <1>1, <1>2, <1>3, <1>4 DEF Fits

(* A step of somebody else leaves a request in shape and its answers fitting. *)
LEMMA WatchKeeps ==
    ASSUME StateOK, TasksFit, NEW tasks \in [Workers -> Task \cup {Idle}],
           NEW fs \in [Keys -> Entry \cup {NoEntry}], NEW u \in Nat, NEW wrote \in SUBSET Keys,
           \A k \in Keys \ wrote : Ages(fs[k], entries[k], now, u),
           NEW v \in Workers, tasks[v] = task[v], NEW q, q = Watch(tasks, fs, u, wrote)[v]
    PROVE  /\ q # Idle <=> task[v] # Idle
           /\ q # Idle => up /\ Shape(q) /\ q.line = task[v].line
           /\ q # Idle /\ q.op \in Several => Fits(q, fs, u)
<1> DEFINE r == task[v]
<1>1. /\ r = Idle => q = Idle
      /\ r # Idle => /\ q \in Task /\ q # Idle
                     /\ q.op = r.op /\ q.keys = r.keys /\ q.out = r.out /\ q.line = r.line
      /\ r # Idle /\ r.op \in Several => Watched(q, r, fs, u, wrote)
  BY WatchFacts
<1>2. /\ entries \in [Keys -> Entry \cup {NoEntry}] /\ now \in Nat
      /\ r # Idle => r \in Task /\ up /\ Shape(r)
  BY KvServiceAssumption DEF StateOK
<1>3. r # Idle /\ r.op \in Several => Fits(r, entries, now)
  BY DEF TasksFit
<1> HIDE DEF r
<1>4. CASE r = Idle
  BY <1>1, <1>4 DEF r
<1>5. CASE r # Idle
  <2>1. Shape(q)
    BY <1>1, <1>2, <1>5, SameShape
  <2>2. ASSUME r.op \in Several PROVE Fits(q, fs, u)
    <3>1. Watched(q, r, fs, u, wrote)
      BY <1>1, <1>5, <2>2
    <3>2. r \in Task /\ Shape(r) /\ Fits(r, entries, now)
      BY <1>2, <1>3, <1>5, <2>2
    <3>3. entries \in [Keys -> Entry \cup {NoEntry}] /\ now \in Nat
      BY <1>2
    <3> QED
      BY <2>2, <3>1, <3>2, <3>3, FitsKept
  <2> QED
    BY <1>1, <1>2, <1>5, <2>1, <2>2 DEF r
<1> QED
  BY <1>4, <1>5

(* What a command leaves is live; one that does not succeed only lets its key age. *)
LEMMA WriteAges ==
    ASSUME StateOK, NEW c \in Command
    PROVE  /\ c.key \in Keys
           /\ Fresh(Perform(entries[c.key], now, c), now)
           /\ ~Succeeds(entries[c.key], now, c) =>
                 Ages(Perform(entries[c.key], now, c), entries[c.key], now, now)
<1> DEFINE e == entries[c.key]
<1>1. /\ entries \in [Keys -> Entry \cup {NoEntry}] /\ now \in 0 .. MaxClock /\ now \in Nat
      /\ c.key \in Keys /\ e \in Entry \cup {NoEntry}
  BY CommandCases, KvServiceAssumption DEF StateOK
<1>2. Fresh(Perform(e, now, c), now)
  BY <1>1, PerformFresh
<1>3. ~Succeeds(e, now, c) => Ages(Perform(e, now, c), e, now, now)
  BY <1>1, PerformFails, LookupAges
<1> QED
  BY <1>1, <1>2, <1>3

-----------------------------------------------------------------------------
(* What a step does to the keys and their lines *)

(* A step after which the lines of a key are the same and its entry is, too. *)
LEMMA KeyQuiet ==
    ASSUME StateOK, NEW k \in Keys, KeyOK(k), up, now' = now, file' = file,
           k \in unsure => k \in unsure', Ages(entries'[k], entries[k], now, now),
           \A v \in Workers : Waits(v, k)' <=> Waits(v, k),
           \A v \in Workers : Waits(v, k) => task'[v].line = task[v].line
    PROVE  KeyOK(k)'
<1> SUFFICES ASSUME k \notin unsure', k \notin EmptyKeys
             PROVE  /\ \A v, w \in Workers : Waits(v, k)' /\ Waits(w, k)' => v = w
                    /\ entries'[k] # NoEntry => Live(entries'[k], now')
                    /\ (\A w \in Workers : ~Waits(w, k)') =>
                          \A t \in now' .. MaxClock : Follows(Replay(file', t)[k], entries'[k])
                    /\ \A w \in Workers : Waits(w, k)' =>
                          \A t \in now' .. MaxClock :
                              Follows(Perform(Replay(file', t)[k], t, task'[w].line), entries'[k])
  BY DEF KeyOK
<1>1. /\ \A v, w \in Workers : Waits(v, k) /\ Waits(w, k) => v = w
      /\ entries[k] # NoEntry => Live(entries[k], now)
      /\ (\A w \in Workers : ~Waits(w, k)) =>
            \A t \in now .. MaxClock : Follows(Replay(file, t)[k], entries[k])
      /\ \A w \in Workers : Waits(w, k) =>
            \A t \in now .. MaxClock :
                Follows(Perform(Replay(file, t)[k], t, task[w].line), entries[k])
  BY DEF KeyOK
<1>2. entries'[k] = entries[k]
  BY <1>1 DEF Ages
<1> QED
  BY <1>1, <1>2

(* A worker changes a key and has its line to append. *)
LEMMA KeyWritten ==
    ASSUME StateOK, NEW c \in Command, KeyOK(c.key), up, now' = now, file' = file,
           NEW w \in Workers, ~Waits(w, c.key),
           entries'[c.key] = Perform(entries[c.key], now, c), Doubt(w, c, TRUE),
           Waits(w, c.key)', task'[w].line = Line(c),
           \A v \in Workers \ {w} : Waits(v, c.key)' <=> Waits(v, c.key)
    PROVE  KeyOK(c.key)'
<1> DEFINE k == c.key
           e == entries[k]
<1>0. /\ k \in Keys /\ e \in Entry \cup {NoEntry} /\ now \in 0 .. MaxClock
      /\ file \in Seq(Command) /\ MaxClock \in Nat
  BY CommandCases, KvServiceAssumption DEF StateOK
<1> SUFFICES ASSUME k \notin unsure', k \notin EmptyKeys
             PROVE  /\ \A v, x \in Workers : Waits(v, k)' /\ Waits(x, k)' => v = x
                    /\ entries'[k] # NoEntry => Live(entries'[k], now)
                    /\ \A t \in now .. MaxClock :
                          Follows(Perform(Replay(file, t)[k], t, Line(c)), Perform(e, now, c))
  BY DEF KeyOK
<1>1. \A v \in Workers \ {w} : ~Waits(v, k)
  <2>1. ~Races(w, k)
    BY DEF Doubt
  <2> QED
    BY <2>1 DEF Races, Waits, Busy
<1>2. \A v, x \in Workers : Waits(v, k)' /\ Waits(x, k)' => v = x
  BY <1>1
<1>3. Fresh(Perform(e, now, c), now)
  BY <1>0, PerformFresh
<1>4. ASSUME NEW t \in now .. MaxClock
      PROVE  Follows(Perform(Replay(file, t)[k], t, Line(c)), Perform(e, now, c))
  <2>1. t \in 0 .. MaxClock /\ now <= t
    BY <1>0
  <2>2. Replay(file, t) \in [Keys -> Entry \cup {NoEntry}] /\ Fresh(Replay(file, t)[k], t)
    BY <1>0, <2>1, ReplayFresh
  <2> DEFINE d == Replay(file, t)[k]
  <2>3. d \in Entry \cup {NoEntry} /\ Fresh(d, t)
    BY <1>0, <2>2
  <2>4. CASE Outright(c)
    <3> HIDE DEF d, e
    <3>1. Follows(Perform(d, t, Line(c)), Perform(e, now, c))
      BY <1>0, <2>1, <2>3, <2>4, OutrightFollows
    <3> QED
      BY <3>1 DEF d
  <2>5. CASE ~Outright(c)
    <3>1. k \notin unsure
      BY <2>5 DEF Doubt
    <3>2. Follows(d, e) /\ (e # NoEntry => Live(e, now))
      BY <1>1, <3>1 DEF KeyOK
    <3>3. Fresh(e, now)
      BY <1>0, <3>2 DEF Fresh
    <3> HIDE DEF d, e
    <3>4. Follows(Perform(d, t, Line(c)), Perform(e, now, c))
      BY <1>0, <2>1, <2>3, <3>2, <3>3, LineFollows
    <3> QED
      BY <3>4 DEF d
  <2> QED
    BY <2>4, <2>5
<1> QED
  BY <1>2, <1>3, <1>4 DEF Fresh

-----------------------------------------------------------------------------
(* The actions *)

(* The lines the workers other than w hold are the same after the step. *)
OthersHold(w) ==
    \A v \in Workers \ {w}, k \in Keys :
        (Waits(v, k)' <=> Waits(v, k)) /\ (Waits(v, k) => task'[v].line = task[v].line)

(* A call of the store by w: what it needs of w is left, the others are as they were. *)
LEMMA CallKeeps ==
    ASSUME StateOK, TasksFit, up, up' = up, now' = now, file' = file, unsure' \subseteq Keys,
           entries' \in [Keys -> Entry \cup {NoEntry}], NEW wrote \in SUBSET Keys,
           \A k \in Keys \ wrote : Ages(entries'[k], entries[k], now, now),
           NEW w \in Workers, NEW tasks \in [Workers -> Task \cup {Idle}],
           \A v \in Workers \ {w} : tasks[v] = task[v],
           task' = Watch(tasks, entries', now, wrote),
           tasks[w] # Idle => Shape(tasks[w]),
           tasks[w] # Idle /\ tasks[w].op \in Several => Fits(task'[w], entries', now)
    PROVE  /\ StateOK' /\ TasksFit'
           /\ OthersHold(w)
           /\ task'[w] # Idle <=> tasks[w] # Idle
           /\ tasks[w] # Idle => task'[w].line = tasks[w].line
<1>0. now \in Nat /\ now \in 0 .. MaxClock /\ file \in Seq(Command)
  BY KvServiceAssumption DEF StateOK
<1>1. ASSUME NEW v \in Workers \ {w}
      PROVE  /\ task'[v] # Idle <=> task[v] # Idle
             /\ task'[v] # Idle => up /\ Shape(task'[v]) /\ task'[v].line = task[v].line
             /\ task'[v] # Idle /\ task'[v].op \in Several => Fits(task'[v], entries', now)
  <2>1. tasks[v] = task[v] /\ v \in Workers
    BY <1>1
  <2> DEFINE q == task'[v]
  <2>2. q = Watch(tasks, entries', now, wrote)[v]
    OBVIOUS
  <2> HIDE DEF q
  <2>3. /\ q # Idle <=> task[v] # Idle
        /\ q # Idle => up /\ Shape(q) /\ q.line = task[v].line
        /\ q # Idle /\ q.op \in Several => Fits(q, entries', now)
    BY <1>0, <2>1, <2>2, WatchKeeps
  <2> QED
    BY <2>3 DEF q
<1>2. /\ task'[w] # Idle <=> tasks[w] # Idle
      /\ task'[w] # Idle => /\ Shape(task'[w]) /\ task'[w].line = tasks[w].line
                            /\ task'[w].op = tasks[w].op
  <2> DEFINE q == task'[w]
  <2>1. q = Watch(tasks, entries', now, wrote)[w]
    OBVIOUS
  <2> HIDE DEF q
  <2>2. /\ tasks[w] = Idle => q = Idle
        /\ tasks[w] # Idle => /\ q # Idle /\ q.op = tasks[w].op /\ q.keys = tasks[w].keys
                              /\ q.out = tasks[w].out /\ q.line = tasks[w].line
    BY <2>1, WatchFacts
  <2>3. tasks[w] # Idle => Shape(q)
    BY <2>2, SameShape
  <2> QED
    BY <2>2, <2>3 DEF q
<1>3. StateOK'
  <2>1. task' \in [Workers -> Task \cup {Idle}]
    BY WatchType
  <2>2. up' \in BOOLEAN
    BY DEF StateOK
  <2>3. \A v \in Workers : task'[v] # Idle => up' /\ Shape(task'[v])
    BY <1>1, <1>2
  <2> QED
    BY <1>0, <2>1, <2>2, <2>3 DEF StateOK
<1>4. TasksFit'
  BY <1>1, <1>2 DEF TasksFit
<1>5. OthersHold(w)
  BY <1>1 DEF Waits, OthersHold
<1> QED
  BY <1>2, <1>3, <1>4, <1>5

(* A new request. *)
LEMMA NewTaskIs ==
    ASSUME NEW op \in {"SET", "QUOTA_INIT", "PEXPIRE", "INCRBY", "DEL", "EXISTS", "TTL"},
           NEW keys \in Seq(Keys)
    PROVE  /\ NewTask(op, keys) \in Task
           /\ NewTask(op, keys).op = op /\ NewTask(op, keys).keys = keys
           /\ NewTask(op, keys).out = <<>> /\ NewTask(op, keys).line = NoLine
BY DEF NewTask, NothingSeen, Task

(* SET, QUOTA_INIT, PEXPIRE and INCRBY. *)
LEMMA WriteKeeps ==
    ASSUME SInv, NEW w \in Workers, NEW c \in Command, c.op # "DEL", Write(w, c)
    PROVE  SInv'
<1> DEFINE ok == Succeeds(entries[c.key], now, c)
           mine == IF ok THEN [NewTask(c.op, <<c.key>>) EXCEPT !.line = Line(c)] ELSE Idle
           tasks == [task EXCEPT ![w] = mine]
           wrote == IF ok THEN {c.key} ELSE {}
<1>1. /\ up /\ task[w] = Idle /\ now' = now /\ file' = file /\ up' = up
      /\ entries' = [entries EXCEPT ![c.key] = Perform(@, now, c)]
      /\ task' = Watch(tasks, entries', now, wrote)
      /\ Doubt(w, c, ok)
  BY DEF Write, Accept, Busy
<1>2. /\ StateOK /\ TasksFit /\ \A k \in Keys : KeyOK(k)
      /\ task \in [Workers -> Task \cup {Idle}] /\ unsure \subseteq Keys
  BY DEF SInv, StateOK
<1>3. /\ entries' \in [Keys -> Entry \cup {NoEntry}] /\ wrote \in SUBSET Keys
      /\ c.key \in Keys /\ Fresh(entries'[c.key], now)
      /\ \A k \in Keys : k # c.key => entries'[k] = entries[k]
      /\ \A k \in Keys \ wrote : Ages(entries'[k], entries[k], now, now)
  <2> DEFINE e == entries[c.key]
             p == Perform(e, now, c)
  <2>1. /\ c.key \in Keys /\ Fresh(p, now) /\ (~ok => Ages(p, e, now, now))
        /\ entries \in [Keys -> Entry \cup {NoEntry}] /\ now \in Nat
    BY <1>2, WriteAges, KvServiceAssumption DEF StateOK
  <2>2. p \in Entry \cup {NoEntry}
    BY <2>1 DEF Fresh
  <2>3. entries' = [entries EXCEPT ![c.key] = p] /\ wrote \in SUBSET Keys
    BY <1>1, <2>1
  <2>4. \A k \in Keys : k \notin wrote => k # c.key \/ ~ok
    OBVIOUS
  <2> HIDE DEF p, ok, wrote
  <2>5. /\ entries' \in [Keys -> Entry \cup {NoEntry}] /\ entries'[c.key] = p
        /\ \A k \in Keys : k # c.key => entries'[k] = entries[k]
    BY <2>1, <2>2, <2>3
  <2>6. ASSUME NEW k \in Keys \ wrote PROVE Ages(entries'[k], entries[k], now, now)
    <3>1. CASE k = c.key
      BY <2>1, <2>4, <2>5, <3>1
    <3>2. CASE k # c.key
      BY <2>1, <2>5, <3>2, LookupAges
    <3> QED
      BY <3>1, <3>2
  <2> QED
    BY <2>1, <2>3, <2>5, <2>6
<1>4. ok => /\ mine \in Task /\ mine.op \notin Several /\ mine.line = Line(c)
            /\ mine # Idle /\ Shape(mine)
  <2> SUFFICES ASSUME ok PROVE /\ mine \in Task /\ mine.op \notin Several /\ mine.line = Line(c)
                               /\ mine # Idle /\ Shape(mine)
    OBVIOUS
  <2> DEFINE n == NewTask(c.op, <<c.key>>)
  <2>1. /\ c.op \in {"SET", "QUOTA_INIT", "PEXPIRE", "INCRBY"}
        /\ Line(c) \in Command /\ Line(c).key = c.key
    BY CommandCases, LineIs
  <2>2. <<c.key>> \in Seq(Keys) /\ Len(<<c.key>>) = 1 /\ <<c.key>>[1] = c.key /\ <<c.key>> # <<>>
    BY <1>3
  <2>3. n \in Task /\ n.op = c.op /\ n.keys = <<c.key>> /\ n.out = <<>>
    <3> DEFINE ks == <<c.key>>
               o == c.op
    <3>1. /\ o \in {"SET", "QUOTA_INIT", "PEXPIRE", "INCRBY", "DEL", "EXISTS", "TTL"}
          /\ ks \in Seq(Keys) /\ n = NewTask(o, ks)
      BY <2>1, <2>2
    <3> HIDE DEF ks, n, o
    <3>2. n \in Task /\ n.op = o /\ n.keys = ks /\ n.out = <<>>
      BY <3>1, NewTaskIs
    <3> QED
      BY <3>2 DEF ks, o
  <2>4. mine = [n EXCEPT !.line = Line(c)]
    OBVIOUS
  <2> HIDE DEF n, mine
  <2>5. /\ mine \in Task /\ mine.op = c.op /\ mine.keys = <<c.key>> /\ mine.out = <<>>
        /\ mine.line = Line(c)
    BY <2>1, <2>3, <2>4 DEF Task
  <2>6. mine.op \notin Several /\ mine.line # NoLine
    BY <2>1, <2>5, KvServiceAssumption DEF Several
  <2>7. Shape(mine)
    BY <2>1, <2>2, <2>5, <2>6 DEF Shape, Several
  <2> QED
    BY <2>5, <2>6, <2>7, TaskFields
<1>5. /\ tasks \in [Workers -> Task \cup {Idle}] /\ tasks[w] = mine
      /\ \A v \in Workers \ {w} : tasks[v] = task[v]
  <2>1. mine \in Task \cup {Idle}
    BY <1>4
  <2> HIDE DEF mine
  <2> QED
    BY <1>2, <2>1
<1>6. ~ok => mine = Idle
  OBVIOUS
<1>7. unsure' \subseteq Keys
  BY <1>1, <1>2, <1>3 DEF Doubt
<1>8. /\ StateOK' /\ TasksFit'
      /\ OthersHold(w)
      /\ task'[w] # Idle <=> tasks[w] # Idle
      /\ tasks[w] # Idle => task'[w].line = tasks[w].line
  <2>1. /\ tasks[w] # Idle => Shape(tasks[w])
        /\ tasks[w] # Idle /\ tasks[w].op \in Several => Fits(task'[w], entries', now)
    BY <1>4, <1>5, <1>6
  <2> HIDE DEF ok, mine, tasks, wrote
  <2> QED
    BY <1>1, <1>2, <1>3, <1>5, <1>7, <2>1, CallKeeps
<1>9. /\ ~ok => \A k \in Keys : ~Waits(w, k)'
      /\ ok => \A k \in Keys : Waits(w, k)' <=> k = c.key
      /\ ok => task'[w].line = Line(c)
      /\ \A k \in Keys : ~Waits(w, k)
  <2>1. Line(c) \in Command /\ Line(c).key = c.key /\ Line(c) # NoLine
    BY LineIs, KvServiceAssumption
  <2> HIDE DEF ok, mine, tasks
  <2>2. ~ok => task'[w] = Idle
    BY <1>5, <1>6, <1>8
  <2>3. ok => task'[w] # Idle /\ task'[w].line = Line(c)
    BY <1>4, <1>5, <1>8
  <2>4. ~ok => \A k \in Keys : ~Waits(w, k)'
    BY <2>2 DEF Waits
  <2>5. ok => \A k \in Keys : Waits(w, k)' <=> k = c.key
    BY <2>1, <2>3 DEF Waits
  <2>6. \A k \in Keys : ~Waits(w, k)
    BY <1>1 DEF Waits
  <2> QED
    BY <2>3, <2>4, <2>5, <2>6
<1>10. ASSUME NEW k \in Keys PROVE KeyOK(k)'
  <2>1. CASE ok /\ k = c.key
    <3>1. entries'[c.key] = Perform(entries[c.key], now, c)
      BY <1>1, <1>2, <1>3 DEF StateOK
    <3>2. Doubt(w, c, TRUE)
      BY <1>1, <2>1 DEF Doubt
    <3>3. Waits(w, c.key)' /\ task'[w].line = Line(c) /\ ~Waits(w, c.key)
      BY <1>3, <1>9, <2>1
    <3>4. \A v \in Workers \ {w} : Waits(v, c.key)' <=> Waits(v, c.key)
      BY <1>3, <1>8 DEF OthersHold
    <3>5. KeyOK(c.key) /\ StateOK /\ up /\ now' = now /\ file' = file
      BY <1>1, <1>2, <1>3
    <3>6. KeyOK(c.key)'
      BY <3>1, <3>2, <3>3, <3>4, <3>5, KeyWritten
    <3> QED
      BY <2>1, <3>6 DEF KeyOK, Waits
  <2>2. CASE ~ok \/ k # c.key
    <3>1. k \in unsure => k \in unsure'
      BY <1>1, <2>2 DEF Doubt
    <3>2. Ages(entries'[k], entries[k], now, now)
      BY <1>3, <2>2
    <3>3. \A v \in Workers : Waits(v, k)' <=> Waits(v, k)
      BY <1>8, <1>9, <2>2 DEF OthersHold
    <3>4. \A v \in Workers : Waits(v, k) => task'[v].line = task[v].line
      BY <1>8, <1>9 DEF OthersHold
    <3> HIDE DEF ok
    <3> QED
      BY <1>1, <1>2, <3>1, <3>2, <3>3, <3>4, KeyQuiet
  <2> QED
    BY <2>1, <2>2
<1> QED
  BY <1>8, <1>10 DEF SInv

(* Time passes, or entries are erased that have expired. *)
LEMMA AgingKeeps ==
    ASSUME StateOK, TasksFit, up' = up, file' = file, unsure' \subseteq Keys, now' \in 0 .. MaxClock,
           entries' \in [Keys -> Entry \cup {NoEntry}],
           \A k \in Keys : Ages(entries'[k], entries[k], now, now'),
           task' = Watch(task, entries', now', {})
    PROVE  /\ StateOK' /\ TasksFit'
           /\ \A v \in Workers, k \in Keys :
                 (Waits(v, k)' <=> Waits(v, k)) /\ (Waits(v, k) => task'[v].line = task[v].line)
<1>0. /\ now' \in Nat /\ file \in Seq(Command) /\ task \in [Workers -> Task \cup {Idle}]
      /\ {} \in SUBSET Keys
  BY KvServiceAssumption DEF StateOK
<1>1. ASSUME NEW v \in Workers
      PROVE  /\ task'[v] # Idle <=> task[v] # Idle
             /\ task'[v] # Idle => up /\ Shape(task'[v]) /\ task'[v].line = task[v].line
             /\ task'[v] # Idle /\ task'[v].op \in Several => Fits(task'[v], entries', now')
  <2> DEFINE q == task'[v]
             u == now'
             fs == entries'
  <2>1. /\ q = Watch(task, fs, u, {})[v] /\ u \in Nat /\ fs \in [Keys -> Entry \cup {NoEntry}]
        /\ \A k \in Keys \ {} : Ages(fs[k], entries[k], now, u)
    BY <1>0
  <2> HIDE DEF q, u, fs
  <2>2. /\ q # Idle <=> task[v] # Idle
        /\ q # Idle => up /\ Shape(q) /\ q.line = task[v].line
        /\ q # Idle /\ q.op \in Several => Fits(q, fs, u)
    BY <1>0, <2>1, WatchKeeps
  <2> QED
    BY <2>2 DEF q, u, fs
<1>2. StateOK'
  <2>1. task' \in [Workers -> Task \cup {Idle}]
    BY <1>0, WatchType
  <2>2. up' \in BOOLEAN
    BY DEF StateOK
  <2>3. \A v \in Workers : task'[v] # Idle => up' /\ Shape(task'[v])
    BY <1>1
  <2> QED
    BY <1>0, <2>1, <2>2, <2>3 DEF StateOK
<1>3. TasksFit'
  BY <1>1 DEF TasksFit
<1> QED
  BY <1>1, <1>2, <1>3 DEF Waits

(* GET, TYPE and the sweep erase at most what has expired. *)
LEMMA ErasureKeeps ==
    ASSUME SInv, up, NEW k \in Keys, NEW e \in Entry \cup {NoEntry}, Ages(e, entries[k], now, now),
           entries' = [entries EXCEPT ![k] = e], task' = Watch(task, entries', now, {}),
           up' = up, file' = file, unsure' = unsure, now' = now
    PROVE  SInv'
<1>1. /\ StateOK /\ TasksFit /\ \A j \in Keys : KeyOK(j)
      /\ entries \in [Keys -> Entry \cup {NoEntry}] /\ now \in 0 .. MaxClock /\ now \in Nat
      /\ unsure' \subseteq Keys
  BY KvServiceAssumption DEF SInv, StateOK
<1>2. entries' \in [Keys -> Entry \cup {NoEntry}]
  BY <1>1
<1>3. \A j \in Keys : Ages(entries'[j], entries[j], now, now)
  BY <1>1, LookupAges
<1>4. /\ StateOK' /\ TasksFit'
      /\ \A v \in Workers, j \in Keys :
            (Waits(v, j)' <=> Waits(v, j)) /\ (Waits(v, j) => task'[v].line = task[v].line)
  BY <1>1, <1>2, <1>3, AgingKeeps
<1>5. ASSUME NEW j \in Keys PROVE KeyOK(j)'
  <2>1. /\ \A v \in Workers : Waits(v, j)' <=> Waits(v, j)
        /\ \A v \in Workers : Waits(v, j) => task'[v].line = task[v].line
    BY <1>4
  <2>2. Ages(entries'[j], entries[j], now, now) /\ (j \in unsure => j \in unsure') /\ KeyOK(j)
    BY <1>1, <1>3
  <2> QED
    BY <1>1, <2>1, <2>2, KeyQuiet
<1> QED
  BY <1>4, <1>5 DEF SInv

(* GET and TYPE. *)
LEMMA ReadKeeps ==
    ASSUME SInv, NEW w \in Workers, NEW k \in Keys, Read(w, k)
    PROVE  SInv'
<1> DEFINE e == Lookup(entries[k], now)
<1>1. /\ up /\ entries' = [entries EXCEPT ![k] = e] /\ task' = Watch(task, entries', now, {})
      /\ up' = up /\ file' = file /\ unsure' = unsure /\ now' = now
  BY DEF Read, Accept
<1>2. entries[k] \in Entry \cup {NoEntry} /\ now \in Nat
  BY KvServiceAssumption DEF SInv, StateOK
<1>3. e \in Entry \cup {NoEntry} /\ Ages(e, entries[k], now, now)
  BY <1>2, LookupFresh, LookupAges DEF Fresh
<1> HIDE DEF e
<1> QED
  BY <1>1, <1>3, ErasureKeeps

(* PurgeExpired erases a key. *)
LEMMA SweepKeeps ==
    ASSUME SInv, NEW k \in Keys, Sweep(k)
    PROVE  SInv'
<1>1. /\ up /\ entries' = [entries EXCEPT ![k] = NoEntry] /\ task' = Watch(task, entries', now, {})
      /\ up' = up /\ file' = file /\ unsure' = unsure /\ now' = now
  BY DEF Sweep
<1>2. Ages(NoEntry, entries[k], now, now)
  <2>1. now \in Nat
    BY KvServiceAssumption DEF SInv, StateOK
  <2> QED
    BY <2>1 DEF Sweep, Ages, Live
<1> QED
  BY <1>1, <1>2, ErasureKeeps

(* A request of several calls begins. *)
LEMMA BeginKeeps ==
    ASSUME SInv, NEW w \in Workers, NEW op \in Several, NEW keys \in Seq(Keys), keys # <<>>,
           op = "TTL" => Len(keys) = 2 /\ keys[2] = keys[1], Begin(w, op, keys)
    PROVE  SInv'
<1> DEFINE n == NewTask(op, keys)
           tasks == [task EXCEPT ![w] = n]
<1>1. /\ up /\ task[w] = Idle /\ now' = now /\ file' = file /\ up' = up
      /\ entries' = entries /\ unsure' = unsure
      /\ task' = Watch(tasks, entries', now, {})
  BY DEF Begin, Accept, Busy
<1>2. /\ StateOK /\ TasksFit /\ \A k \in Keys : KeyOK(k)
      /\ task \in [Workers -> Task \cup {Idle}] /\ unsure' \subseteq Keys
      /\ entries \in [Keys -> Entry \cup {NoEntry}] /\ entries' \in [Keys -> Entry \cup {NoEntry}]
      /\ now \in Nat
  BY <1>1, KvServiceAssumption DEF SInv, StateOK
<1>3. n \in Task /\ n.op = op /\ n.keys = keys /\ n.out = <<>> /\ n.line = NoLine
  <2>1. op \in {"SET", "QUOTA_INIT", "PEXPIRE", "INCRBY", "DEL", "EXISTS", "TTL"}
    BY DEF Several
  <2> QED
    BY <2>1, NewTaskIs
<1> HIDE DEF n
<1>4. n # Idle /\ Shape(n)
  <2>1. <<>> \in Seq(BOOLEAN) /\ <<>> \in Seq(Int) /\ Len(<<>>) = 0 /\ Len(keys) \in Nat
    OBVIOUS
  <2> QED
    BY <1>3, <2>1, TaskFields DEF Shape
<1>5. /\ tasks \in [Workers -> Task \cup {Idle}] /\ tasks[w] = n
      /\ \A v \in Workers \ {w} : tasks[v] = task[v]
  BY <1>2, <1>3
<1> HIDE DEF tasks
<1>6. \A k \in Keys : Ages(entries'[k], entries[k], now, now)
  BY <1>1, <1>2, LookupAges
<1>7. Fits(task'[w], entries', now)
  <2> DEFINE q == task'[w]
             fs == entries'
  <2>1. q = Watch(tasks, fs, now, {})[w] /\ {} \in SUBSET Keys
    BY <1>1
  <2> HIDE DEF q, fs
  <2>2. Watched(q, n, fs, now, {})
    BY <1>3, <1>4, <1>5, <2>1, WatchFacts
  <2>3. q.out = <<>> /\ Noted(q.seen, fs, now)
    BY <1>3, <2>2 DEF Watched, Noted
  <2>4. 1 .. Len(q.out) = {} /\ Len(q.out) = 0
    BY <2>3
  <2> QED
    BY <2>3, <2>4 DEF Fits, q, fs
<1>8. /\ StateOK' /\ TasksFit' /\ OthersHold(w)
      /\ task'[w] # Idle /\ task'[w].line = NoLine
  <2>1. {} \in SUBSET Keys /\ \A k \in Keys \ {} : Ages(entries'[k], entries[k], now, now)
    BY <1>6
  <2> QED
    BY <1>1, <1>2, <1>3, <1>4, <1>5, <1>7, <2>1, CallKeeps
<1>9. ASSUME NEW k \in Keys PROVE KeyOK(k)'
  <2>1. ~Waits(w, k) /\ ~Waits(w, k)'
    BY <1>1, <1>8 DEF Waits
  <2>2. /\ \A v \in Workers : Waits(v, k)' <=> Waits(v, k)
        /\ \A v \in Workers : Waits(v, k) => task'[v].line = task[v].line
    BY <1>8, <2>1 DEF OthersHold
  <2>3. Ages(entries'[k], entries[k], now, now) /\ (k \in unsure => k \in unsure') /\ KeyOK(k)
    BY <1>1, <1>2, <1>6
  <2> QED
    BY <1>1, <1>2, <2>2, <2>3, KeyQuiet
<1> QED
  BY <1>8, <1>9 DEF SInv

(* The request n is r with one more answer and the line of that call. *)
Answers(n, r, a, line) ==
    /\ n \in Task
    /\ n.op = r.op /\ n.keys = r.keys /\ n.out = Append(r.out, a) /\ n.line = line /\ n.seen = r.seen

(* A call answers one worker and shows the others what it did. *)
LEMMA CalledFacts ==
    ASSUME StateOK, NEW w \in Workers, task[w] # Idle, NEW after, NEW a \in BOOLEAN \cup Int,
           NEW line \in Command \cup {NoLine}, NEW wrote, Called(w, after, a, line, wrote)
    PROVE  \E tasks \in [Workers -> Task \cup {Idle}] :
               /\ task' = Watch(tasks, after, now, wrote)
               /\ \A v \in Workers \ {w} : tasks[v] = task[v]
               /\ Answers(tasks[w], task[w], a, line)
<1> DEFINE tasks == [task EXCEPT ![w].out = Append(@, a), ![w].line = line]
           r == task[w]
           n == [[r EXCEPT !.out = Append(@, a)] EXCEPT !.line = line]
<1>1. task \in [Workers -> Task \cup {Idle}] /\ r \in Task
  BY DEF StateOK
<1>2. tasks = [task EXCEPT ![w] = n]
  BY <1>1 DEF Task
<1>3. Append(r.out, a) \in Seq(BOOLEAN \cup Int)
  BY <1>1, TaskFields
<1>4. /\ n \in Task /\ n.op = r.op /\ n.keys = r.keys /\ n.out = Append(r.out, a)
      /\ n.line = line /\ n.seen = r.seen
  BY <1>1, <1>3 DEF Task
<1> HIDE DEF n
<1>5. /\ tasks \in [Workers -> Task \cup {Idle}] /\ tasks[w] = n
      /\ \A v \in Workers \ {w} : tasks[v] = task[v]
  BY <1>1, <1>2, <1>4
<1>6. task' = Watch(tasks, after, now, wrote)
  BY DEF Called
<1> HIDE DEF tasks
<1>7. Answers(tasks[w], task[w], a, line)
  BY <1>4, <1>5 DEF Answers
<1> QED
  BY <1>5, <1>6, <1>7

(* The answer to the second call of a TTL request agrees with the first. *)
Second(n, m) ==
    \/ n < 0 /\ m = n
    \/ n > 0 /\ (m = -2 \/ m \in 1 .. n * MsPerSecond)

(* One more answer that fits. *)
LEMMA FitsNext ==
    ASSUME NEW r \in Task, Shape(r), Len(r.out) < Len(r.keys), NEW es, NEW t, Fits(r, es, t),
           NEW a, NEW line, NEW n, Answers(n, r, a, line),
           NEW fs, NEW u, NEW wrote, NEW q, Watched(q, n, fs, u, wrote),
           NEW k, k = r.keys[Len(r.out) + 1],
           r.op = "EXISTS" => (a => k \in q.seen.live) /\ (~a => k \in q.seen.gone),
           r.op = "DEL" => (a => k \in q.seen.stored) /\ k \in q.seen.gone,
           r.op = "TTL" /\ r.keys[1] \notin q.seen.wrote =>
               /\ Len(r.out) = 0 => Agrees(a, fs[r.keys[1]], u)
               /\ Len(r.out) = 1 => Second(r.out[1], a)
    PROVE  Fits(q, fs, u)
<1>0. r.keys \in Seq(Keys) /\ r.out \in Seq(BOOLEAN \cup Int) /\ Len(r.out) \in Nat
  BY TaskFields
<1>1. /\ q.op = r.op /\ q.keys = r.keys /\ q.out = Append(r.out, a)
      /\ r.seen.live \subseteq q.seen.live /\ r.seen.stored \subseteq q.seen.stored
      /\ r.seen.gone \subseteq q.seen.gone /\ r.seen.wrote \subseteq q.seen.wrote
  BY DEF Answers, Watched
<1>2. /\ Len(q.out) = Len(r.out) + 1 /\ q.out[Len(r.out) + 1] = a
      /\ \A i \in 1 .. Len(r.out) : q.out[i] = r.out[i]
  BY <1>0, <1>1
<1>3. Noted(q.seen, fs, u)
  BY DEF Noted, Watched
<1>4. ASSUME NEW i \in 1 .. Len(q.out), i # Len(r.out) + 1 PROVE i \in 1 .. Len(r.out)
  BY <1>0, <1>2, <1>4
<1>5. ASSUME q.op = "EXISTS", NEW i \in 1 .. Len(q.out)
      PROVE  IF q.out[i] THEN q.keys[i] \in q.seen.live ELSE q.keys[i] \in q.seen.gone
  <2>1. CASE i = Len(r.out) + 1
    BY <1>1, <1>2, <1>5, <2>1
  <2>2. CASE i # Len(r.out) + 1
    <3>1. IF r.out[i] THEN r.keys[i] \in r.seen.live ELSE r.keys[i] \in r.seen.gone
      BY <1>1, <1>4, <1>5, <2>2 DEF Fits
    <3>2. q.out[i] = r.out[i] /\ q.keys[i] = r.keys[i]
      BY <1>1, <1>2, <1>4, <2>2
    <3> QED
      BY <1>1, <3>1, <3>2
  <2> QED
    BY <2>1, <2>2
<1>6. ASSUME q.op = "DEL", NEW i \in 1 .. Len(q.out)
      PROVE  (q.out[i] => q.keys[i] \in q.seen.stored) /\ q.keys[i] \in q.seen.gone
  <2>1. CASE i = Len(r.out) + 1
    BY <1>1, <1>2, <1>6, <2>1
  <2>2. CASE i # Len(r.out) + 1
    <3>1. (r.out[i] => r.keys[i] \in r.seen.stored) /\ r.keys[i] \in r.seen.gone
      BY <1>1, <1>4, <1>6, <2>2 DEF Fits
    <3>2. q.out[i] = r.out[i] /\ q.keys[i] = r.keys[i]
      BY <1>1, <1>2, <1>4, <2>2
    <3> QED
      BY <1>1, <3>1, <3>2
  <2> QED
    BY <2>1, <2>2
<1>7. ASSUME q.op = "TTL", q.keys[1] \notin q.seen.wrote
      PROVE  /\ Len(q.out) = 1 => Agrees(q.out[1], fs[q.keys[1]], u)
             /\ Len(q.out) = 2 => Second(q.out[1], q.out[2])
  <2>1. /\ Len(r.out) = 0 => Agrees(a, fs[r.keys[1]], u)
        /\ Len(r.out) = 1 => Second(r.out[1], a)
    BY <1>1, <1>7
  <2>2. ASSUME Len(q.out) = 1 PROVE Agrees(q.out[1], fs[q.keys[1]], u)
    <3>1. Len(r.out) = 0 /\ q.out[1] = a
      BY <1>0, <1>2, <2>2
    <3> QED
      BY <1>1, <2>1, <3>1
  <2>3. ASSUME Len(q.out) = 2 PROVE Second(q.out[1], q.out[2])
    <3>0. Len(r.out) = 1 /\ Len(r.out) + 1 = 2
      <4> DEFINE m == Len(r.out)
      <4>1. m \in Nat /\ m + 1 = 2
        BY <1>0, <1>2, <2>3, Zenon
      <4> HIDE DEF m
      <4>2. m = 1
        BY <4>1
      <4> QED
        BY <4>1, <4>2 DEF m
    <3>1. Len(r.out) = 1 /\ q.out[2] = a
      BY <1>2, <3>0
    <3>2. q.out[1] = r.out[1]
      BY <1>2, <3>1
    <3> QED
      BY <2>1, <3>1, <3>2
  <2> QED
    BY <2>2, <2>3
<1> QED
  BY <1>3, <1>5, <1>6, <1>7 DEF Fits, Second

(* The shape after one more answer. *)
LEMMA AnswersShape ==
    ASSUME NEW r \in Task, Shape(r), r.op \in Several, Len(r.out) < Len(r.keys),
           NEW a, r.op # "TTL" => a \in BOOLEAN, r.op = "TTL" => a \in Int,
           NEW line, line # NoLine => r.op = "DEL" /\ line.key = r.keys[Len(r.out) + 1],
           NEW n, Answers(n, r, a, line)
    PROVE  Shape(n) /\ n # Idle
<1>0. r.keys \in Seq(Keys) /\ r.out \in Seq(BOOLEAN \cup Int) /\ Len(r.out) \in Nat /\ Len(r.keys) \in Nat
  BY TaskFields
<1>1. n.op = r.op /\ n.keys = r.keys /\ n.out = Append(r.out, a) /\ n.line = line /\ n \in Task
  BY DEF Answers
<1>2. n # Idle /\ Len(n.out) = Len(r.out) + 1
  BY <1>0, <1>1, TaskFields
<1>3. r.op \in {"DEL", "EXISTS"} => n.out \in Seq(BOOLEAN)
  <2> SUFFICES ASSUME r.op \in {"DEL", "EXISTS"} PROVE n.out \in Seq(BOOLEAN)
    OBVIOUS
  <2>1. r.out \in Seq(BOOLEAN) /\ a \in BOOLEAN
    BY DEF Shape
  <2>2. Append(r.out, a) \in Seq(BOOLEAN)
    BY <2>1
  <2> QED
    BY <1>1, <2>2
<1>4. r.op = "TTL" => n.out \in Seq(Int) /\ Len(r.keys) = 2 /\ r.keys[2] = r.keys[1]
  <2> SUFFICES ASSUME r.op = "TTL" PROVE n.out \in Seq(Int) /\ Len(r.keys) = 2 /\ r.keys[2] = r.keys[1]
    OBVIOUS
  <2>1. r.out \in Seq(Int) /\ a \in Int /\ Len(r.keys) = 2 /\ r.keys[2] = r.keys[1]
    BY DEF Shape
  <2>2. Append(r.out, a) \in Seq(Int)
    BY <2>1
  <2> QED
    BY <1>1, <2>1, <2>2
<1>5. r.keys # <<>> /\ Len(n.out) <= Len(n.keys)
  BY <1>0, <1>1, <1>2 DEF Shape
<1>6. line # NoLine => n.out # <<>> /\ line.key = n.keys[Len(n.out)]
  BY <1>0, <1>1, <1>2
<1> QED
  BY <1>1, <1>2, <1>3, <1>4, <1>5, <1>6 DEF Shape, Several

(* The answer a to a request with the answers out: the call found e and left f. *)
AnswerFits(op, out, a, e, f, t) ==
    /\ op = "EXISTS" => a = Live(e, t)
    /\ op = "DEL" => (a => e # NoEntry) /\ f = NoEntry
    /\ op = "TTL" => /\ out = <<>> => Agrees(a, f, t)
                     /\ \A n \in Int : out = <<n>> /\ Agrees(n, e, t) => Second(n, a)

(* A call of DEL, EXISTS or TTL whose answer fits. *)
LEMMA NextKeeps ==
    ASSUME SInv, NEW w \in Workers, NEW op \in Several, AtCall(w, op), unsure' \subseteq Keys,
           NEW after \in [Keys -> Entry \cup {NoEntry}], NEW a \in BOOLEAN \cup Int,
           NEW line \in Command \cup {NoLine}, NEW wrote \in SUBSET Keys,
           Called(w, after, a, line, wrote),
           \A j \in Keys \ wrote : Ages(after[j], entries[j], now, now),
           op # "TTL" => a \in BOOLEAN, op = "TTL" => a \in Int,
           NEW k, k = NextKey(w),
           line # NoLine => op = "DEL" /\ line.key = k,
           AnswerFits(op, task[w].out, a, entries[k], after[k], now)
    PROVE  /\ StateOK' /\ TasksFit' /\ OthersHold(w)
           /\ entries' = after /\ file' = file /\ up' = up /\ now' = now /\ up
           /\ task'[w] # Idle /\ task'[w].line = line
           /\ task[w] # Idle /\ task[w].line = NoLine /\ k \in Keys
<1> DEFINE r == task[w]
<1>1. /\ up /\ r # Idle /\ r.op = op /\ r.line = NoLine /\ Len(r.out) < Len(r.keys)
      /\ k = r.keys[Len(r.out) + 1]
  BY DEF AtCall, Busy, NextKey
<1>2. /\ entries' = after /\ now' = now /\ file' = file /\ up' = up
  BY DEF Called
<1>3. /\ StateOK /\ TasksFit /\ task \in [Workers -> Task \cup {Idle}]
      /\ r \in Task /\ Shape(r) /\ Fits(r, entries, now)
      /\ entries \in [Keys -> Entry \cup {NoEntry}] /\ now \in Nat
  BY <1>1, KvServiceAssumption DEF SInv, StateOK, TasksFit
<1>4. r.keys \in Seq(Keys) /\ r.out \in Seq(BOOLEAN \cup Int) /\ k \in Keys /\ Len(r.out) \in Nat
  <2>1. r.keys \in Seq(Keys) /\ r.out \in Seq(BOOLEAN \cup Int)
    BY <1>3, TaskFields
  <2> QED
    BY <1>1, <2>1
<1>5. PICK tasks \in [Workers -> Task \cup {Idle}] :
               /\ task' = Watch(tasks, after, now, wrote)
               /\ \A v \in Workers \ {w} : tasks[v] = task[v]
               /\ Answers(tasks[w], task[w], a, line)
  BY <1>1, <1>3, CalledFacts
<1> DEFINE n == tasks[w]
           q == task'[w]
<1>6. Answers(n, r, a, line) /\ q = Watch(tasks, after, now, wrote)[w]
  BY <1>5
<1> HIDE DEF q
<1>7. Shape(n) /\ n # Idle /\ n.op = op /\ n.line = line
  <2>1. n.op = op /\ n.line = line
    BY <1>1, <1>6 DEF Answers
  <2>2. /\ r \in Task /\ Shape(r) /\ r.op \in Several /\ Len(r.out) < Len(r.keys)
        /\ (r.op # "TTL" => a \in BOOLEAN) /\ (r.op = "TTL" => a \in Int)
        /\ line # NoLine => r.op = "DEL" /\ line.key = r.keys[Len(r.out) + 1]
        /\ Answers(n, r, a, line)
    BY <1>1, <1>3, <1>6
  <2> HIDE DEF r, n
  <2>3. Shape(n) /\ n # Idle
    BY <2>2, AnswersShape
  <2> QED
    BY <2>1, <2>3
<1>8. Watched(q, n, after, now, wrote)
  <2> HIDE DEF r
  <2> QED
    BY <1>6, <1>7, WatchFacts
<1>9. /\ n.seen = r.seen
      /\ r.seen.live \subseteq q.seen.live /\ r.seen.stored \subseteq q.seen.stored
      /\ r.seen.gone \subseteq q.seen.gone /\ r.seen.wrote \subseteq q.seen.wrote
      /\ q.seen.gone = n.seen.gone \cup {j \in Keys : ~Live(after[j], now)}
  BY <1>6, <1>8 DEF Answers, Watched
<1>10. Noted(r.seen, entries, now)
  BY <1>3 DEF Fits
<1>11. op = "EXISTS" => (a => k \in q.seen.live) /\ (~a => k \in q.seen.gone)
  BY <1>4, <1>9, <1>10 DEF Noted, AnswerFits
<1>12. op = "DEL" => (a => k \in q.seen.stored) /\ k \in q.seen.gone
  BY <1>4, <1>9, <1>10 DEF Noted, Live, AnswerFits
<1>13. op = "TTL" /\ r.keys[1] \notin q.seen.wrote =>
               /\ Len(r.out) = 0 => Agrees(a, after[r.keys[1]], now)
               /\ Len(r.out) = 1 => Second(r.out[1], a)
  <2> SUFFICES ASSUME op = "TTL", r.keys[1] \notin q.seen.wrote
               PROVE  /\ Len(r.out) = 0 => Agrees(a, after[r.keys[1]], now)
                      /\ Len(r.out) = 1 => Second(r.out[1], a)
    OBVIOUS
  <2>1. r.out \in Seq(Int) /\ Len(r.keys) = 2 /\ r.keys[2] = r.keys[1]
    BY <1>1, <1>3 DEF Shape
  <2>2. k = r.keys[1]
    <3>1. Len(r.out) = 0 \/ Len(r.out) = 1
      <4> DEFINE m == Len(r.out)
                 l == Len(r.keys)
      <4>1. m \in Nat /\ l = 2 /\ m < l
        BY <1>1, <1>4, <2>1, Zenon
      <4> HIDE DEF m, l
      <4>2. m = 0 \/ m = 1
        BY <4>1
      <4> QED
        BY <4>2 DEF m
    <3> QED
      BY <1>1, <2>1, <3>1
  <2>3. ASSUME Len(r.out) = 0 PROVE Agrees(a, after[r.keys[1]], now)
    <3>1. r.out = <<>>
      BY <2>1, <2>3
    <3> QED
      BY <2>2, <3>1 DEF AnswerFits
  <2>4. ASSUME Len(r.out) = 1 PROVE Second(r.out[1], a)
    <3> DEFINE m == r.out[1]
    <3>1. m \in Int /\ r.out = <<m>>
      BY <2>1, <2>4
    <3>2. Agrees(m, entries[r.keys[1]], now)
      BY <1>1, <1>3, <1>9, <2>4 DEF Fits
    <3> HIDE DEF m
    <3>3. Second(m, a)
      BY <2>2, <3>1, <3>2 DEF AnswerFits
    <3> QED
      BY <3>3 DEF m
  <2> QED
    BY <2>3, <2>4
<1>14. Fits(q, after, now)
  <2>1. /\ r.op = "EXISTS" => (a => k \in q.seen.live) /\ (~a => k \in q.seen.gone)
        /\ r.op = "DEL" => (a => k \in q.seen.stored) /\ k \in q.seen.gone
        /\ r.op = "TTL" /\ r.keys[1] \notin q.seen.wrote =>
               /\ Len(r.out) = 0 => Agrees(a, after[r.keys[1]], now)
               /\ Len(r.out) = 1 => Second(r.out[1], a)
    BY <1>1, <1>11, <1>12, <1>13
  <2>2. /\ r \in Task /\ Shape(r) /\ Len(r.out) < Len(r.keys) /\ Fits(r, entries, now)
        /\ Answers(n, r, a, line) /\ Watched(q, n, after, now, wrote)
        /\ k = r.keys[Len(r.out) + 1]
    BY <1>1, <1>3, <1>6, <1>8
  <2> HIDE DEF r, n
  <2> QED
    BY <2>1, <2>2, FitsNext
<1>15. /\ StateOK' /\ TasksFit' /\ OthersHold(w)
       /\ task'[w] # Idle <=> tasks[w] # Idle
       /\ tasks[w] # Idle => task'[w].line = tasks[w].line
  <2>1. /\ tasks[w] # Idle => Shape(tasks[w])
        /\ tasks[w] # Idle /\ tasks[w].op \in Several => Fits(task'[w], entries', now)
    BY <1>2, <1>7, <1>14 DEF q
  <2>2. /\ StateOK /\ TasksFit /\ up /\ entries' \in [Keys -> Entry \cup {NoEntry}]
        /\ \A j \in Keys \ wrote : Ages(entries'[j], entries[j], now, now)
        /\ task' = Watch(tasks, entries', now, wrote)
    BY <1>1, <1>2, <1>3, <1>5
  <2> QED
    BY <1>2, <1>5, <2>1, <2>2, CallKeeps
<1> QED
  BY <1>1, <1>2, <1>4, <1>7, <1>15

(* After such a call of EXISTS or TTL no line is held that was not before. *)
LEMMA CallKeepsKeys ==
    ASSUME SInv, NEW w \in Workers, StateOK', OthersHold(w), up, up' = up, now' = now, file' = file,
           unsure' = unsure, task[w].line = NoLine, task'[w].line = NoLine,
           \A k \in Keys : Ages(entries'[k], entries[k], now, now)
    PROVE  \A k \in Keys : KeyOK(k)'
<1> TAKE k \in Keys
<1>1. ~Waits(w, k) /\ ~Waits(w, k)'
  BY DEF Waits
<1>2. /\ \A v \in Workers : Waits(v, k)' <=> Waits(v, k)
      /\ \A v \in Workers : Waits(v, k) => task'[v].line = task[v].line
  BY <1>1 DEF OthersHold
<1>3. StateOK /\ KeyOK(k) /\ (k \in unsure => k \in unsure') /\ Ages(entries'[k], entries[k], now, now)
  BY DEF SInv
<1> QED
  BY <1>2, <1>3, KeyQuiet

(* A DEL erases its next key and has its line to append, if there was one. *)
LEMMA DelKeeps ==
    ASSUME SInv, NEW w \in Workers, DelNext(w)
    PROVE  SInv'
<1> DEFINE k == NextKey(w)
           c == [op |-> "DEL", key |-> k]
           ok == Succeeds(entries[k], now, c)
           after == [entries EXCEPT ![k] = NoEntry]
           line == IF ok THEN c ELSE NoLine
           wrote == IF ok THEN {k} ELSE {}
<1>1. AtCall(w, "DEL") /\ Called(w, after, ok, line, wrote) /\ Doubt(w, c, ok)
  BY DEF DelNext
<1>2. /\ StateOK /\ entries \in [Keys -> Entry \cup {NoEntry}] /\ now \in Nat /\ unsure \subseteq Keys
      /\ task[w] \in Task
  BY <1>1, KvServiceAssumption DEF SInv, StateOK, AtCall, Busy
<1>3. k \in Keys
  <2>1. task[w].keys \in Seq(Keys) /\ Len(task[w].out) \in Nat /\ Len(task[w].out) < Len(task[w].keys)
    <3>1. task[w].keys \in Seq(Keys) /\ task[w].out \in Seq(BOOLEAN \cup Int)
      BY <1>2, TaskFields
    <3> QED
      BY <1>1, <3>1 DEF AtCall
  <2> QED
    BY <2>1 DEF NextKey
<1>4. /\ c \in Command /\ c.key = k /\ c.op = "DEL"
      /\ Succeeds(entries[k], now, c) <=> entries[k] # NoEntry
  BY <1>3 DEF Command, Succeeds
<1>5. /\ ok \in BOOLEAN /\ (ok <=> entries[k] # NoEntry)
      /\ line \in Command \cup {NoLine} /\ wrote \in SUBSET Keys
      /\ line # NoLine => line = c
      /\ ok => line = c
      /\ ~ok => line = NoLine
      /\ \A j \in Keys : j \notin wrote => j # k \/ ~ok
  <2>1. ok \in BOOLEAN
    BY <1>4 DEF Succeeds
  <2> HIDE DEF c
  <2> QED
    BY <1>3, <1>4, <2>1
<1>6. /\ after \in [Keys -> Entry \cup {NoEntry}] /\ after[k] = NoEntry
      /\ \A j \in Keys : j # k => after[j] = entries[j]
  BY <1>2, <1>3
<1> HIDE DEF c, ok, line, wrote, after
<1>7. \A j \in Keys : j # k \/ ~ok => Ages(after[j], entries[j], now, now)
  <2> TAKE j \in Keys
  <2>1. CASE j # k
    BY <1>2, <1>6, <2>1, LookupAges
  <2>2. CASE j = k /\ ~ok
    BY <1>2, <1>5, <1>6, <2>2 DEF Ages
  <2> QED
    BY <2>1, <2>2
<1>8. unsure' \subseteq Keys
  BY <1>1, <1>2, <1>3, <1>4 DEF Doubt
<1>9. /\ StateOK' /\ TasksFit' /\ OthersHold(w)
      /\ entries' = after /\ file' = file /\ up' = up /\ now' = now /\ up
      /\ task'[w] # Idle /\ task'[w].line = line
      /\ task[w] # Idle /\ task[w].line = NoLine
  <2> DEFINE kk == k
  <2>1. "DEL" \in Several /\ kk = NextKey(w)
    BY DEF Several
  <2>2. \A j \in Keys \ wrote : Ages(after[j], entries[j], now, now)
    BY <1>5, <1>7
  <2>3. line # NoLine => line.key = kk
    BY <1>4, <1>5
  <2>4. AnswerFits("DEL", task[w].out, ok, entries[kk], after[kk], now)
    BY <1>5, <1>6 DEF AnswerFits
  <2>5. ok \in BOOLEAN \cup Int /\ ok \in BOOLEAN
    BY <1>5
  <2> HIDE DEF kk
  <2> QED
    BY <1>1, <1>5, <1>6, <1>8, <2>1, <2>2, <2>3, <2>4, <2>5, NextKeeps
<1>10. ASSUME NEW j \in Keys PROVE KeyOK(j)'
  <2>0. KeyOK(j) /\ ~Waits(w, j)
    BY <1>9 DEF SInv, Waits
  <2>1. CASE ok /\ j = k
    <3>1. entries'[j] = Perform(entries[j], now, c)
      BY <1>4, <1>6, <1>9, <2>1, PerformCases
    <3>2. Doubt(w, c, TRUE)
      BY <1>1, <2>1 DEF Doubt
    <3>3. Waits(w, j)' /\ task'[w].line = Line(c)
      <4>1. c # NoLine /\ Line(c) = c
        BY <1>4, KvServiceAssumption DEF Line
      <4> QED
        BY <1>4, <1>5, <1>9, <2>1, <4>1 DEF Waits
    <3>4. \A v \in Workers \ {w} : Waits(v, j)' <=> Waits(v, j)
      BY <1>9 DEF OthersHold
    <3>5. j = c.key
      BY <1>4, <2>1
    <3>6. StateOK /\ up /\ now' = now /\ file' = file /\ c \in Command
      BY <1>2, <1>4, <1>9
    <3> QED
      BY <2>0, <3>1, <3>2, <3>3, <3>4, <3>5, <3>6, KeyWritten
  <2>2. CASE ~ok \/ j # k
    <3>1. j \in unsure => j \in unsure'
      BY <1>1, <1>4, <2>2 DEF Doubt
    <3>2. Ages(entries'[j], entries[j], now, now)
      BY <1>7, <1>9, <2>2
    <3>3. ~Waits(w, j)'
      BY <1>4, <1>5, <1>9, <2>2 DEF Waits
    <3>4. /\ \A v \in Workers : Waits(v, j)' <=> Waits(v, j)
          /\ \A v \in Workers : Waits(v, j) => task'[v].line = task[v].line
      BY <1>9, <2>0, <3>3 DEF OthersHold
    <3> QED
      BY <1>2, <1>9, <2>0, <3>1, <3>2, <3>4, KeyQuiet
  <2> QED
    BY <2>1, <2>2
<1> QED
  BY <1>9, <1>10 DEF SInv

(* EXISTS and TTL look up their next key, and hold no line. *)
LEMMA LookupKeeps ==
    ASSUME SInv, NEW w \in Workers, NEW op \in {"EXISTS", "TTL"}, AtCall(w, op),
           NEW k, k = NextKey(w), NEW e, e = Lookup(entries[k], now), NEW a,
           op = "EXISTS" => a \in BOOLEAN, op = "TTL" => a \in Int,
           AnswerFits(op, task[w].out, a, entries[k], e, now),
           Called(w, [entries EXCEPT ![k] = e], a, NoLine, {}), unsure' = unsure
    PROVE  SInv'
<1> DEFINE after == [entries EXCEPT ![k] = e]
<1>1. /\ StateOK /\ entries \in [Keys -> Entry \cup {NoEntry}] /\ now \in Nat /\ unsure \subseteq Keys
      /\ task[w] \in Task
  BY KvServiceAssumption DEF SInv, StateOK, AtCall, Busy
<1>2. k \in Keys
  <2>1. task[w].keys \in Seq(Keys) /\ Len(task[w].out) \in Nat /\ Len(task[w].out) < Len(task[w].keys)
    <3>1. task[w].keys \in Seq(Keys) /\ task[w].out \in Seq(BOOLEAN \cup Int)
      BY <1>1, TaskFields
    <3> QED
      BY <3>1 DEF AtCall
  <2> QED
    BY <2>1 DEF NextKey
<1>3. e \in Entry \cup {NoEntry} /\ Ages(e, entries[k], now, now)
  BY <1>1, <1>2, LookupFresh, LookupAges DEF Fresh
<1>4. after \in [Keys -> Entry \cup {NoEntry}] /\ after[k] = e
  BY <1>1, <1>2, <1>3
<1>5. \A j \in Keys : Ages(after[j], entries[j], now, now)
  BY <1>1, <1>3, LookupAges
<1>6. Called(w, after, a, NoLine, {}) /\ unsure' \subseteq Keys
  BY <1>1
<1> HIDE DEF after
<1>8. /\ StateOK' /\ TasksFit' /\ OthersHold(w)
      /\ entries' = after /\ file' = file /\ up' = up /\ now' = now /\ up
      /\ task'[w].line = NoLine /\ task[w].line = NoLine
  <2> DEFINE line == NoLine
             wrote == {}
  <2>1. /\ op \in Several /\ op # "DEL" /\ line \in Command \cup {NoLine} /\ wrote \in SUBSET Keys
        /\ Called(w, after, a, line, wrote)
    BY <1>6 DEF Several
  <2>2. a \in BOOLEAN \cup Int /\ (op # "TTL" => a \in BOOLEAN) /\ (op = "TTL" => a \in Int)
    OBVIOUS
  <2>3. \A j \in Keys \ wrote : Ages(after[j], entries[j], now, now)
    BY <1>5
  <2>4. AnswerFits(op, task[w].out, a, entries[k], after[k], now)
    BY <1>4
  <2>7. line # NoLine => op = "DEL" /\ line.key = k
    OBVIOUS
  <2> HIDE DEF line, wrote
  <2>8. /\ StateOK' /\ TasksFit' /\ OthersHold(w)
        /\ entries' = after /\ file' = file /\ up' = up /\ now' = now /\ up
        /\ task'[w].line = line /\ task[w].line = NoLine
    BY <1>4, <1>6, <2>1, <2>2, <2>3, <2>4, <2>7, NextKeeps
  <2> QED
    BY <2>8 DEF line
<1>9. \A j \in Keys : KeyOK(j)'
  BY <1>5, <1>8, CallKeepsKeys
<1> QED
  BY <1>8, <1>9 DEF SInv

(* EXISTS. *)
LEMMA ExistsKeeps ==
    ASSUME SInv, NEW w \in Workers, ExistsNext(w)
    PROVE  SInv'
<1> DEFINE k == NextKey(w)
           e == Lookup(entries[k], now)
           a == Live(entries[k], now)
<1>1. /\ AtCall(w, "EXISTS") /\ Called(w, [entries EXCEPT ![k] = e], a, NoLine, {})
      /\ unsure' = unsure
  BY DEF ExistsNext
<1>2. k = NextKey(w) /\ e = Lookup(entries[k], now) /\ a = Live(entries[k], now)
  OBVIOUS
<1>3. "EXISTS" \in {"EXISTS", "TTL"} /\ "EXISTS" # "TTL" /\ a \in BOOLEAN
  BY DEF Live
<1>4. AnswerFits("EXISTS", task[w].out, a, entries[k], e, now)
  BY DEF AnswerFits
<1> HIDE DEF k, e, a
<1> QED
  BY <1>1, <1>2, <1>3, <1>4, LookupKeeps

(* Rounding up to seconds keeps at least the milliseconds there are. *)
LEMMA RoundUpCovers ==
    ASSUME NEW m \in Nat \ {0}, NEW s \in Nat \ {0}
    PROVE  /\ (m + s - 1) \div s \in Nat \ {0}
           /\ m <= ((m + s - 1) \div s) * s
OBVIOUS

(* TTL, in seconds and then in milliseconds. *)
LEMMA TtlKeeps ==
    ASSUME SInv, NEW w \in Workers, TtlNext(w)
    PROVE  SInv'
<1> DEFINE k == NextKey(w)
           e == Lookup(entries[k], now)
           ms == Remaining(e)
           a == IF task[w].out = <<>> THEN RoundUp(ms) ELSE ms
<1>1. /\ AtCall(w, "TTL") /\ Called(w, [entries EXCEPT ![k] = e], a, NoLine, {})
      /\ unsure' = unsure
  BY DEF TtlNext
<1>2. k = NextKey(w) /\ e = Lookup(entries[k], now)
  OBVIOUS
<1>3. "TTL" \in {"EXISTS", "TTL"} /\ "EXISTS" # "TTL"
  OBVIOUS
<1>4. entries \in [Keys -> Entry \cup {NoEntry}] /\ now \in Nat /\ task[w] \in Task
  BY <1>1, KvServiceAssumption DEF SInv, StateOK, AtCall, Busy
<1>5. k \in Keys
  <2>1. task[w].keys \in Seq(Keys) /\ Len(task[w].out) \in Nat /\ Len(task[w].out) < Len(task[w].keys)
    <3>1. task[w].keys \in Seq(Keys) /\ task[w].out \in Seq(BOOLEAN \cup Int)
      BY <1>4, TaskFields
    <3> QED
      BY <1>1, <3>1 DEF AtCall
  <2> QED
    BY <2>1 DEF NextKey
<1> DEFINE f == entries[k]
<1>6. f \in Entry \cup {NoEntry} /\ e = (IF Live(f, now) THEN f ELSE NoEntry) /\ e = Lookup(f, now)
  BY <1>4, <1>5 DEF Lookup
<1>7. MsPerSecond \in Nat \ {0}
  BY KvServiceAssumption
<1> HIDE DEF k, e
<1>8. /\ ~Live(f, now) => e = NoEntry /\ ms = -2
      /\ Live(f, now) => /\ e = f /\ f \in Entry /\ e # NoEntry
                         /\ f.expire_at = 0 => ms = -1
                         /\ f.expire_at # 0 => ms = f.expire_at - now /\ ms \in Nat \ {0}
  <2>1. CASE ~Live(f, now)
    BY <1>6, <2>1 DEF Remaining
  <2>2. CASE Live(f, now)
    <3>1. e = f /\ f # NoEntry /\ f \in Entry /\ ~IsExpired(f, now)
      BY <1>6, <2>2 DEF Live
    <3>2. f.expire_at \in Nat
      BY <3>1 DEF Entry
    <3> QED
      BY <1>4, <2>2, <3>1, <3>2 DEF Remaining, IsExpired
  <2> QED
    BY <2>1, <2>2
<1> HIDE DEF ms, f
<1>9. Agrees(RoundUp(ms), e, now) /\ RoundUp(ms) \in Int /\ ms \in Int
  <2>1. CASE ~Live(f, now)
    BY <1>8, <2>1 DEF Agrees, RoundUp, Live
  <2>2. CASE Live(f, now) /\ f.expire_at = 0
    BY <1>8, <2>2 DEF Agrees, RoundUp
  <2>3. CASE Live(f, now) /\ f.expire_at # 0
    <3> DEFINE n == (ms + MsPerSecond - 1) \div MsPerSecond
    <3>1. ms \in Nat \ {0} /\ ms = e.expire_at - now /\ e = f
      BY <1>8, <2>3
    <3>2. n \in Nat \ {0} /\ ms <= n * MsPerSecond
      BY <1>7, <3>1, RoundUpCovers
    <3>3. RoundUp(ms) = n
      BY <3>1 DEF RoundUp
    <3>4. e.expire_at \in Nat
      BY <1>8, <2>3 DEF Entry
    <3>5. e.expire_at > now
      BY <1>4, <3>1, <3>4
    <3> HIDE DEF n
    <3> QED
      BY <3>1, <3>2, <3>3, <3>5 DEF Agrees
  <2> QED
    BY <2>1, <2>2, <2>3
<1>10. ASSUME NEW n \in Int, Agrees(n, f, now) PROVE Second(n, ms)
  <2>1. CASE n = -2 /\ ~Live(f, now)
    BY <1>8, <2>1 DEF Second
  <2>2. CASE n = -1 /\ f # NoEntry /\ f.expire_at = 0
    <3>1. Live(f, now)
      BY <2>2 DEF Live, IsExpired
    <3> QED
      BY <1>8, <2>2, <3>1 DEF Second
  <2>3. CASE n > 0 /\ (Live(f, now) => f.expire_at > now /\ f.expire_at - now <= n * MsPerSecond)
    <3>1. CASE ~Live(f, now)
      BY <1>8, <2>3, <3>1 DEF Second
    <3>2. CASE Live(f, now)
      <4>1. f.expire_at # 0 /\ f.expire_at - now <= n * MsPerSecond
        BY <1>4, <2>3, <3>2
      <4>2. ms \in Nat \ {0} /\ ms <= n * MsPerSecond
        BY <1>8, <3>2, <4>1
      <4> DEFINE x == n * MsPerSecond
      <4>3. x \in Int /\ ms <= x
        BY <1>7, <4>2
      <4> HIDE DEF x
      <4>4. ms \in 1 .. x
        BY <4>2, <4>3
      <4> QED
        BY <2>3, <4>4 DEF Second, x
    <3> QED
      BY <3>1, <3>2
  <2> QED
    BY <1>10, <2>1, <2>2, <2>3 DEF Agrees
<1>11. a \in Int /\ AnswerFits("TTL", task[w].out, a, entries[k], e, now)
  <2>1. a \in Int /\ (task[w].out = <<>> => a = RoundUp(ms))
    BY <1>9
  <2>2. ASSUME NEW n \in Int, task[w].out = <<n>>, Agrees(n, entries[k], now) PROVE Second(n, a)
    <3>1. task[w].out # <<>>
      BY <2>2
    <3>2. a = ms
      BY <3>1
    <3> QED
      BY <1>10, <2>2, <3>2 DEF f
  <2> QED
    BY <1>9, <2>1, <2>2 DEF AnswerFits
<1> HIDE DEF a
<1> QED
  BY <1>1, <1>2, <1>3, <1>11, LookupKeeps

(* AofWriter::Append: the line goes from the worker into the file. *)
LEMMA AppendKeeps ==
    ASSUME SInv, NEW w \in Workers, AppendLine(w)
    PROVE  SInv'
<1> DEFINE r == task[w]
           l == r.line
           n == IF Answered(w) THEN Idle ELSE [r EXCEPT !.line = NoLine]
<1>1. /\ up /\ r # Idle /\ l # NoLine /\ file' = Append(file, l) /\ task' = [task EXCEPT ![w] = n]
      /\ entries' = entries /\ now' = now /\ up' = up /\ unsure' = unsure
  BY DEF AppendLine, Busy
<1>2. /\ StateOK /\ task \in [Workers -> Task \cup {Idle}] /\ r \in Task /\ Shape(r)
      /\ file \in Seq(Command) /\ entries \in [Keys -> Entry \cup {NoEntry}]
      /\ now \in 0 .. MaxClock /\ now \in Nat /\ MaxClock \in Nat
  BY <1>1, KvServiceAssumption DEF SInv, StateOK
<1>3. l \in Command /\ l.key \in Keys
  <2>1. l \in Command
    BY <1>1, <1>2, TaskFields
  <2> HIDE DEF l
  <2> QED
    BY <2>1, CommandCases
<1>4. /\ n \in Task \cup {Idle}
      /\ n # Idle => /\ n.op = r.op /\ n.keys = r.keys /\ n.out = r.out
                     /\ n.seen = r.seen /\ n.line = NoLine /\ n.op \in Several
  <2>1. Answered(w) => n = Idle
    OBVIOUS
  <2>2. ASSUME ~Answered(w)
        PROVE  /\ n \in Task /\ n.op = r.op /\ n.keys = r.keys /\ n.out = r.out
               /\ n.seen = r.seen /\ n.line = NoLine /\ r.op \in Several
    BY <1>2, <2>2 DEF Task, Answered, Several
  <2> HIDE DEF n
  <2> QED
    BY <2>1, <2>2
<1> HIDE DEF n
<1>5. n # Idle => Shape(n)
  BY <1>2, <1>4 DEF Shape
<1>6. /\ task' \in [Workers -> Task \cup {Idle}] /\ task'[w] = n
      /\ \A v \in Workers \ {w} : task'[v] = task[v]
  BY <1>1, <1>2, <1>4
<1>7. file' \in Seq(Command)
  BY <1>1, <1>2, <1>3
<1>8. StateOK'
  <2>1. \A v \in Workers : task'[v] # Idle => up' /\ Shape(task'[v])
    BY <1>1, <1>2, <1>5, <1>6 DEF StateOK
  <2> QED
    BY <1>1, <1>2, <1>6, <1>7, <2>1 DEF StateOK
<1>9. TasksFit'
  <2>1. ASSUME NEW v \in Workers, task'[v] # Idle, task'[v].op \in Several
        PROVE  Fits(task'[v], entries, now)
    <3>1. CASE v # w
      <4>1. task'[v] = task[v] /\ task[v] # Idle /\ task[v].op \in Several
        BY <1>6, <2>1, <3>1
      <4>2. Fits(task[v], entries, now)
        BY <4>1 DEF SInv, TasksFit
      <4> QED
        BY <4>1, <4>2
    <3>2. CASE v = w
      <4>1. n # Idle /\ n.op \in Several /\ task'[v] = n
        BY <1>6, <2>1, <3>2
      <4>2. Fits(r, entries, now)
        BY <1>1, <1>4, <4>1 DEF SInv, TasksFit
      <4>3. n.op = r.op /\ n.keys = r.keys /\ n.out = r.out /\ n.seen = r.seen
        BY <1>4, <4>1
      <4> HIDE DEF r
      <4>4. Fits(n, entries, now)
        BY <4>2, <4>3 DEF Fits
      <4> QED
        BY <4>1, <4>4
    <3> QED
      BY <3>1, <3>2
  <2> QED
    BY <1>1, <2>1 DEF TasksFit
<1>10. ASSUME NEW k \in Keys PROVE KeyOK(k)'
  <2>1. /\ \A v \in Workers \ {w} : Waits(v, k)' <=> Waits(v, k)
        /\ \A v \in Workers \ {w} : task'[v] = task[v]
        /\ ~Waits(w, k)' /\ (Waits(w, k) <=> k = l.key)
    BY <1>1, <1>4, <1>6 DEF Waits
  <2>2. ASSUME k \notin EmptyKeys, NEW t \in now .. MaxClock
        PROVE  Replay(file', t)[k] = IF k = l.key THEN Perform(Replay(file, t)[k], t, l)
                                     ELSE Replay(file, t)[k]
    <3>1. t \in 0 .. MaxClock
      BY <1>2
    <3>2. Replay(file, t) \in [Keys -> Entry \cup {NoEntry}]
      BY <1>2, <3>1, ReplayFresh
    <3> HIDE DEF l
    <3> QED
      BY <1>1, <1>2, <1>3, <2>2, <3>2, ReplayKey
  <2> SUFFICES ASSUME k \notin unsure, k \notin EmptyKeys
               PROVE  /\ \A v, x \in Workers : Waits(v, k)' /\ Waits(x, k)' => v = x
                      /\ entries[k] # NoEntry => Live(entries[k], now)
                      /\ (\A x \in Workers : ~Waits(x, k)') =>
                            \A t \in now .. MaxClock : Follows(Replay(file', t)[k], entries[k])
                      /\ \A x \in Workers : Waits(x, k)' =>
                            \A t \in now .. MaxClock :
                                Follows(Perform(Replay(file', t)[k], t, task'[x].line), entries[k])
    BY <1>1 DEF KeyOK
  <2>3. /\ \A v, x \in Workers : Waits(v, k) /\ Waits(x, k) => v = x
        /\ entries[k] # NoEntry => Live(entries[k], now)
        /\ (\A x \in Workers : ~Waits(x, k)) =>
              \A t \in now .. MaxClock : Follows(Replay(file, t)[k], entries[k])
        /\ \A x \in Workers : Waits(x, k) =>
              \A t \in now .. MaxClock :
                  Follows(Perform(Replay(file, t)[k], t, task[x].line), entries[k])
    BY <1>1 DEF SInv, KeyOK
  <2>4. \A v, x \in Workers : Waits(v, k)' /\ Waits(x, k)' => v = x
    BY <2>1, <2>3
  <2>5. CASE k = l.key
    <3>1. Waits(w, k) /\ \A x \in Workers : ~Waits(x, k)'
      BY <2>1, <2>3, <2>5
    <3>2. \A t \in now .. MaxClock : Follows(Replay(file', t)[k], entries[k])
      BY <2>2, <2>3, <2>5, <3>1
    <3> QED
      BY <2>3, <2>4, <3>1, <3>2
  <2>6. CASE k # l.key
    <3>1. \A x \in Workers : Waits(x, k)' <=> Waits(x, k)
      BY <2>1, <2>6
    <3>2. \A x \in Workers : Waits(x, k)' => x # w /\ task'[x].line = task[x].line
      BY <2>1
    <3>3. \A t \in now .. MaxClock : Replay(file', t)[k] = Replay(file, t)[k]
      BY <2>2, <2>6
    <3> QED
      BY <2>3, <2>4, <3>1, <3>2, <3>3
  <2> QED
    BY <2>5, <2>6
<1> QED
  BY <1>8, <1>9, <1>10 DEF SInv

(* A request of several calls is answered. *)
LEMMA FinishKeeps ==
    ASSUME SInv, NEW w \in Workers, Finish(w)
    PROVE  SInv'
<1>1. /\ up /\ task[w] # Idle /\ task[w].line = NoLine /\ task' = [task EXCEPT ![w] = Idle]
      /\ entries' = entries /\ now' = now /\ up' = up /\ unsure' = unsure /\ file' = file
  BY DEF Finish, Finished, Busy
<1>2. /\ StateOK /\ task \in [Workers -> Task \cup {Idle}] /\ now \in Nat
      /\ entries \in [Keys -> Entry \cup {NoEntry}]
  BY KvServiceAssumption DEF SInv, StateOK
<1>3. /\ task' \in [Workers -> Task \cup {Idle}] /\ task'[w] = Idle
      /\ \A v \in Workers \ {w} : task'[v] = task[v]
  BY <1>1, <1>2
<1>4. StateOK'
  BY <1>1, <1>2, <1>3 DEF StateOK
<1>5. TasksFit'
  BY <1>1, <1>3 DEF SInv, TasksFit
<1>6. ASSUME NEW k \in Keys PROVE KeyOK(k)'
  <2>1. /\ \A v \in Workers : Waits(v, k)' <=> Waits(v, k)
        /\ \A v \in Workers : Waits(v, k) => task'[v].line = task[v].line
    BY <1>1, <1>3 DEF Waits
  <2>2. Ages(entries'[k], entries[k], now, now)
    BY <1>1, <1>2, LookupAges
  <2>3. KeyOK(k) /\ (k \in unsure => k \in unsure')
    BY <1>1 DEF SInv
  <2> QED
    BY <1>1, <1>2, <2>1, <2>2, <2>3, KeyQuiet
<1> QED
  BY <1>4, <1>5, <1>6 DEF SInv

(* The clock. *)
LEMMA TickKeeps ==
    ASSUME SInv, Tick
    PROVE  SInv'
<1>1. /\ now < MaxClock /\ now' = now + 1 /\ unsure' = unsure \cup Expiring
      /\ entries' = entries /\ file' = file /\ up' = up
      /\ task' = Watch(task, entries', now', {})
  BY DEF Tick
<1>2. /\ StateOK /\ TasksFit /\ now \in Nat /\ MaxClock \in Nat /\ unsure \subseteq Keys
      /\ entries' \in [Keys -> Entry \cup {NoEntry}]
  BY <1>1, KvServiceAssumption DEF SInv, StateOK
<1>3. /\ \A k \in Keys : Ages(entries'[k], entries[k], now, now')
      /\ now' \in 0 .. MaxClock /\ unsure' \subseteq Keys
  BY <1>1, <1>2 DEF Ages, Expiring
<1>4. /\ StateOK' /\ TasksFit'
      /\ \A v \in Workers, k \in Keys :
            (Waits(v, k)' <=> Waits(v, k)) /\ (Waits(v, k) => task'[v].line = task[v].line)
  BY <1>1, <1>2, <1>3, AgingKeeps
<1>5. ASSUME NEW k \in Keys PROVE KeyOK(k)'
  <2> SUFFICES ASSUME up, k \notin unsure', k \notin EmptyKeys
               PROVE  /\ \A v, x \in Workers : Waits(v, k)' /\ Waits(x, k)' => v = x
                      /\ entries[k] # NoEntry => Live(entries[k], now + 1)
                      /\ (\A x \in Workers : ~Waits(x, k)') =>
                            \A t \in now + 1 .. MaxClock : Follows(Replay(file, t)[k], entries[k])
                      /\ \A x \in Workers : Waits(x, k)' =>
                            \A t \in now + 1 .. MaxClock :
                                Follows(Perform(Replay(file, t)[k], t, task'[x].line), entries[k])
    BY <1>1 DEF KeyOK
  <2>1. k \notin unsure /\ k \notin Expiring
    BY <1>1
  <2>2. /\ \A v, x \in Workers : Waits(v, k) /\ Waits(x, k) => v = x
        /\ entries[k] # NoEntry => Live(entries[k], now)
        /\ (\A x \in Workers : ~Waits(x, k)) =>
              \A t \in now .. MaxClock : Follows(Replay(file, t)[k], entries[k])
        /\ \A x \in Workers : Waits(x, k) =>
              \A t \in now .. MaxClock :
                  Follows(Perform(Replay(file, t)[k], t, task[x].line), entries[k])
    BY <2>1 DEF SInv, KeyOK
  <2>3. entries[k] # NoEntry => Live(entries[k], now + 1)
    BY <2>1, <2>2 DEF Expiring, Live
  <2>4. \A t \in now + 1 .. MaxClock : t \in now .. MaxClock
    BY <1>2
  <2>5. /\ \A x \in Workers : Waits(x, k)' <=> Waits(x, k)
        /\ \A x \in Workers : Waits(x, k) => task'[x].line = task[x].line
    BY <1>4
  <2> QED
    BY <2>2, <2>3, <2>4, <2>5
<1> QED
  BY <1>4, <1>5 DEF SInv

(* The process is killed: only the file is left. *)
LEMMA KillKeeps ==
    ASSUME SInv, Kill
    PROVE  SInv'
<1>1. /\ up' = FALSE /\ entries' = Empty /\ task' = [w \in Workers |-> Idle] /\ unsure' = {}
      /\ now' = now /\ file' = file
  BY DEF Kill
<1>2. StateOK'
  <2>1. now' \in 0 .. MaxClock /\ file' \in Seq(Command) /\ up' \in BOOLEAN
    BY <1>1 DEF SInv, StateOK
  <2>2. entries' \in [Keys -> Entry \cup {NoEntry}]
    BY <1>1 DEF Empty
  <2>3. task' \in [Workers -> Task \cup {Idle}] /\ \A w \in Workers : task'[w] = Idle
    BY <1>1
  <2> QED
    BY <1>1, <2>1, <2>2, <2>3 DEF StateOK
<1>3. TasksFit'
  BY <1>1 DEF TasksFit
<1>4. \A k \in Keys : KeyOK(k)'
  BY <1>1 DEF KeyOK
<1> QED
  BY <1>2, <1>3, <1>4 DEF SInv

(* The process starts again and replays the file. *)
LEMMA RestartKeeps ==
    ASSUME SInv, Restart
    PROVE  SInv'
<1>1. /\ ~up /\ up' = TRUE /\ entries' = Replay(file, now)
      /\ now' = now /\ file' = file /\ task' = task /\ unsure' = unsure
  BY DEF Restart
<1>2. /\ file \in Seq(Command) /\ now \in 0 .. MaxClock /\ MaxClock \in Nat /\ now \in Nat
      /\ task \in [Workers -> Task \cup {Idle}] /\ unsure \subseteq Keys
      /\ \A w \in Workers : task[w] = Idle
  BY <1>1, KvServiceAssumption DEF SInv, StateOK
<1>3. entries' \in [Keys -> Entry \cup {NoEntry}] /\ \A k \in Keys : Fresh(entries'[k], now)
  BY <1>1, <1>2, ReplayFresh
<1>4. StateOK'
  <2>1. \A w \in Workers : task'[w] = Idle
    BY <1>1, <1>2
  <2> QED
    BY <1>1, <1>2, <1>3, <2>1 DEF StateOK
<1>5. TasksFit'
  BY <1>1, <1>2 DEF TasksFit
<1>6. ASSUME NEW k \in Keys PROVE KeyOK(k)'
  <2>1. \A w \in Workers : ~Waits(w, k)'
    BY <1>1, <1>2 DEF Waits
  <2>2. entries'[k] # NoEntry => Live(entries'[k], now)
    BY <1>3 DEF Fresh
  <2>3. ASSUME k \notin EmptyKeys, NEW t \in now .. MaxClock
        PROVE  Follows(Replay(file, t)[k], entries'[k])
    <3>1. t \in 0 .. MaxClock /\ now <= t
      BY <1>2
    <3> QED
      BY <1>1, <1>2, <2>3, <3>1, ReplayFollows
  <2> QED
    BY <1>1, <2>1, <2>2, <2>3 DEF KeyOK
<1> QED
  BY <1>4, <1>5, <1>6 DEF SInv

(* A process that starts with an empty file. *)
LEMMA ServiceInit == Init => SInv
<1> SUFFICES ASSUME Init PROVE SInv
  OBVIOUS
<1>1. /\ entries = Empty /\ now = 0 /\ file = <<>> /\ up = TRUE
      /\ task = [w \in Workers |-> Idle] /\ unsure = {}
  BY DEF Init
<1>2. /\ MaxClock \in Nat /\ <<>> \in Seq(Command) /\ up \in BOOLEAN
      /\ entries \in [Keys -> Entry \cup {NoEntry}]
      /\ task \in [Workers -> Task \cup {Idle}] /\ \A w \in Workers : task[w] = Idle
  BY <1>1, KvServiceAssumption DEF Empty
<1>3. StateOK
  BY <1>1, <1>2 DEF StateOK
<1>4. TasksFit
  BY <1>2 DEF TasksFit
<1>5. \A k \in Keys : KeyOK(k)
  <2> TAKE k \in Keys
  <2>1. \A w \in Workers : ~Waits(w, k)
    BY <1>2 DEF Waits
  <2>2. entries[k] = NoEntry /\ \A t : Replay(file, t)[k] = NoEntry
    BY <1>1, ReplayEmpty DEF Empty
  <2> QED
    BY <2>1, <2>2 DEF KeyOK, Follows
<1> QED
  BY <1>3, <1>4, <1>5 DEF SInv

(* The commands the handlers make. *)
LEMMA RequestKeeps ==
    ASSUME SInv, NEW w \in Workers, Requests(w)
    PROVE  SInv'
<1>1. ASSUME NEW k \in Keys, NEW v \in Writes, NEW ttl \in Ttls, HandleQuotaInit(w, k, v, ttl)
      PROVE  SInv'
  <2> DEFINE c == [op |-> "QUOTA_INIT", key |-> k, val |-> v, cond |-> "Always", ttl |-> ttl]
  <2>1. c \in Command /\ c.op # "DEL"
    BY DEF Command
  <2>2. Write(w, c)
    BY <1>1 DEF HandleQuotaInit
  <2> HIDE DEF c
  <2> QED
    BY <2>1, <2>2, WriteKeeps
<1>2. ASSUME NEW k \in Keys, NEW v \in Writes, NEW ttl \in Ttls, NEW cond \in WriteCondition,
             HandleKvSet(w, k, v, cond, ttl)
      PROVE  SInv'
  <2> DEFINE c == [op |-> "SET", key |-> k, val |-> v, cond |-> cond, ttl |-> ttl]
  <2>1. c \in Command /\ c.op # "DEL"
    BY DEF Command
  <2>2. Write(w, c)
    BY <1>2 DEF HandleKvSet
  <2> HIDE DEF c
  <2> QED
    BY <2>1, <2>2, WriteKeeps
<1>3. ASSUME NEW k \in Keys, NEW ttl \in Ttls, HandleKvExpire(w, k, ttl)
      PROVE  SInv'
  <2> DEFINE c == [op |-> "PEXPIRE", key |-> k, ttl |-> ttl]
  <2>1. c \in Command /\ c.op # "DEL"
    BY DEF Command
  <2>2. Write(w, c)
    BY <1>3 DEF HandleKvExpire
  <2> HIDE DEF c
  <2> QED
    BY <2>1, <2>2, WriteKeeps
<1>4. ASSUME NEW k \in Keys, NEW delta \in Deltas, NEW ttl \in Ttls, Incr(w, k, delta, ttl)
      PROVE  SInv'
  <2> DEFINE c == [op |-> "INCRBY", key |-> k, delta |-> delta, ttl |-> ttl]
  <2>1. c \in Command /\ c.op # "DEL"
    BY DEF Command
  <2>2. Write(w, c)
    BY <1>4 DEF Incr
  <2> HIDE DEF c
  <2> QED
    BY <2>1, <2>2, WriteKeeps
<1>5. ASSUME NEW k \in Keys, HandleKvGet(w, k) \/ HandleKvType(w, k)
      PROVE  SInv'
  BY <1>5, ReadKeeps DEF HandleKvGet, HandleKvType
<1>6. ASSUME NEW k \in Keys, HandleKvTtl(w, k)
      PROVE  SInv'
  <2> DEFINE ks == <<k, k>>
  <2>1. ks \in Seq(Keys) /\ ks # <<>> /\ Len(ks) = 2 /\ ks[2] = ks[1] /\ "TTL" \in Several
    BY DEF Several
  <2>2. Begin(w, "TTL", ks)
    BY <1>6 DEF HandleKvTtl
  <2> HIDE DEF ks
  <2> QED
    BY <2>1, <2>2, BeginKeeps
<1>7. ASSUME NEW keys \in Lists, HandleKvDel(w, keys) \/ HandleKvExists(w, keys)
      PROVE  SInv'
  <2>1. keys \in Seq(Keys) /\ keys # <<>>
    BY KvServiceAssumption
  <2>2. "DEL" \in Several /\ "EXISTS" \in Several /\ "DEL" # "TTL" /\ "EXISTS" # "TTL"
    BY DEF Several
  <2>3. CASE HandleKvDel(w, keys)
    BY <2>1, <2>2, <2>3, BeginKeeps DEF HandleKvDel
  <2>4. CASE HandleKvExists(w, keys)
    BY <2>1, <2>2, <2>4, BeginKeeps DEF HandleKvExists
  <2> QED
    BY <1>7, <2>3, <2>4
<1> QED
  BY <1>1, <1>2, <1>3, <1>4, <1>5, <1>6, <1>7 DEF Requests

(* The invariant is inductive. *)
LEMMA ServiceStep == SInv /\ [Next]_vars => SInv'
<1> SUFFICES ASSUME SInv, [Next]_vars PROVE SInv'
  OBVIOUS
<1>1. ASSUME NEW w \in Workers, Requests(w) PROVE SInv'
  BY <1>1, RequestKeeps
<1>2. ASSUME NEW w \in Workers, DelNext(w) PROVE SInv'
  BY <1>2, DelKeeps
<1>3. ASSUME NEW w \in Workers, ExistsNext(w) PROVE SInv'
  BY <1>3, ExistsKeeps
<1>4. ASSUME NEW w \in Workers, TtlNext(w) PROVE SInv'
  BY <1>4, TtlKeeps
<1>5. ASSUME NEW w \in Workers, AppendLine(w) PROVE SInv'
  BY <1>5, AppendKeeps
<1>6. ASSUME NEW w \in Workers, Finish(w) PROVE SInv'
  BY <1>6, FinishKeeps
<1>7. ASSUME NEW k \in Keys, Sweep(k) PROVE SInv'
  BY <1>7, SweepKeeps
<1>8. CASE Tick
  BY <1>8, TickKeeps
<1>9. CASE Kill
  BY <1>9, KillKeeps
<1>10. CASE Restart
  BY <1>10, RestartKeeps
<1>11. CASE UNCHANGED vars
  <2>1. /\ entries' = entries /\ now' = now /\ file' = file /\ up' = up
        /\ task' = task /\ unsure' = unsure
    BY <1>11 DEF vars
  <2>2. StateOK' /\ TasksFit'
    BY <2>1 DEF SInv, StateOK, TasksFit
  <2>3. \A k \in Keys : KeyOK(k)'
    BY <2>1 DEF SInv, KeyOK, Waits
  <2> QED
    BY <2>2, <2>3 DEF SInv
<1> QED
  BY <1>1, <1>2, <1>3, <1>4, <1>5, <1>6, <1>7, <1>8, <1>9, <1>10, <1>11 DEF Next

-----------------------------------------------------------------------------
(* What follows from the invariant *)

(* The worker holds a line. *)
Holds(w) == task[w] # Idle /\ task[w].line # NoLine

(* The lines not in the file yet, each once. *)
LEMMA UnwrittenLines ==
    ASSUME StateOK
    PROVE  /\ Unwritten \in Seq(Command)
           /\ \A i \in 1 .. Len(Unwritten) :
                 \E w \in Workers : Holds(w) /\ Unwritten[i] = task[w].line
           /\ \A w \in Workers : Holds(w) =>
                 \E i \in 1 .. Len(Unwritten) : Unwritten[i] = task[w].line
           /\ \A i, j \in 1 .. Len(Unwritten) : Unwritten[i] = Unwritten[j] => i = j
<1> DEFINE V == {v \in Workers : Busy(v) /\ task[v].line # NoLine}
           S == {task[w].line : w \in V}
           n == Cardinality(S)
           u == SetToSeq(S)
<1>1. S \subseteq Command
  <2>1. ASSUME NEW v \in V PROVE task[v].line \in Command
    <3>1. task[v] \in Task /\ task[v].line # NoLine
      BY <2>1 DEF StateOK, Busy
    <3> QED
      BY <3>1, TaskFields
  <2> QED
    BY <2>1
<1>2. IsFiniteSet(S)
  <2>1. IsFiniteSet(V)
    BY KvServiceAssumption, FS_Subset
  <2>2. [w \in V |-> task[w].line] \in Surjection(V, S)
    BY DEF Surjection
  <2> HIDE DEF V, S
  <2> QED
    BY <2>1, <2>2, FS_Surjection
<1>3. Unwritten = u
  BY DEF Unwritten
<1>4. \A x \in S : \E w \in Workers : Holds(w) /\ x = task[w].line
  BY DEF Holds, Busy
<1>5. \A w \in Workers : Holds(w) => task[w].line \in S
  BY DEF Holds, Busy
<1> HIDE DEF S
<1>6. n \in Nat /\ \E f : f \in Bijection(1 .. n, S)
  BY <1>2, FS_CardinalityType DEF ExistsBijection
<1>7. u \in [1 .. n -> S] /\ IsInjective(u)
  <2>1. \E f \in [1 .. n -> S] : IsInjective(f)
    BY <1>6 DEF Bijection, Injection
  <2> QED
    BY <2>1 DEF SetToSeq
<1>8. u \in Seq(Command) /\ Len(u) = n
  BY <1>1, <1>6, <1>7
<1>9. \A x \in S : \E i \in 1 .. n : u[i] = x
  <2>1. IsFiniteSet(1 .. n) /\ Cardinality(1 .. n) = n
    BY <1>6, FS_Interval
  <2>2. u \in Injection(1 .. n, S)
    BY <1>7 DEF Injection
  <2> DEFINE D == 1 .. n
  <2>3. Cardinality(D) = Cardinality(S) /\ u \in Injection(D, S)
    BY <2>1, <2>2
  <2> HIDE DEF D, u
  <2>4. u \in Surjection(D, S)
    BY <1>2, <2>3, FS_Injection
  <2> QED
    BY <2>4 DEF Surjection, D
<1> HIDE DEF u, n
<1>10. \A i, j \in 1 .. n : u[i] = u[j] => i = j
  BY <1>7 DEF IsInjective
<1> QED
  BY <1>3, <1>4, <1>5, <1>7, <1>8, <1>9, <1>10

(* A restart now, with the lines the workers still hold, brings the keys back. *)
LEMMA InvariantSurvives == SInv => LiveKeysSurvive
<1> SUFFICES ASSUME SInv, up, NEW k \in Keys, k \notin unsure, k \notin EmptyKeys
             PROVE  Follows(Replay(file \o Unwritten, now)[k], entries[k])
  BY DEF LiveKeysSurvive, Follows
<1> DEFINE u == Unwritten
           b == Replay(file, now)[k]
<1>0. /\ StateOK /\ KeyOK(k) /\ k \in Keys /\ file \in Seq(Command)
      /\ now \in 0 .. MaxClock /\ now \in now .. MaxClock
  BY KvServiceAssumption DEF SInv, StateOK
<1>1. /\ u \in Seq(Command)
      /\ \A i \in 1 .. Len(u) : \E w \in Workers : Holds(w) /\ u[i] = task[w].line
      /\ \A w \in Workers : Holds(w) => \E i \in 1 .. Len(u) : u[i] = task[w].line
      /\ \A i, j \in 1 .. Len(u) : u[i] = u[j] => i = j
  BY <1>0, UnwrittenLines
<1>2. /\ \A v, w \in Workers : Waits(v, k) /\ Waits(w, k) => v = w
      /\ (\A w \in Workers : ~Waits(w, k)) => Follows(b, entries[k])
      /\ \A w \in Workers : Waits(w, k) => Follows(Perform(b, now, task[w].line), entries[k])
  BY <1>0 DEF KeyOK
<1>3. \A w \in Workers : Waits(w, k) <=> Holds(w) /\ task[w].line.key = k
  BY DEF Waits, Holds
<1> HIDE DEF u
<1>4. /\ (\A i \in 1 .. Len(u) : u[i].key # k) => Replay(file \o u, now)[k] = b
      /\ \A i \in 1 .. Len(u) :
            (\A j \in 1 .. Len(u) : u[j].key = k <=> j = i)
                => Replay(file \o u, now)[k] = Perform(b, now, u[i])
  <2>1. /\ file \in Seq(Command) /\ u \in Seq(Command)
        /\ now \in 0 .. MaxClock /\ k \in Keys \ EmptyKeys
    BY <1>0, <1>1
  <2> HIDE DEF b
  <2>2. b = Replay(file, now)[k]
    BY DEF b
  <2>3. QED
    BY ONLY <2>1, <2>2, ReplayMore
<1> HIDE DEF b
<1>5. CASE \A w \in Workers : ~Waits(w, k)
  <2>1. \A i \in 1 .. Len(u) : u[i].key # k
    BY <1>1, <1>3, <1>5
  <2> QED
    BY <1>2, <1>4, <1>5, <2>1 DEF u
<1>6. ASSUME NEW w \in Workers, Waits(w, k)
      PROVE  Follows(Replay(file \o Unwritten, now)[k], entries[k])
  <2>1. PICK i \in 1 .. Len(u) : u[i] = task[w].line
    BY <1>1, <1>3, <1>6
  <2>2. ASSUME NEW j \in 1 .. Len(u) PROVE u[j].key = k <=> j = i
    <3>1. CASE j = i
      BY <1>3, <1>6, <2>1, <3>1
    <3>2. CASE u[j].key = k
      <4>1. PICK v \in Workers : Holds(v) /\ u[j] = task[v].line
        BY <1>1
      <4>2. v = w
        BY <1>2, <1>3, <1>6, <3>2, <4>1
      <4> QED
        BY <1>1, <2>1, <3>2, <4>1, <4>2
    <3> QED
      BY <3>1, <3>2
  <2>3. Replay(file \o u, now)[k] = Perform(b, now, u[i])
    BY <1>4, <2>2
  <2> QED
    BY <1>2, <1>6, <2>1, <2>3 DEF u
<1> QED
  BY <1>5, <1>6

(* The last key a worker has called the store for. *)
LEMMA InvariantTyped == SInv => TypeOK
<1> SUFFICES ASSUME SInv PROVE TypeOK
  OBVIOUS
<1>1. ASSUME NEW w \in Workers, Busy(w)
      PROVE  /\ Len(task[w].out) <= Len(task[w].keys)
             /\ task[w].line # NoLine =>
                   task[w].line.key = Last(<<task[w].keys[1]>> \o SubSeq(task[w].keys, 1, Len(task[w].out)))
  <2> DEFINE r == task[w]
             ks == r.keys
             n == Len(r.out)
             h == <<ks[1]>>
             t == SubSeq(ks, 1, n)
  <2>1. r \in Task /\ Shape(r)
    BY <1>1 DEF SInv, StateOK, Busy
  <2>2. ks \in Seq(Keys) /\ r.out \in Seq(BOOLEAN \cup Int) /\ n \in Nat /\ ks # <<>>
    BY <2>1, TaskFields DEF Shape
  <2>3. n <= Len(ks)
    BY <2>1 DEF Shape
  <2>4. Len(ks) \in Nat /\ Len(ks) >= 1 /\ ks[1] \in Keys
    BY <2>2
  <2>5. t \in Seq(Keys) /\ Len(t) = n /\ \A i \in 1 .. n : t[i] = ks[i]
    BY <2>2, <2>3, <2>4
  <2>6. h \in Seq(Keys) /\ Len(h) = 1 /\ h[1] = ks[1]
    BY <2>4
  <2> HIDE DEF h, t, ks
  <2>7. /\ Len(h \o t) = n + 1
        /\ n = 0 => (h \o t)[n + 1] = ks[1]
        /\ n > 0 => (h \o t)[n + 1] = ks[n]
    <3> DEFINE m == n
    <3>1. m \in Nat /\ Len(t) = m /\ \A i \in 1 .. m : t[i] = ks[i]
      BY <2>2, <2>5
    <3> HIDE DEF n, m
    <3>0. /\ Len(h \o t) = Len(h) + Len(t)
          /\ \A i \in 1 .. Len(h) + Len(t) :
                (h \o t)[i] = IF i <= Len(h) THEN h[i] ELSE t[i - Len(h)]
      <4>1. h \in Seq(Keys) /\ t \in Seq(Keys)
        BY <2>5, <2>6
      <4> QED
        BY <4>1, ConcatProperties
    <3>2. Len(h \o t) = m + 1
      BY <2>6, <3>0, <3>1
    <3>3. m = 0 => (h \o t)[m + 1] = ks[1]
      BY <2>6, <3>0, <3>1
    <3>4. ASSUME m > 0 PROVE (h \o t)[m + 1] = ks[m]
      <4>1. m + 1 \in 1 .. Len(h) + Len(t) /\ m + 1 > Len(h)
        BY <2>6, <3>1, <3>4
      <4>2. (h \o t)[m + 1] = t[m + 1 - Len(h)]
        BY <2>6, <3>0, <3>1, <4>1
      <4>3. m + 1 - Len(h) = m /\ m \in 1 .. m
        BY <2>6, <3>1, <3>4
      <4> QED
        BY <3>1, <4>2, <4>3
    <3> QED
      BY <3>2, <3>3, <3>4 DEF m
  <2>8. ASSUME r.line # NoLine PROVE r.line.key = Last(h \o t)
    <3>1. Last(h \o t) = (h \o t)[n + 1]
      BY <2>7 DEF Last
    <3>2. CASE r.op \notin Several
      <4>1. n = 0 /\ r.line.key = ks[1]
        BY <2>1, <2>2, <3>2 DEF Shape, ks
      <4> QED
        BY <2>7, <3>1, <4>1
    <3>3. CASE r.op \in Several
      <4>1. r.out # <<>> /\ r.line.key = ks[n]
        BY <2>1, <2>8, <3>3 DEF Shape, Several, ks
      <4>2. n > 0
        BY <2>2, <4>1
      <4> QED
        BY <2>7, <3>1, <4>1, <4>2
    <3> QED
      BY <3>2, <3>3
  <2> QED
    BY <2>3, <2>8 DEF h, t, ks
<1> QED
  BY <1>1 DEF SInv, StateOK, TypeOK

(* Answers that fit call by call fit when they are counted. *)
LEMMA InvariantFits == SInv => AnswersFit
<1> SUFFICES ASSUME SInv, NEW w \in Workers, Finished(w)
             PROVE  LET r == task[w]
                    IN  /\ r.op = "EXISTS" =>
                              /\ Count(r.out) <= Among(r.keys, r.seen.live)
                              /\ Count(r.out) >= Among(r.keys, Keys \ r.seen.gone)
                        /\ r.op = "DEL" =>
                              /\ Count(r.out) <= Among(r.keys, r.seen.stored)
                              /\ ToSet(r.keys) \subseteq r.seen.gone
                        /\ r.op = "TTL" =>
                              \/ r.keys[1] \in r.seen.wrote
                              \/ r.out[1] < 0 /\ r.out[2] = r.out[1]
                              \/ /\ r.out[1] > 0
                                 /\ r.out[2] = -2 \/ r.out[2] \in 1 .. r.out[1] * MsPerSecond
  BY DEF AnswersFit
<1> DEFINE r == task[w]
           n == Len(r.out)
           yes == {i \in DOMAIN r.out : r.out[i]}
           in(S) == {i \in DOMAIN r.keys : r.keys[i] \in S}
<1>1. r \in Task /\ Shape(r) /\ r # Idle /\ n = Len(r.keys)
  BY DEF SInv, StateOK, Finished, Busy
<1>2. /\ r.keys \in Seq(Keys) /\ r.out \in Seq(BOOLEAN \cup Int) /\ n \in Nat
      /\ DOMAIN r.out = 1 .. n /\ DOMAIN r.keys = 1 .. n
  BY <1>1, TaskFields
<1>3. r.op \in Several => Fits(r, entries, now)
  BY <1>1 DEF SInv, TasksFit
<1>4. IsFiniteSet(1 .. n)
  BY <1>2, FS_Interval
<1>5. ASSUME NEW A, NEW B, A \subseteq B, B \subseteq 1 .. n PROVE Cardinality(A) <= Cardinality(B)
  BY <1>4, <1>5, FS_Subset
<1>6. /\ Count(r.out) = Cardinality(yes)
      /\ \A S : Among(r.keys, S) = Cardinality(in(S))
  BY DEF Count, Among
<1>7. yes \subseteq 1 .. n /\ \A S : in(S) \subseteq 1 .. n
  BY <1>2
<1>8. ASSUME r.op = "EXISTS"
      PROVE  /\ Count(r.out) <= Among(r.keys, r.seen.live)
             /\ Count(r.out) >= Among(r.keys, Keys \ r.seen.gone)
  <2>1. /\ r.out \in Seq(BOOLEAN)
        /\ \A i \in 1 .. n : IF r.out[i] THEN r.keys[i] \in r.seen.live ELSE r.keys[i] \in r.seen.gone
    BY <1>1, <1>3, <1>8 DEF Shape, Fits, Several
  <2>2. yes \subseteq in(r.seen.live)
    BY <1>2, <2>1
  <2>3. in(Keys \ r.seen.gone) \subseteq yes
    BY <1>2, <2>1
  <2> DEFINE A == in(r.seen.live)
             B == in(Keys \ r.seen.gone)
  <2>4. A \subseteq 1 .. n /\ B \subseteq 1 .. n
    BY <1>7
  <2>5. /\ Count(r.out) = Cardinality(yes) /\ Among(r.keys, r.seen.live) = Cardinality(A)
        /\ Among(r.keys, Keys \ r.seen.gone) = Cardinality(B)
    BY <1>6
  <2>6. Cardinality(yes) \in Nat /\ Cardinality(A) \in Nat /\ Cardinality(B) \in Nat
    BY <1>4, <1>7, <2>4, FS_Subset, FS_CardinalityType
  <2> HIDE DEF yes, A, B, n
  <2>7. Cardinality(yes) <= Cardinality(A)
    BY <1>5, <2>2, <2>4 DEF A
  <2>8. Cardinality(B) <= Cardinality(yes)
    BY <1>5, <1>7, <2>3 DEF B
  <2> QED
    BY <2>5, <2>6, <2>7, <2>8
<1>9. ASSUME r.op = "DEL"
      PROVE  /\ Count(r.out) <= Among(r.keys, r.seen.stored)
             /\ ToSet(r.keys) \subseteq r.seen.gone
  <2>1. \A i \in 1 .. n : (r.out[i] => r.keys[i] \in r.seen.stored) /\ r.keys[i] \in r.seen.gone
    BY <1>1, <1>3, <1>9 DEF Fits, Several
  <2>2. yes \subseteq in(r.seen.stored)
    BY <1>2, <2>1
  <2>3. ToSet(r.keys) \subseteq r.seen.gone
    BY <1>2, <2>1 DEF ToSet
  <2> DEFINE A == in(r.seen.stored)
  <2>4. A \subseteq 1 .. n /\ Count(r.out) = Cardinality(yes) /\ Among(r.keys, r.seen.stored) = Cardinality(A)
    BY <1>6, <1>7
  <2> HIDE DEF yes, A, n
  <2>5. Cardinality(yes) <= Cardinality(A)
    BY <1>5, <2>2, <2>4 DEF A
  <2> QED
    BY <2>3, <2>4, <2>5
<1>10. ASSUME r.op = "TTL"
       PROVE  \/ r.keys[1] \in r.seen.wrote
              \/ r.out[1] < 0 /\ r.out[2] = r.out[1]
              \/ /\ r.out[1] > 0
                 /\ r.out[2] = -2 \/ r.out[2] \in 1 .. r.out[1] * MsPerSecond
  <2>1. Len(r.out) = 2
    BY <1>1, <1>10 DEF Shape
  <2> QED
    BY <1>3, <1>10, <2>1 DEF Fits, Several
<1> QED
  BY <1>8, <1>9, <1>10

(***************************************************************************)
(* The key-value requests, the clock, the sweep, kills and restarts keep   *)
(* the invariant that ties the entries to the file and the lines on the    *)
(* way to it, and the answers of the requests under way to what they saw.  *)
(***************************************************************************)
THEOREM ServiceInvariance == Spec => []SInv
BY ServiceInit, ServiceStep, PTL DEF Spec

(***************************************************************************)
(* Entries stay 64-bit numbers with a deadline, live and on replay, and    *)
(* the line a worker is about to append is that of the key it has just     *)
(* changed, in the middle of a DEL of several keys too.                    *)
(***************************************************************************)
THEOREM ServiceTyped == Spec => []TypeOK
BY InvariantTyped, ServiceInvariance, PTL

(***************************************************************************)
(* A restart at any moment brings back every key, but the empty one, that  *)
(* has not expired and was not changed by two workers at once since it was *)
(* last written outright, with its value and a deadline that is not        *)
(* earlier: for any number of workers, keys, times to live, kills and      *)
(* ticks of the clock.                                                     *)
(***************************************************************************)
THEOREM KeysSurvive == Spec => []LiveKeysSurvive
BY InvariantSurvives, ServiceInvariance, PTL

(***************************************************************************)
(* The counts of EXISTS and DEL lie between what was there at every and at *)
(* some moment of the request, and the seconds and milliseconds of a TTL   *)
(* answer agree unless the key was written in between.                     *)
(***************************************************************************)
THEOREM AnswersAreTrue == Spec => []AnswersFit
BY InvariantFits, ServiceInvariance, PTL

-----------------------------------------------------------------------------
(***************************************************************************)
(* The shard: its entries stay entries, and with its lazy erasure and its  *)
(* sweep it implements the ideal map of TtlMap.  Only KvAssumption is used *)
(* here; times to live may be so large that deadlines wrap around.         *)
(***************************************************************************)

(* Deadlines are natural numbers. *)
LEMMA DeadlineType ==
    ASSUME NEW t \in Nat, NEW ttl \in 0 .. MaxU64
    PROVE  AddU64(t, ttl) \in Nat /\ Deadline(t, ttl) \in Nat
BY WordAssumption DEF AddU64, Deadline

(* Every key-value operation leaves an entry or none. *)
LEMMA OperationType ==
    ASSUME NEW e \in Entry \cup {NoEntry}, NEW t \in Nat
    PROVE  /\ Lookup(e, t) \in Entry \cup {NoEntry}
           /\ \A v \in Writes, cond \in WriteCondition, ttl \in Ttls :
                 AfterSet(e, t, v, cond, ttl) \in Entry \cup {NoEntry}
           /\ \A ttl \in Ttls : AfterExpire(e, t, ttl) \in Entry \cup {NoEntry}
           /\ AfterPersist(e, t) \in Entry \cup {NoEntry}
           /\ \A delta \in Deltas, ttl \in Ttls : AfterIncrBy(e, t, delta, ttl) \in Entry
<1>1. Lookup(e, t) \in Entry \cup {NoEntry}
  BY DEF Lookup
<1>2. ASSUME NEW v \in Writes, NEW cond \in WriteCondition, NEW ttl \in Ttls
      PROVE  AfterSet(e, t, v, cond, ttl) \in Entry \cup {NoEntry}
  <2>1. v \in Value /\ Deadline(t, ttl) \in Nat
    BY KvAssumption, DeadlineType
  <2>2. [num |-> v.num, clean |-> v.clean, expire_at |-> Deadline(t, ttl)] \in Entry
    BY <2>1 DEF Value, Entry
  <2>3. QED
    BY <1>1, <2>2 DEF AfterSet
<1>3. ASSUME NEW ttl \in Ttls
      PROVE  AfterExpire(e, t, ttl) \in Entry \cup {NoEntry}
  BY KvAssumption, DeadlineType DEF AfterExpire, Live, Entry
<1>4. AfterPersist(e, t) \in Entry \cup {NoEntry}
  BY DEF AfterPersist, Live, Entry
<1>5. ASSUME NEW delta \in Deltas, NEW ttl \in Ttls
      PROVE  AfterIncrBy(e, t, delta, ttl) \in Entry
  <2>1. delta \in MinI64 .. MaxI64 /\ Deadline(t, ttl) \in Nat
    BY KvAssumption, DeadlineType
  <2>2. MinI64 .. MaxI64 \subseteq Number
    BY WordAssumption DEF Number, MinI64
  <2>3. CASE ~Live(e, t)
    BY <2>1, <2>2, <2>3 DEF AfterIncrBy, Entry
  <2>4. CASE Live(e, t)
    <3>1. e \in Entry
      BY <2>4 DEF Live
    <3>2. CASE IncrFails(e, delta)
      BY <2>4, <3>1, <3>2 DEF AfterIncrBy
    <3>3. CASE ~IncrFails(e, delta)
      <4>1. e.num + delta \in Number
        BY <3>3, <2>2 DEF IncrFails
      <4>2. QED
        BY <2>4, <3>1, <3>3, <4>1 DEF AfterIncrBy, Entry
    <3>4. QED
      BY <3>2, <3>3
  <2>5. QED
    BY <2>3, <2>4
<1>6. QED
  BY <1>1, <1>2, <1>3, <1>4, <1>5

-----------------------------------------------------------------------------
(* The clock and the sweep's clock are numbers. *)
LEMMA ClockType == ShardTypeOK => now \in Nat
BY KvAssumption DEF ShardTypeOK

(* A request leaves an entry or none under its key, and a proper answer. *)
LEMMA RequestType ==
    ASSUME ShardTypeOK, NEW k \in Keys, NEW e \in Entry \cup {NoEntry}, Leave(k, e), reply' \in Reply
    PROVE  ShardTypeOK'
BY DEF ShardTypeOK, Leave

(* An answer is a reply. *)
LEMMA ReplyType ==
    ASSUME NEW op \in {"set", "get", "del", "expire", "persist", "pttl", "incr"},
           NEW k \in Keys, NEW ok \in BOOLEAN, NEW val \in Int, Answer(op, k, ok, val)
    PROVE  reply' \in Reply
<1>1. reply' = [op |-> op, key |-> k, ok |-> ok, val |-> val]
  BY DEF Answer
<1>2. QED
  BY <1>1 DEF Reply

(* One case per operation, and the sweep. *)
LEMMA ShardStep == ShardTypeOK /\ [ShardNext]_shardVars => ShardTypeOK'
<1> SUFFICES ASSUME ShardTypeOK, [ShardNext]_shardVars PROVE ShardTypeOK'
  OBVIOUS
<1>0. now \in Nat
  BY ClockType
<1>1. CASE ShardTick
  BY <1>1, KvAssumption DEF ShardTick, ShardTypeOK
<1>2. CASE PurgeBegin
  BY <1>2, <1>0 DEF PurgeBegin, ShardTypeOK
<1>3. CASE PurgeShard
  BY <1>3, <1>0 DEF PurgeShard, ShardTypeOK, NotPurging
<1>4. ASSUME NEW k \in Keys,
             \/ Get(k) \/ Del(k) \/ Persist(k) \/ Pttl(k)
             \/ \E ttl \in Ttls : Expire(k, ttl)
             \/ \E ttl \in Ttls, delta \in Deltas : IncrBy(k, delta, ttl)
             \/ \E ttl \in Ttls, v \in Writes, cond \in WriteCondition : Set(k, v, cond, ttl)
      PROVE  ShardTypeOK'
  <2> DEFINE e == entries[k]
             found == Lookup(e, now)
  <2>0. e \in Entry \cup {NoEntry} /\ found \in Entry \cup {NoEntry}
    BY <1>0, OperationType DEF ShardTypeOK
  <2>e. ASSUME NEW x \in Entry
        PROVE  x.num \in Int /\ x.expire_at \in Int /\ x # NoEntry
    BY NoEntryAssumption, WordAssumption DEF Entry, Number, MinI64
  <2>1. CASE Get(k)
    <3>1. (IF found = NoEntry THEN 0 ELSE found.num) \in Int
      BY <2>0, <2>e
    <3>2. reply' \in Reply
      BY <2>1, <3>1, ReplyType DEF Get
    <3>3. QED
      BY <2>0, <2>1, <3>2, RequestType DEF Get
  <2>2. CASE Del(k)
    <3>1. reply' \in Reply
      BY <2>2 DEF Del, Answer, Reply
    <3>2. QED
      BY <2>2, <3>1, RequestType DEF Del
  <2>3. CASE Persist(k)
    <3>1. reply' \in Reply
      BY <2>3 DEF Persist, Answer, Reply
    <3>2. AfterPersist(e, now) \in Entry \cup {NoEntry}
      BY <2>0, <1>0, OperationType
    <3>3. QED
      BY <2>3, <3>1, <3>2, RequestType DEF Persist
  <2>4. CASE Pttl(k)
    <3>1. (IF found = NoEntry THEN -2 ELSE IF found.expire_at = 0 THEN -1
           ELSE found.expire_at - now) \in Int
      BY <1>0, <2>0, <2>e
    <3>2. reply' \in Reply
      BY <2>4, <3>1, ReplyType DEF Pttl
    <3>3. QED
      BY <2>0, <2>4, <3>2, RequestType DEF Pttl
  <2>5. ASSUME NEW ttl \in Ttls, Expire(k, ttl)
        PROVE  ShardTypeOK'
    <3>1. reply' \in Reply
      BY <2>5 DEF Expire, Answer, Reply, Live
    <3>2. AfterExpire(e, now, ttl) \in Entry \cup {NoEntry}
      BY <2>0, <1>0, OperationType
    <3>3. QED
      BY <2>5, <3>1, <3>2, RequestType DEF Expire
  <2>6. ASSUME NEW ttl \in Ttls, NEW delta \in Deltas, IncrBy(k, delta, ttl)
        PROVE  ShardTypeOK'
    <3> DEFINE fails == Live(e, now) /\ IncrFails(e, delta)
               after == AfterIncrBy(e, now, delta, ttl)
    <3>1. after \in Entry
      BY <2>0, <1>0, OperationType
    <3>2. (IF fails THEN 0 ELSE after.num) \in Int
      BY <3>1, <2>e
    <3>3. reply' \in Reply
      BY <2>6, <3>2, ReplyType DEF IncrBy
    <3>4. QED
      BY <2>6, <3>1, <3>3, RequestType DEF IncrBy
  <2>7. ASSUME NEW ttl \in Ttls, NEW v \in Writes, NEW cond \in WriteCondition,
               Set(k, v, cond, ttl)
        PROVE  ShardTypeOK'
    <3>1. reply' \in Reply
      BY <2>7 DEF Set, Answer, Reply
    <3>2. AfterSet(e, now, v, cond, ttl) \in Entry \cup {NoEntry}
      BY <2>0, <1>0, OperationType
    <3>3. QED
      BY <2>7, <3>1, <3>2, RequestType DEF Set
  <2>8. QED
    BY <1>4, <2>1, <2>2, <2>3, <2>4, <2>5, <2>6, <2>7
<1>5. CASE UNCHANGED shardVars
  BY <1>5 DEF shardVars, ShardTypeOK
<1>6. QED
  BY <1>1, <1>2, <1>3, <1>4, <1>5 DEF ShardNext

(***************************************************************************)
(* Entries stay entries whatever the clients and the sweep do: no counter  *)
(* leaves its range, and the sweep's clock is never ahead.                 *)
(***************************************************************************)
THEOREM ShardTyped == ShardSpec => []ShardTypeOK
<1>1. ShardInit => ShardTypeOK
  BY KvAssumption DEF ShardInit, ShardTypeOK, NotPurging, Reply
<1>2. QED
  BY <1>1, ShardStep, PTL DEF ShardSpec

-----------------------------------------------------------------------------
(***************************************************************************)
(* The refinement.  Deadlines that wrap around, now + ttl >= 2^64, are the *)
(* one way to tell the shard from the ideal map: such a key expires early. *)
(***************************************************************************)
NoWrap == \A ttl \in Ttls : MaxClock + ttl <= MaxU64

(* Without wrap-around, the deadline a request asks for is in the future. *)
LEMMA ExactDeadline ==
    ASSUME NoWrap, NEW t \in 0 .. MaxClock, NEW ttl \in Ttls
    PROVE  /\ ttl \in Nat
           /\ AddU64(t, ttl) = t + ttl
           /\ Deadline(t, ttl) = IF ttl = 0 THEN 0 ELSE t + ttl
<1>1. ttl \in Nat /\ t \in Nat /\ t + ttl <= MaxU64
  BY KvAssumption, WordAssumption DEF NoWrap
<1>2. QED
  BY <1>1, WordAssumption DEF AddU64, Deadline

(* What each operation does to the entry is what it does to what is seen. *)
LEMMA VisibleAfterOperation ==
    ASSUME NoWrap, NEW e \in Entry \cup {NoEntry}, NEW t \in 0 .. MaxClock
    PROVE  LET seen == Lookup(e, t)
           IN  /\ Lookup(seen, t) = seen
               /\ \A ttl \in Ttls :
                     Lookup(AfterExpire(e, t, ttl), t) =
                         IF seen = NoEntry \/ ttl = 0 THEN NoEntry
                         ELSE [seen EXCEPT !.expire_at = t + ttl]
               /\ \A ttl \in Ttls :
                     Lookup(AfterExpire(e, t, ttl), t) = AfterExpire(e, t, ttl)
               /\ Lookup(AfterPersist(e, t), t) = AfterPersist(e, t)
               /\ Lookup(AfterPersist(e, t), t) =
                      IF seen = NoEntry THEN NoEntry ELSE [seen EXCEPT !.expire_at = 0]
               /\ \A num, clean : \A ttl \in Ttls :
                     LET new == [num |-> num, clean |-> clean, expire_at |-> Deadline(t, ttl)]
                     IN  new \in Entry => Lookup(new, t) = new
<1> DEFINE seen == Lookup(e, t)
<1>0. t \in Nat /\ NoEntry \notin Entry
  BY KvAssumption, NoEntryAssumption
<1>1. Lookup(seen, t) = seen
  BY DEF Lookup
<1>2. ASSUME NEW ttl \in Ttls
      PROVE  Lookup(AfterExpire(e, t, ttl), t) =
                 IF seen = NoEntry \/ ttl = 0 THEN NoEntry
                 ELSE [seen EXCEPT !.expire_at = t + ttl]
  <2>1. ttl \in Nat /\ AddU64(t, ttl) = t + ttl
    BY ExactDeadline
  <2>2. CASE seen = NoEntry \/ ttl = 0
    BY <1>0, <2>1, <2>2 DEF Lookup, AfterExpire, Live
  <2>3. CASE ~(seen = NoEntry \/ ttl = 0)
    <3>1. e \in Entry /\ Live(e, t) /\ seen = e /\ ttl > 0
      BY <2>1, <2>3 DEF Lookup, Live
    <3>2. AfterExpire(e, t, ttl) = [e EXCEPT !.expire_at = t + ttl]
      BY <2>1, <3>1 DEF AfterExpire
    <3>3. [e EXCEPT !.expire_at = t + ttl] \in Entry
      BY <1>0, <2>1, <3>1 DEF Entry
    <3>4. ~IsExpired([e EXCEPT !.expire_at = t + ttl], t)
      BY <1>0, <2>1, <3>1 DEF IsExpired, Entry
    <3>5. QED
      BY <1>0, <2>3, <3>1, <3>2, <3>3, <3>4 DEF Lookup, Live
  <2>4. QED
    BY <2>2, <2>3
<1>3. Lookup(AfterPersist(e, t), t) =
          IF seen = NoEntry THEN NoEntry ELSE [seen EXCEPT !.expire_at = 0]
  <2>1. CASE seen = NoEntry
    BY <2>1, <1>0 DEF Lookup, AfterPersist, Live
  <2>2. CASE seen # NoEntry
    <3>1. e \in Entry /\ Live(e, t) /\ seen = e
      BY <2>2 DEF Lookup, Live
    <3>2. [e EXCEPT !.expire_at = 0] \in Entry /\ ~IsExpired([e EXCEPT !.expire_at = 0], t)
      BY <3>1 DEF Entry, IsExpired
    <3>3. QED
      BY <1>0, <2>2, <3>1, <3>2 DEF Lookup, Live, AfterPersist
  <2>3. QED
    BY <2>1, <2>2
<1>4. ASSUME NEW num, NEW clean, NEW ttl \in Ttls,
             [num |-> num, clean |-> clean, expire_at |-> Deadline(t, ttl)] \in Entry
      PROVE  LET new == [num |-> num, clean |-> clean, expire_at |-> Deadline(t, ttl)]
             IN  Lookup(new, t) = new
  <2> DEFINE new == [num |-> num, clean |-> clean, expire_at |-> Deadline(t, ttl)]
  <2>1. ttl \in Nat /\ Deadline(t, ttl) = IF ttl = 0 THEN 0 ELSE t + ttl
    BY ExactDeadline
  <2>2. new # NoEntry
    BY <1>0, <1>4
  <2>3. new.expire_at = 0 \/ new.expire_at > t
    BY <1>0, <2>1
  <2>4. ~IsExpired(new, t)
    BY <1>0, <2>1, <2>3 DEF IsExpired
  <2>5. QED
    BY <2>2, <2>4 DEF Lookup, Live
<1>5. ASSUME NEW ttl \in Ttls
      PROVE  Lookup(AfterExpire(e, t, ttl), t) = AfterExpire(e, t, ttl)
  <2>1. ttl \in Nat /\ AddU64(t, ttl) = t + ttl
    BY ExactDeadline
  <2>2. CASE Live(e, t) /\ ttl > 0
    <3>1. e \in Entry /\ AfterExpire(e, t, ttl) = [e EXCEPT !.expire_at = t + ttl]
      BY <2>1, <2>2 DEF AfterExpire, Live
    <3>2. ~IsExpired([e EXCEPT !.expire_at = t + ttl], t)
      BY <1>0, <2>1, <2>2, <3>1 DEF IsExpired, Entry
    <3>3. QED
      BY <3>1, <3>2 DEF Lookup, Live
  <2>3. CASE ~(Live(e, t) /\ ttl > 0)
    BY <2>3 DEF AfterExpire, Lookup
  <2>4. QED
    BY <2>2, <2>3
<1>6. Lookup(AfterPersist(e, t), t) = AfterPersist(e, t)
  <2>1. CASE Live(e, t)
    <3>1. e \in Entry /\ AfterPersist(e, t) = [e EXCEPT !.expire_at = 0]
      BY <2>1 DEF AfterPersist, Live
    <3>2. ~IsExpired([e EXCEPT !.expire_at = 0], t)
      BY <3>1 DEF IsExpired, Entry
    <3>3. QED
      BY <3>1, <3>2 DEF Lookup, Live
  <2>2. CASE ~Live(e, t)
    BY <2>2 DEF AfterPersist, Lookup
  <2>3. QED
    BY <2>1, <2>2
<1>7. QED
  BY <1>1, <1>2, <1>3, <1>4, <1>5, <1>6

(* What a client sees of the shard. *)
Visible == [k \in Keys |-> Lookup(entries[k], now)]

(* The expired entries that are still stored. *)
Remains == {k \in Keys : entries[k] # NoEntry /\ IsExpired(entries[k], now)}

(***************************************************************************)
(* A request changes what is seen of its key, and of no other, and it does *)
(* not leave an expired entry under its key.                               *)
(***************************************************************************)
LEMMA VisibleAfterRequest ==
    ASSUME ShardTypeOK, NEW k \in Keys, NEW e, Leave(k, e)
    PROVE  /\ Visible' = [Visible EXCEPT ![k] = Lookup(e, now)]
           /\ now' = now
           /\ Lookup(e, now) = e => Remains' = Remains \ {k}
<1>1. Visible' = [Visible EXCEPT ![k] = Lookup(e, now)] /\ now' = now
  BY DEF ShardTypeOK, Leave, Visible
<1>2. ASSUME Lookup(e, now) = e PROVE Remains' = Remains \ {k}
  <2>1. ~(e # NoEntry /\ IsExpired(e, now))
    BY <1>2 DEF Lookup, Live
  <2>2. entries' = [entries EXCEPT ![k] = e] /\ DOMAIN entries = Keys
    BY DEF ShardTypeOK, Leave
  <2>3. QED
    BY <1>1, <2>1, <2>2 DEF Remains
<1>3. QED
  BY <1>1, <1>2

(* The request touches the remains of its key. *)
LEMMA RequestTouches ==
    ASSUME ShardTypeOK, NEW k \in Keys, NEW e, Leave(k, e), Lookup(e, now) = e
    PROVE  Ideal!Touch(k)
BY VisibleAfterRequest DEF Ideal!Touch, Remains

(* An entry erased by the sweep was not seen any more: its remains go. *)
LEMMA VisibleAfterSweep ==
    ShardTypeOK /\ PurgeShard =>
        /\ Visible' = Visible
        /\ UNCHANGED <<now, reply>>
        /\ \E gone \in SUBSET Remains : Remains' = Remains \ gone
<1> SUFFICES ASSUME ShardTypeOK, PurgeShard
             PROVE  Visible' = Visible /\ \E gone \in SUBSET Remains : Remains' = Remains \ gone
  BY DEF PurgeShard
<1>1. PICK gone \in Samples(PurgeCandidates, SampleLimit) :
          entries' = [k \in Keys |-> IF k \in gone THEN NoEntry ELSE entries[k]]
  BY DEF PurgeShard
<1>2. ASSUME NEW k \in Keys
      PROVE  /\ Lookup(entries'[k], now) = Lookup(entries[k], now)
             /\ k \in gone => k \in Remains
  <2>1. CASE k \in gone
    <3>1. entries[k] \in Entry /\ IsExpired(entries[k], purgeAt)
      BY <1>1, <2>1 DEF Samples, PurgeCandidates, ShardTypeOK
    <3>2. purgeAt \in Int /\ now \in Nat /\ purgeAt <= now /\ entries[k].expire_at \in Nat
      BY <3>1, KvAssumption DEF ShardTypeOK, Entry
    <3>3. IsExpired(entries[k], now)
      BY <3>1, <3>2 DEF IsExpired
    <3>4. QED
      BY <1>1, <2>1, <3>1, <3>3, NoEntryAssumption DEF Lookup, Live, Remains
  <2>2. CASE k \notin gone
    BY <1>1, <2>2
  <2>3. QED
    BY <2>1, <2>2
<1>3. gone \subseteq Keys
  BY <1>1 DEF Samples, PurgeCandidates
<1>4. gone \in SUBSET Remains
  BY <1>2, <1>3
<1>5. Remains' = Remains \ gone
  BY <1>1 DEF Remains, PurgeShard
<1>6. QED
  BY <1>2, <1>4, <1>5 DEF Visible, PurgeShard

(* A tick hides exactly the entries whose deadline it reaches; they remain. *)
LEMMA VisibleAfterTick ==
    ShardTypeOK /\ ShardTick =>
        LET due == {k \in Keys : Visible[k] # NoEntry /\ Visible[k].expire_at = now + 1}
        IN  /\ Visible' = [k \in Keys |-> IF k \in due THEN NoEntry ELSE Visible[k]]
            /\ Remains' = Remains \cup due
<1> DEFINE due == {k \in Keys : Visible[k] # NoEntry /\ Visible[k].expire_at = now + 1}
<1> SUFFICES ASSUME ShardTypeOK, ShardTick
             PROVE  /\ Visible' = [k \in Keys |-> IF k \in due THEN NoEntry ELSE Visible[k]]
                    /\ Remains' = Remains \cup due
  OBVIOUS
<1>1. ASSUME NEW k \in Keys
      PROVE  /\ Lookup(entries[k], now + 1) =
                    IF Visible[k] # NoEntry /\ Visible[k].expire_at = now + 1
                    THEN NoEntry ELSE Visible[k]
             /\ (entries[k] # NoEntry /\ IsExpired(entries[k], now + 1))
                    <=> (k \in Remains \/ k \in due)
  <2>1. now \in Nat /\ entries[k] \in Entry \cup {NoEntry}
    BY ClockType DEF ShardTypeOK
  <2>2. CASE entries[k] = NoEntry
    BY <2>2 DEF Visible, Lookup, Live, Remains
  <2>3. CASE entries[k] \in Entry
    <3>1. entries[k].expire_at \in Nat /\ entries[k] # NoEntry
      BY <2>3, NoEntryAssumption DEF Entry
    <3>2. QED
      BY <2>1, <3>1 DEF Visible, Lookup, Live, IsExpired, Remains
  <2>4. QED
    BY <2>1, <2>2, <2>3
<1>2. entries' = entries /\ now' = now + 1
  BY DEF ShardTick
<1>3. Visible' = [k \in Keys |-> IF k \in due THEN NoEntry ELSE Visible[k]]
  BY <1>1, <1>2 DEF Visible
<1>4. Remains' = Remains \cup due
  BY <1>1, <1>2 DEF Remains
<1>5. QED
  BY <1>3, <1>4

(***************************************************************************)
(* Every step of the shard is a step of the ideal map, or changes nothing  *)
(* of what is seen and of what remains.                                    *)
(***************************************************************************)
LEMMA StepRefines ==
    NoWrap /\ ShardTypeOK /\ [ShardNext]_shardVars => [Ideal!Next]_(Ideal!vars)
<1> SUFFICES ASSUME NoWrap, ShardTypeOK, [ShardNext]_shardVars
             PROVE  Ideal!Next \/ UNCHANGED <<Visible, now, Remains, reply>>
  BY DEF Ideal!vars, Visible, Remains
<1>0. now \in Nat /\ now \in 0 .. MaxClock /\ NoEntry \notin Entry
  BY ClockType, NoEntryAssumption DEF ShardTypeOK
<1>1. CASE ShardTick
  <2>1. Ideal!Advance
    BY <1>1, VisibleAfterTick DEF ShardTick, Ideal!Advance, Visible, Remains
  <2>2. QED
    BY <2>1 DEF Ideal!Next
<1>2. CASE PurgeBegin
  BY <1>2 DEF PurgeBegin, Visible, Remains
<1>3. CASE PurgeShard
  <2>1. Ideal!Reclaim
    BY <1>3, VisibleAfterSweep DEF Ideal!Reclaim, Visible, Remains
  <2>2. QED
    BY <2>1 DEF Ideal!Next
<1>4. ASSUME NEW k \in Keys,
             \/ Get(k) \/ Del(k) \/ Persist(k) \/ Pttl(k)
             \/ \E ttl \in Ttls : Expire(k, ttl)
             \/ \E ttl \in Ttls, delta \in Deltas : IncrBy(k, delta, ttl)
             \/ \E ttl \in Ttls, v \in Writes, cond \in WriteCondition : Set(k, v, cond, ttl)
      PROVE  Ideal!Next
  <2> DEFINE e == entries[k]
  <2>0. e \in Entry \cup {NoEntry} /\ Visible[k] = Lookup(e, now)
        /\ Visible \in [Keys -> Entry \cup {NoEntry}]
    BY <1>0, OperationType DEF ShardTypeOK, Visible
  <2>1. CASE Get(k)
    <3>1. Visible' = Visible /\ now' = now
      BY <2>0, <2>1, VisibleAfterRequest, VisibleAfterOperation, <1>0 DEF Get
    <3>0. Ideal!Touch(k)
      BY <2>0, <2>1, <1>0, VisibleAfterOperation, RequestTouches DEF Get
    <3>2. Ideal!Get(k)
      BY <2>0, <2>1, <3>0, <3>1 DEF Get, Answer, Ideal!Get, Ideal!Answer, Visible
    <3>3. QED
      BY <3>2 DEF Ideal!Next
  <2>2. CASE Del(k)
    <3>1. Visible' = [Visible EXCEPT ![k] = NoEntry] /\ now' = now
      BY <2>2, VisibleAfterRequest DEF Del, Lookup, Live
    <3>2. (e # NoEntry) = (Visible[k] # NoEntry \/ k \in Remains)
      BY <2>0 DEF Lookup, Live, Remains
    <3>0. Ideal!Touch(k)
      BY <2>2, RequestTouches DEF Del, Lookup, Live
    <3>3. Ideal!Del(k)
      BY <2>2, <3>0, <3>1, <3>2 DEF Del, Answer, Ideal!Del, Ideal!Answer, Visible, Remains
    <3>4. QED
      BY <3>3 DEF Ideal!Next
  <2>3. CASE Persist(k)
    <3>1. Visible' = [Visible EXCEPT ![k] = IF @ = NoEntry THEN NoEntry ELSE [@ EXCEPT !.expire_at = 0]]
          /\ now' = now
      BY <2>0, <2>3, VisibleAfterRequest, VisibleAfterOperation, <1>0 DEF Persist
    <3>2. (Live(e, now) /\ e.expire_at # 0) = (Visible[k] # NoEntry /\ Visible[k].expire_at # 0)
      BY <2>0 DEF Lookup, Live
    <3>0. Ideal!Touch(k)
      BY <2>0, <2>3, <1>0, VisibleAfterOperation, RequestTouches DEF Persist
    <3>3. Ideal!Persist(k)
      BY <2>3, <3>0, <3>1, <3>2 DEF Persist, Answer, Ideal!Persist, Ideal!Answer, Visible
    <3>4. QED
      BY <3>3 DEF Ideal!Next
  <2>4. CASE Pttl(k)
    <3>1. Visible' = Visible /\ now' = now
      BY <2>0, <2>4, VisibleAfterRequest, VisibleAfterOperation, <1>0 DEF Pttl
    <3>0. Ideal!Touch(k)
      BY <2>0, <2>4, <1>0, VisibleAfterOperation, RequestTouches DEF Pttl
    <3>2. Ideal!Pttl(k)
      BY <2>0, <2>4, <3>0, <3>1 DEF Pttl, Answer, Ideal!Pttl, Ideal!Answer, Visible
    <3>3. QED
      BY <3>2 DEF Ideal!Next
  <2>5. ASSUME NEW ttl \in Ttls, Expire(k, ttl)
        PROVE  Ideal!Next
    <3>1. Visible' = [Visible EXCEPT ![k] = IF @ = NoEntry \/ ttl = 0 THEN NoEntry
                                      ELSE [@ EXCEPT !.expire_at = now + ttl]]
          /\ now' = now
      BY <2>0, <2>5, VisibleAfterRequest, VisibleAfterOperation, <1>0 DEF Expire
    <3>2. Live(e, now) = (Visible[k] # NoEntry)
      BY <2>0 DEF Lookup, Live
    <3>0. Ideal!Touch(k)
      BY <2>0, <2>5, <1>0, VisibleAfterOperation, RequestTouches DEF Expire
    <3>3. Ideal!Expire(k, ttl)
      BY <2>5, <3>0, <3>1, <3>2 DEF Expire, Answer, Ideal!Expire, Ideal!Answer, Visible
    <3>4. QED
      BY <3>3 DEF Ideal!Next
  <2>6. ASSUME NEW ttl \in Ttls, NEW delta \in Deltas, IncrBy(k, delta, ttl)
        PROVE  Ideal!Next
    <3> DEFINE fails == Live(e, now) /\ IncrFails(e, delta)
               after == AfterIncrBy(e, now, delta, ttl)
    <3>0. after \in Entry /\ delta \in Int
      BY <2>0, <1>0, OperationType, KvAssumption, WordAssumption DEF MinI64
    <3>1. Visible' = [Visible EXCEPT ![k] = Lookup(after, now)] /\ now' = now
      BY <2>6, VisibleAfterRequest DEF IncrBy
    <3>2. reply' = [op |-> "incr", key |-> k, ok |-> ~fails, val |-> IF fails THEN 0 ELSE after.num]
      BY <2>6 DEF IncrBy, Answer
    <3>3. CASE Visible[k] = NoEntry
      <4>1. ~Live(e, now)
        BY <2>0, <3>3 DEF Lookup, Live
      <4>2. after = [num |-> delta, clean |-> TRUE, expire_at |-> Deadline(now, ttl)]
        BY <4>1 DEF AfterIncrBy
      <4>3. Lookup(after, now) = after
        BY <3>0, <4>2, VisibleAfterOperation, <2>0, <1>0
      <4>4. Deadline(now, ttl) = IF ttl = 0 THEN 0 ELSE now + ttl
        BY <1>0, ExactDeadline
      <4>5. Ideal!Put(k, [num |-> delta, clean |-> TRUE], ttl)
        BY <3>1, <4>2, <4>3, <4>4 DEF Ideal!Put, Ideal!DeadlineIn, Visible
      <4>6. Ideal!Answer("incr", k, TRUE, delta)
        <5>1. fails = FALSE /\ after.num = delta
          BY <4>1, <4>2
        <5>2. QED
          BY <3>2, <5>1 DEF Ideal!Answer
      <4>9. Ideal!Touch(k)
        BY <2>6, <4>3, RequestTouches DEF IncrBy
      <4>7. Ideal!IncrBy(k, delta, ttl)
        BY <3>1, <3>3, <4>5, <4>6, <4>9 DEF Ideal!IncrBy, Visible
      <4>8. QED
        BY <4>7 DEF Ideal!Next
    <3>4. CASE Visible[k] # NoEntry
      <4>1. Live(e, now) /\ e \in Entry /\ Visible[k] = e
        BY <2>0, <3>4 DEF Lookup, Live
      <4>2. CASE IncrFails(e, delta)
        <5>1. after = e /\ Lookup(after, now) = e
          BY <4>1, <4>2 DEF AfterIncrBy, Lookup
        <5>2. Visible' = Visible
          BY <2>0, <3>1, <4>1, <5>1
        <5>3. Ideal!Answer("incr", k, FALSE, 0)
          BY <3>2, <4>1, <4>2 DEF Ideal!Answer
        <5>4. \/ ~Visible[k].clean
              \/ Visible[k].num > MaxI64
              \/ Visible[k].num + delta \notin MinI64 .. MaxI64
          BY <4>1, <4>2 DEF IncrFails
        <5>0. Ideal!Touch(k)
          BY <2>6, <5>1, RequestTouches DEF IncrBy
        <5>5. Ideal!IncrBy(k, delta, ttl)
          BY <3>1, <3>4, <5>0, <5>2, <5>3, <5>4 DEF Ideal!IncrBy, Visible
        <5>6. QED
          BY <5>5 DEF Ideal!Next
      <4>3. CASE ~IncrFails(e, delta)
        <5>1. after = [e EXCEPT !.num = @ + delta]
          BY <4>1, <4>3 DEF AfterIncrBy
        <5>2. e.clean /\ e.num <= MaxI64 /\ e.num + delta \in MinI64 .. MaxI64
          BY <4>1, <4>3, WordAssumption DEF IncrFails, Entry, Number, MinI64
        <5>4. Lookup(after, now) = [e EXCEPT !.num = @ + delta]
          <6>1. after.expire_at = e.expire_at /\ after # NoEntry
            BY <1>0, <3>0, <4>1, <5>1 DEF Entry
          <6>2. QED
            BY <4>1, <5>1, <6>1 DEF Lookup, Live, IsExpired
        <5>5. Visible' = [Visible EXCEPT ![k].num = @ + delta]
          BY <2>0, <3>1, <4>1, <5>4
        <5>6. after.num = e.num + delta
          BY <4>1, <5>1 DEF Entry
        <5>7. Ideal!Answer("incr", k, TRUE, Visible[k].num + delta)
          BY <3>2, <4>1, <4>3, <5>6 DEF Ideal!Answer
        <5>0. Ideal!Touch(k)
          BY <2>6, <5>1, <5>4, RequestTouches DEF IncrBy
        <5>8. Ideal!IncrBy(k, delta, ttl)
          BY <3>1, <3>4, <4>1, <5>0, <5>2, <5>5, <5>7 DEF Ideal!IncrBy, Visible
        <5>9. QED
          BY <5>8 DEF Ideal!Next
      <4>4. QED
        BY <4>2, <4>3
    <3>5. QED
      BY <3>3, <3>4
  <2>7. ASSUME NEW ttl \in Ttls, NEW v \in Writes, NEW cond \in WriteCondition,
               Set(k, v, cond, ttl)
        PROVE  Ideal!Next
    <3> DEFINE refused == Refuses(cond, Lookup(e, now))
               new == [num |-> v.num, clean |-> v.clean, expire_at |-> Deadline(now, ttl)]
               allowed == CASE cond = "Always"    -> TRUE
                            [] cond = "IfAbsent"  -> Visible[k] = NoEntry
                            [] cond = "IfPresent" -> Visible[k] # NoEntry
    <3>0. allowed = ~refused
      BY <2>0 DEF Refuses, WriteCondition
    <3>1. /\ Visible' = [Visible EXCEPT ![k] = Lookup(AfterSet(e, now, v, cond, ttl), now)]
          /\ now' = now
      BY <2>7, VisibleAfterRequest DEF Set
    <3>2. Ideal!Answer("set", k, allowed, 0)
      BY <2>7, <3>0 DEF Set, Answer, Ideal!Answer
    <3>3. /\ IF allowed THEN Ideal!Put(k, v, ttl) ELSE UNCHANGED Visible
          /\ Ideal!Touch(k)
      <4>1. CASE refused
        <5>1. Lookup(AfterSet(e, now, v, cond, ttl), now) = Visible[k]
          BY <2>0, <4>1, VisibleAfterOperation, <1>0 DEF AfterSet
        <5>2. Ideal!Touch(k)
          BY <2>7, <2>0, <4>1, <5>1, RequestTouches DEF Set, AfterSet
        <5>3. QED
          BY <2>0, <3>0, <3>1, <4>1, <5>1, <5>2
      <4>2. CASE ~refused
        <5>1. new \in Entry
          BY <1>0, KvAssumption, DeadlineType DEF Value, Entry
        <5>2. Lookup(AfterSet(e, now, v, cond, ttl), now) = new
          BY <2>0, <4>2, <5>1, VisibleAfterOperation, <1>0 DEF AfterSet
        <5>3. Deadline(now, ttl) = IF ttl = 0 THEN 0 ELSE now + ttl
          BY <1>0, ExactDeadline
        <5>4. Ideal!Touch(k)
          BY <2>7, <4>2, <5>2, RequestTouches DEF Set, AfterSet
        <5>5. QED
          BY <3>0, <3>1, <4>2, <5>2, <5>3, <5>4 DEF Ideal!Put, Ideal!DeadlineIn, Visible
      <4>3. QED
        BY <4>1, <4>2
    <3>4. Ideal!Set(k, v, cond, ttl)
      BY <3>1, <3>2, <3>3 DEF Ideal!Set, Visible
    <3>5. QED
      BY <3>4 DEF Ideal!Next, WriteCondition
  <2>8. QED
    BY <1>4, <2>1, <2>2, <2>3, <2>4, <2>5, <2>6, <2>7
<1>5. CASE UNCHANGED shardVars
  BY <1>5 DEF shardVars, Visible, Remains
<1>6. QED
  BY <1>1, <1>2, <1>3, <1>4, <1>5 DEF ShardNext

(***************************************************************************)
(* The shard implements the ideal map: as long as no deadline wraps, every *)
(* reply is the one the ideal map gives, in which only DEL shows whether   *)
(* the remains of an expired key have been reclaimed.                      *)
(***************************************************************************)
THEOREM ShardIsTtlMap == NoWrap => (ShardSpec => ImplementsTtlMap)
<1> SUFFICES ASSUME NoWrap PROVE ShardSpec => ImplementsTtlMap
  OBVIOUS
<1>1. ShardInit => Ideal!Init
  BY DEF ShardInit, Ideal!Init, Lookup, Live
<1>2. ShardTypeOK /\ [ShardNext]_shardVars => [Ideal!Next]_(Ideal!vars)
  BY StepRefines
<1>3. QED
  BY <1>1, <1>2, ShardTyped, PTL DEF ShardSpec, ImplementsTtlMap, Ideal!Spec
=============================================================================
