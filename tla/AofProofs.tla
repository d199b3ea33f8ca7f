------------------------------ MODULE AofProofs ------------------------------
(***************************************************************************)
(* The append-only file for any number of workers, commands, failed        *)
(* writes, power failures and restarts.                                    *)
(*                                                                         *)
(* Durability under fsync "always" speaks of commands that were answered;  *)
(* it is inductive only together with what is true between write() and     *)
(* fdatasync: the line of the worker that holds the writer's mutex is      *)
(* whole in the file, or is known to be spoilt by the piece of a line it   *)
(* was glued to.                                                           *)
(*                                                                         *)
(* That the log reproduces the store is proved key by key.  What a line    *)
(* does to a key depends only on what is under that key (PerformSame), so  *)
(* it is the same live, in the next load and in the load after that; lines *)
(* of other keys do not matter, and of each key that has not diverged at   *)
(* most one line is not in the file yet (KeyOK).                           *)
(***************************************************************************)
EXTENDS Aof, SequenceTheorems, FiniteSetTheorems, WellFoundedInduction, TLAPS

(* A record with the fields of a line, whatever the command in it. *)
IsLine(l) == l = [cmd |-> l.cmd, n |-> l.n, cut |-> l.cut, raw |-> l.raw]

FileOK ==
    /\ \E S : file \in Seq(S)
    /\ \A i \in 1 .. Len(file) : IsLine(file[i])
    /\ synced \in 0 .. Len(file)

PendingOK ==
    /\ pending = [w \in Workers |-> pending[w]]
    /\ \A w \in Workers :
          pending[w] # NoLine => IsLine(pending[w]) /\ pending[w].cut = "none"
    /\ writer # Nobody => writer \in Workers /\ pending[writer] # NoLine

(* The line of command n is whole among the first `most` lines of f. *)
Whole(f, most, n) == \E i \in 1 .. most : f[i].n = n /\ f[i].cut = "none"

WriterWrote ==
    writer # Nobody =>
        \/ pending[writer].n \in lost
        \/ Whole(file, Len(file), pending[writer].n)

IInv ==
    /\ FileOK
    /\ PendingOK
    /\ WriterWrote
    /\ AckedIsDurable

-----------------------------------------------------------------------------
(* What write() does to the file. *)

(* The first m lines of a file. *)
LEMMA FirstLines ==
    ASSUME NEW S, NEW f \in Seq(S), NEW m \in 0 .. Len(f)
    PROVE  /\ SubSeq(f, 1, m) \in Seq(S)
           /\ Len(SubSeq(f, 1, m)) = m
           /\ \A i \in 1 .. m : SubSeq(f, 1, m)[i] = f[i]
<1>1. \A i \in 1 .. m : f[i] \in S
  OBVIOUS
<1>2. /\ SubSeq(f, 1, m) \in Seq(S)
      /\ Len(SubSeq(f, 1, m)) = IF 1 <= m THEN m - 1 + 1 ELSE 0
      /\ \A i \in 1 .. m - 1 + 1 : SubSeq(f, 1, m)[i] = f[1 + i - 1]
  BY <1>1, SubSeqProperties
<1> QED
  BY <1>2

(* A line that is written leaves every whole line whole, and is whole      *)
(* itself unless it is a piece or was glued to one.                        *)
LEMMA WrittenKeepsWhole ==
    ASSUME NEW S, NEW f \in Seq(S), \A i \in 1 .. Len(f) : IsLine(f[i]),
           NEW l, IsLine(l)
    PROVE  /\ \E T : Written(f, l) \in Seq(T)
           /\ Len(Written(f, l)) >= Len(f)
           /\ Len(Written(f, l)) \in Nat
           /\ \A i \in 1 .. Len(Written(f, l)) : IsLine(Written(f, l)[i])
           /\ \A i \in 1 .. Len(f) : f[i].cut = "none" => Written(f, l)[i] = f[i]
           /\ l.cut = "none" =>
                 \/ l \in Spoilt(f, l)
                 \/ Whole(Written(f, l), Len(Written(f, l)), l.n)
<1> DEFINE g == Written(f, l)
           last == [Last(f) EXCEPT !.cut = IF l.cut = "none" THEN "glued" ELSE "mid"]
<1>0. Len(f) \in Nat
  OBVIOUS
<1>1. CASE EndsTorn(f)
  <2>1. f # <<>> /\ f[Len(f)].cut # "none" /\ Last(f) = f[Len(f)] /\ Len(f) >= 1
    BY <1>1 DEF EndsTorn, Last
  <2>2. IsLine(f[Len(f)])
    BY <1>0, <2>1
  <2>3. IsLine(last)
    BY <2>1, <2>2 DEF IsLine
  <2>4. Front(f) \in Seq(S) /\ Len(Front(f)) = Len(f) - 1
        /\ \A i \in 1 .. Len(f) - 1 : Front(f)[i] = f[i]
    <3>1. Len(f) - 1 \in 0 .. Len(f)
      BY <1>0, <2>1
    <3> QED
      BY <3>1, FirstLines DEF Front
  <2>5. g = Append(Front(f), last)
    BY <1>1 DEF Written
  <2> HIDE DEF last, g
  <2>6. g \in Seq(S \cup {last}) /\ Len(g) = Len(f)
        /\ g[Len(f)] = last
        /\ \A i \in 1 .. Len(f) - 1 : g[i] = f[i]
    BY <1>0, <2>1, <2>4, <2>5
  <2>7. l \in Spoilt(f, l)
    BY <1>1 DEF Spoilt
  <2>8. \A i \in 1 .. Len(g) : IsLine(g[i])
    BY <1>0, <2>3, <2>6
  <2>9. \A i \in 1 .. Len(f) : f[i].cut = "none" => g[i] = f[i]
    BY <1>0, <2>1, <2>6
  <2> QED
    BY <1>0, <2>6, <2>7, <2>8, <2>9 DEF g
<1>2. CASE ~EndsTorn(f)
  <2>1. g = Append(f, l)
    BY <1>2 DEF Written
  <2> HIDE DEF g
  <2>2. g \in Seq(S \cup {l}) /\ Len(g) = Len(f) + 1
        /\ g[Len(f) + 1] = l
        /\ \A i \in 1 .. Len(f) : g[i] = f[i]
    BY <1>0, <2>1
  <2>3. \A i \in 1 .. Len(g) : IsLine(g[i])
    BY <1>0, <2>2
  <2>4. l.cut = "none" => Whole(g, Len(g), l.n)
    BY <1>0, <2>2 DEF Whole
  <2> QED
    BY <1>0, <2>2, <2>3, <2>4 DEF g
<1> QED
  BY <1>1, <1>2

(* A whole line among the synced ones is one in any file that keeps them.  *)
LEMMA WholeStays ==
    ASSUME NEW f, NEW g, NEW m \in Nat, NEW p \in Nat, m <= p,
           \A i \in 1 .. m : f[i].cut = "none" => g[i] = f[i],
           NEW n, Whole(f, m, n)
    PROVE  Whole(g, p, n)
BY DEF Whole

-----------------------------------------------------------------------------
(* The steps. *)

(* The ids of the reservations in a store. *)
IdsOf(s) == {r.id : r \in s.reservations}

(* The command a handler performs and the one it leaves to be appended are *)
(* well-typed; if the latter settles a reservation, it is in the store.    *)
Loggable(c, log) ==
    /\ c \in Command
    /\ log \in Command \cup {NoLine}
    /\ log # NoLine /\ log.op = "SETTLE" => log.id \in IdsOf(store)

(* Every handler is a call of Handle: it leaves a line to append, or none. *)
LEMMA HandlersHandle ==
    ASSUME NEW w \in Workers, Handlers(w)
    PROVE  \E c, log : \E raw \in BOOLEAN :
              Handle(w, c, log, raw) /\ (TypeOK => Loggable(c, log))
<1> DEFINE goal == \E c, log : \E raw \in BOOLEAN :
                      Handle(w, c, log, raw) /\ (TypeOK => Loggable(c, log))
<1>a. ASSUME NEW c, Logged(w, c), TypeOK => Loggable(c, c) PROVE goal
  BY <1>a DEF Logged
<1>b. ASSUME NEW c, NotLogged(w, c), TypeOK => Loggable(c, NoLine) PROVE goal
  BY <1>b DEF NotLogged
<1>c. ASSUME NEW c, NEW log, Unescaped(w, c, log), TypeOK => Loggable(c, log) PROVE goal
  <2>1. ASSUME NEW d \in Misreadings PROVE TypeOK => Loggable(c, d)
    BY <1>c, <2>1, AofAssumption DEF Loggable
  <2> QED
    BY <1>c, <2>1 DEF Unescaped
<1>1. ASSUME NEW k \in Keys, NEW v \in Writes, NEW cond \in Conditions \cup {"Always"},
             Set(w, k, v, cond)
      PROVE  goal
  <2> DEFINE c == [op |-> "SET", key |-> k, val |-> v, cond |-> cond]
  <2>1. c \in Command
    BY DEF Command
  <2>2. Logged(w, c) /\ Loggable(c, c)
    BY <1>1, <2>1 DEF Set, Loggable
  <2> HIDE DEF c, goal
  <2> QED
    BY <1>a, <2>2
<1>2. ASSUME NEW k \in Keys, NEW v \in Writes, QuotaInit(w, k, v) PROVE goal
  <2>1. Set(w, k, v, "Always") /\ "Always" \in Conditions \cup {"Always"}
    BY <1>2 DEF QuotaInit, Set
  <2> HIDE DEF goal
  <2> QED
    BY <1>1, <2>1
<1>3. ASSUME NEW k \in Keys, Del(w, k) PROVE goal
  <2> DEFINE c == [op |-> "DEL", key |-> k]
  <2>1. c \in Command
    BY DEF Command
  <2>2. Logged(w, c) /\ Loggable(c, c)
    BY <1>3, <2>1 DEF Del, Loggable
  <2> HIDE DEF c, goal
  <2> QED
    BY <1>a, <2>2
<1>4. ASSUME NEW k \in Keys, NEW delta \in Deltas, IncrBy(w, k, delta) PROVE goal
  <2> DEFINE c == [op |-> "INCRBY", key |-> k, delta |-> delta]
  <2>1. c \in Command
    BY DEF Command
  <2>2. Logged(w, c) /\ Loggable(c, c)
    BY <1>4, <2>1 DEF IncrBy, Loggable
  <2> HIDE DEF c, goal
  <2> QED
    BY <1>a, <2>2
<1>5. ASSUME NEW k \in Keys, NEW amount \in Amounts,
             Reserve(w, k, amount) \/ HttpReserve(w, k, amount)
      PROVE  goal
  <2> DEFINE c == Booking(k, amount, "binary")
             d == Booking(k, amount, "http")
  <2>1. c \in Command /\ d \in Command
    BY DEF Command, Booking
  <2>2. Loggable(c, c) /\ Loggable(d, d)
    BY <2>1 DEF Loggable, Booking
  <2>3. Unescaped(w, c, c) \/ Logged(w, d)
    BY <1>5 DEF Reserve, HttpReserve
  <2> HIDE DEF c, d, goal
  <2> QED
    BY <1>a, <1>c, <2>2, <2>3
<1>6. ASSUME NEW k \in Keys, NEW hash \in Hashes, NEW token \in ClaimTokens(k),
             IdemBegin(w, k, hash, token) \/ HttpIdemBegin(w, k, hash, token)
      PROVE  goal
  <2> DEFINE c == Claim(k, hash, token)
  <2>1. TypeOK => token \in Token
    <3> SUFFICES ASSUME TypeOK PROVE token \in Token
      OBVIOUS
    <3>1. store.idem[k] \in Record \cup {NoRecord} /\ epoch \in Nat /\ serial \in Nat
      BY DEF TypeOK, Store
    <3> QED
      BY <1>6, <3>1 DEF ClaimTokens, Record, Id, Token
  <2>2. TypeOK => c \in Command
    BY <2>1 DEF Command, Claim
  <2>3. TypeOK => Loggable(c, c)
    BY <2>2 DEF Loggable, Claim
  <2>4. Unescaped(w, c, c) \/ Logged(w, c)
    BY <1>6 DEF IdemBegin, HttpIdemBegin
  <2> HIDE DEF c, goal
  <2> QED
    BY <1>a, <1>c, <2>3, <2>4
<1>7. ASSUME NEW k \in Keys, NEW token \in ReportTokens(k)
      PROVE  TypeOK => token \in Token \cup {EmptyToken}
  <2> SUFFICES ASSUME TypeOK PROVE token \in Token \cup {EmptyToken}
    OBVIOUS
  <2>1. store.idem[k] \in Record \cup {NoRecord}
    BY DEF TypeOK, Store
  <2> QED
    BY <1>7, <2>1 DEF ReportTokens, Record
<1>8. ASSUME NEW k \in Keys, NEW token \in ReportTokens(k), NEW body \in {"plain", "quoted"},
             IdemComplete(w, k, token, body) \/ HttpIdemComplete(w, k, token, body)
      PROVE  goal
  <2> DEFINE c == Completion(k, token, body)
  <2>1. TypeOK => c \in Command
    BY <1>7 DEF Command, Completion
  <2>2. TypeOK => Loggable(c, c)
    BY <2>1 DEF Loggable, Completion
  <2>3. Unescaped(w, c, c) \/ Logged(w, c)
    BY <1>8 DEF IdemComplete, HttpIdemComplete
  <2> HIDE DEF c, goal
  <2> QED
    BY <1>a, <1>c, <2>2, <2>3
<1>9. ASSUME NEW k \in Keys, NEW token \in ReportTokens(k), NEW body \in {"none", "error"},
             IdemFail(w, k, token, body) \/ HttpIdemFail(w, k, token, body)
      PROVE  goal
  <2> DEFINE c == FailureReport(k, token, body)
             d == FailureReport(k, token, "none")
  <2>1. TypeOK => c \in Command /\ d \in Command
    BY <1>7 DEF Command, FailureReport
  <2>2. TypeOK => Loggable(c, c) /\ Loggable(c, d)
    BY <2>1 DEF Loggable, FailureReport
  <2>3. Unescaped(w, c, d) \/ Logged(w, c)
    BY <1>9 DEF IdemFail, HttpIdemFail
  <2> HIDE DEF c, d, goal
  <2> QED
    BY <1>a, <1>c, <2>2, <2>3
<1>10. ASSUME NEW r \in store.reservations, NEW actual \in Actuals \cup {0}
       PROVE  TypeOK => /\ Loggable(Settlement(r, actual), Settlement(r, actual))
                        /\ Loggable(Settlement(r, actual), NoLine)
  <2> SUFFICES ASSUME TypeOK
               PROVE  /\ Loggable(Settlement(r, actual), Settlement(r, actual))
                      /\ Loggable(Settlement(r, actual), NoLine)
    OBVIOUS
  <2>1. r.key \in Keys /\ r.id \in Id /\ r.id \in IdsOf(store)
    BY DEF TypeOK, Store, Reservation, IdsOf
  <2>2. Settlement(r, actual) \in Command
    BY <2>1 DEF Settlement, Command
  <2>3. Settlement(r, actual).id = r.id
    BY DEF Settlement
  <2> QED
    BY <2>1, <2>2, <2>3 DEF Loggable
<1>11. ASSUME NEW r \in store.reservations, NEW actual \in Actuals \cup {0},
              \/ Logged(w, Settlement(r, actual)) \/ NotLogged(w, Settlement(r, actual))
              \/ Unescaped(w, Settlement(r, actual), Settlement(r, actual))
       PROVE  goal
  <2> HIDE DEF goal
  <2> QED
    BY <1>a, <1>b, <1>c, <1>10, <1>11
<1>12. ASSUME NEW r \in store.reservations,
              \/ Rollback(w, r) \/ HttpRollback(w, r)
              \/ \E actual \in Actuals : Commit(w, r, actual) \/ HttpCommit(w, r, actual)
       PROVE  goal
  <2> HIDE DEF goal
  <2> QED
    BY <1>11, <1>12 DEF Rollback, HttpRollback, Commit, HttpCommit
<1> HIDE DEF goal
<1>13. goal
  BY <1>1, <1>2, <1>3, <1>4, <1>5, <1>6, <1>8, <1>9, <1>12 DEF Handlers
<1> QED
  BY <1>13 DEF goal

(* A handler makes a line to be appended, of a command nobody was answered. *)
LEMMA HandlePreserves ==
    ASSUME IInv, NEW w \in Workers, NEW c, NEW log, NEW raw, Handle(w, c, log, raw)
    PROVE  IInv'
<1>1. /\ file' = file /\ synced' = synced /\ policy' = policy
      /\ writer' = writer /\ acked' = acked /\ lost' = lost
      /\ pending[w] = NoLine
  BY DEF Handle
<1>2. PICK n : pending' = [pending EXCEPT ![w] =
                  IF log = NoLine THEN NoLine
                  ELSE [cmd |-> log, n |-> n, cut |-> "none", raw |-> raw]]
  BY DEF Handle
<1>3. \A v \in Workers \ {w} : pending'[v] = pending[v]
  BY <1>2 DEF IInv, PendingOK
<1>4. pending'[w] # NoLine =>
          pending'[w] = [cmd |-> log, n |-> n, cut |-> "none", raw |-> raw]
  BY <1>2 DEF IInv, PendingOK
<1>5. pending' = [v \in Workers |-> pending'[v]]
  BY <1>2 DEF IInv, PendingOK
<1>6. writer # Nobody => writer \in Workers \ {w}
  BY <1>1 DEF IInv, PendingOK
<1>7. FileOK' /\ AckedIsDurable'
  BY <1>1 DEF IInv, FileOK, AckedIsDurable
<1>8. PendingOK'
  BY <1>1, <1>3, <1>4, <1>5, <1>6 DEF IInv, PendingOK, IsLine
<1>9. WriterWrote'
  BY <1>1, <1>3, <1>6 DEF IInv, WriterWrote, Whole
<1> QED
  BY <1>7, <1>8, <1>9 DEF IInv

(* Whatever is written behind the synced lines, they stay. *)
LEMMA WritingPreserves ==
    ASSUME IInv, NEW l, IsLine(l), file' = Written(file, l),
           synced' = synced, policy' = policy, acked' = acked, lost \subseteq lost'
    PROVE  /\ FileOK' /\ AckedIsDurable'
           /\ \A n : Whole(file, Len(file), n) => Whole(file', Len(file'), n)
           /\ l.cut = "none" => l \in Spoilt(file, l) \/ Whole(file', Len(file'), l.n)
<1>1. PICK S : file \in Seq(S)
  BY DEF IInv, FileOK
<1>2. /\ \A i \in 1 .. Len(file) : IsLine(file[i])
      /\ synced \in 0 .. Len(file) /\ Len(file) \in Nat
  BY <1>1 DEF IInv, FileOK
<1>3. /\ \E T : file' \in Seq(T)
      /\ Len(file') >= Len(file) /\ Len(file') \in Nat
      /\ \A i \in 1 .. Len(file') : IsLine(file'[i])
      /\ \A i \in 1 .. Len(file) : file[i].cut = "none" => file'[i] = file[i]
      /\ l.cut = "none" => l \in Spoilt(file, l) \/ Whole(file', Len(file'), l.n)
  BY <1>1, <1>2, WrittenKeepsWhole
<1>4. FileOK'
  BY <1>2, <1>3 DEF FileOK
<1>5. AckedIsDurable'
  <2> SUFFICES ASSUME policy = "always", NEW n \in acked \ lost' PROVE Whole(file', synced', n)
    BY DEF AckedIsDurable, Whole
  <2>1. Whole(file, synced, n)
    BY DEF IInv, AckedIsDurable, Whole
  <2>2. \A i \in 1 .. synced : file[i].cut = "none" => file'[i] = file[i]
    BY <1>2, <1>3
  <2>3. synced \in Nat /\ synced' \in Nat /\ synced <= synced'
    BY <1>2
  <2> QED
    BY <2>1, <2>2, <2>3, WholeStays
<1>6. ASSUME NEW n, Whole(file, Len(file), n) PROVE Whole(file', Len(file'), n)
  BY <1>2, <1>3, <1>6, WholeStays
<1> QED
  BY <1>3, <1>4, <1>5, <1>6

(* write(), of a line that may be glued to a piece of a line. *)
LEMMA AppendPreserves ==
    ASSUME IInv, NEW w \in Workers, AppendLine(w)
    PROVE  IInv'
<1> DEFINE l == pending[w]
<1>1. IsLine(l) /\ l.cut = "none" /\ l # NoLine
  BY DEF IInv, PendingOK, AppendLine
<1>2. /\ file' = Written(file, l) /\ synced' = synced /\ policy' = policy /\ acked' = acked
      /\ lost' = lost \cup {x.n : x \in Spoilt(file, l)}
      /\ writer' = w /\ pending' = pending
  BY DEF AppendLine, NoteSpoilt
<1>3. /\ FileOK' /\ AckedIsDurable'
      /\ l \in Spoilt(file, l) \/ Whole(file', Len(file'), l.n)
  BY <1>1, <1>2, WritingPreserves
<1>4. PendingOK'
  BY <1>1, <1>2 DEF IInv, PendingOK
<1> HIDE DEF l
<1>5. l.n \in lost' \/ Whole(file', Len(file'), l.n)
  BY <1>2, <1>3
<1>6. WriterWrote'
  BY <1>2, <1>5 DEF WriterWrote, Whole, l
<1> QED
  BY <1>3, <1>4, <1>6 DEF IInv

(* The further lines of an unescaped string. *)
LEMMA MorePreserves ==
    ASSUME IInv, NEW w \in Workers, AppendMore(w)
    PROVE  IInv'
<1>1. PICK c \in Misreadings :
          /\ file' = Written(file, [pending[w] EXCEPT !.cmd = c])
          /\ lost \subseteq lost'
  BY DEF AppendMore
<1>2. /\ synced' = synced /\ policy' = policy /\ acked' = acked
      /\ writer = w /\ writer' = w /\ pending' = pending /\ writer # Nobody
  BY AofAssumption DEF AppendMore
<1>3. IsLine([pending[w] EXCEPT !.cmd = c])
  <2>1. IsLine(pending[w])
    BY <1>2 DEF IInv, PendingOK
  <2> QED
    BY <2>1 DEF IsLine
<1>4. /\ FileOK' /\ AckedIsDurable'
      /\ \A n : Whole(file, Len(file), n) => Whole(file', Len(file'), n)
  BY <1>1, <1>2, <1>3, WritingPreserves
<1>5. PendingOK'
  BY <1>2 DEF IInv, PendingOK
<1>6. WriterWrote'
  BY <1>1, <1>2, <1>4 DEF IInv, WriterWrote, Whole
<1> QED
  BY <1>4, <1>5, <1>6 DEF IInv

(* The answer, after fdatasync or one that failed. *)
LEMMA SyncPreserves ==
    ASSUME IInv, NEW w \in Workers, SyncLine(w) \/ SyncFails(w)
    PROVE  IInv'
<1>1. /\ writer = w /\ writer # Nobody /\ writer' = Nobody
      /\ file' = file /\ lost \subseteq lost' /\ policy' = policy
      /\ acked' = acked \cup {pending[w].n}
      /\ pending' = [pending EXCEPT ![w] = NoLine]
  BY AofAssumption DEF SyncLine, SyncFails, Answer
<1>2. Len(file) \in Nat /\ synced \in 0 .. Len(file) /\ synced' \in {synced, Len(file)}
  BY DEF IInv, FileOK, SyncLine, SyncFails
<1>3. FileOK'
  BY <1>1, <1>2 DEF IInv, FileOK
<1>4. PendingOK' /\ WriterWrote'
  BY <1>1 DEF IInv, PendingOK, WriterWrote
<1>5. AckedIsDurable'
  <2> SUFFICES ASSUME policy = "always", NEW n \in acked' \ lost'
               PROVE  Whole(file, synced', n)
    BY <1>1 DEF AckedIsDurable, Whole
  <2>1. CASE n = pending[w].n
    <3>1. SyncLine(w) /\ synced' = Len(file)
      BY <2>1 DEF SyncLine, SyncFails
    <3> QED
      BY <1>1, <2>1, <3>1 DEF IInv, WriterWrote
  <2>2. CASE n \in acked
    <3>1. Whole(file, synced, n)
      BY <1>1, <2>2 DEF IInv, AckedIsDurable, Whole
    <3> QED
      BY <1>2, <3>1 DEF Whole
  <2> QED
    BY <1>1, <2>1, <2>2
<1> QED
  BY <1>3, <1>4, <1>5 DEF IInv

(* A write that fails is answered all the same, but its number is noted.   *)
LEMMA FailurePreserves ==
    ASSUME IInv, NEW w \in Workers, AppendFails(w)
    PROVE  IInv'
<1> DEFINE piece == [pending[w] EXCEPT !.cut = "mid"]
<1>1. PICK S : file \in Seq(S)
  BY DEF IInv, FileOK
<1>2. /\ IsLine(piece) /\ piece.n = pending[w].n
      /\ \A i \in 1 .. Len(file) : IsLine(file[i])
      /\ synced \in 0 .. Len(file) /\ Len(file) \in Nat
  BY <1>1 DEF IInv, FileOK, PendingOK, AppendFails, IsLine
<1>3. /\ file' \in {file, Written(file, piece)}
      /\ synced' = synced /\ policy' = policy
      /\ writer = Nobody /\ writer' = Nobody
      /\ lost \subseteq lost' /\ piece.n \in lost'
      /\ acked' = acked \cup {pending[w].n}
      /\ pending' = [pending EXCEPT ![w] = NoLine]
  BY DEF AppendFails, NoteSpoilt
<1> HIDE DEF piece
<1>4. /\ \E T : file' \in Seq(T)
      /\ Len(file') >= Len(file) /\ Len(file') \in Nat
      /\ \A i \in 1 .. Len(file') : IsLine(file'[i])
      /\ \A i \in 1 .. Len(file) : file[i].cut = "none" => file'[i] = file[i]
  <2>1. CASE file' = file
    BY <1>1, <1>2, <2>1
  <2>2. CASE file' = Written(file, piece)
    BY <1>1, <1>2, <2>2, WrittenKeepsWhole
  <2> QED
    BY <1>3, <2>1, <2>2
<1>5. FileOK'
  BY <1>2, <1>3, <1>4 DEF FileOK
<1>6. PendingOK' /\ WriterWrote'
  BY <1>3 DEF IInv, PendingOK, WriterWrote
<1>7. AckedIsDurable'
  <2> SUFFICES ASSUME policy = "always", NEW n \in acked' \ lost'
               PROVE  Whole(file', synced', n)
    BY <1>3 DEF AckedIsDurable, Whole
  <2>1. n \in acked \ lost
    BY <1>2, <1>3
  <2>2. Whole(file, synced, n)
    BY <2>1 DEF IInv, AckedIsDurable, Whole
  <2>3. \A i \in 1 .. synced : file[i].cut = "none" => file'[i] = file[i]
    BY <1>2, <1>4
  <2>4. synced \in Nat /\ synced' \in Nat /\ synced <= synced'
    BY <1>2, <1>3
  <2> QED
    BY <2>2, <2>3, <2>4, WholeStays
<1> QED
  BY <1>5, <1>6, <1>7 DEF IInv

(* What a power failure leaves still begins with the synced lines. *)
KeepsSynced(f) ==
    /\ \E T : f \in Seq(T)
    /\ Len(f) \in Nat /\ synced <= Len(f)
    /\ \A i \in 1 .. Len(f) : IsLine(f[i])
    /\ \A i \in 1 .. synced : f[i] = file[i]

(* A power failure that keeps whole lines keeps the synced ones. *)
LEMMA PrefixKeepsSynced ==
    ASSUME FileOK, NEW n \in synced .. Len(file)
    PROVE  KeepsSynced(Prefix(n))
<1>1. PICK S : file \in Seq(S)
  BY DEF FileOK
<1>2. /\ \A i \in 1 .. Len(file) : IsLine(file[i])
      /\ synced \in 0 .. Len(file) /\ Len(file) \in Nat
  BY <1>1 DEF FileOK
<1>3. n \in 0 .. Len(file)
  BY <1>2
<1>4. /\ Prefix(n) \in Seq(S) /\ Len(Prefix(n)) = n
      /\ \A i \in 1 .. n : Prefix(n)[i] = file[i]
  BY <1>1, <1>3, FirstLines DEF Prefix
<1> QED
  BY <1>2, <1>3, <1>4 DEF KeepsSynced

(* A power failure within a line keeps the lines before it. *)
LEMMA TornKeepsSynced ==
    ASSUME FileOK, NEW n \in synced .. Len(file) - 1, NEW cut
    PROVE  KeepsSynced(Torn(n, cut))
<1> DEFINE f == Torn(n, cut)
           g == Prefix(n)
           l == [file[n + 1] EXCEPT !.cut = cut]
<1>1. PICK S : file \in Seq(S)
  BY DEF FileOK
<1>2. /\ \A i \in 1 .. Len(file) : IsLine(file[i])
      /\ synced \in 0 .. Len(file) /\ Len(file) \in Nat
  BY <1>1 DEF FileOK
<1>3. n \in 0 .. Len(file) /\ n + 1 \in 1 .. Len(file)
  BY <1>2
<1>4. g \in Seq(S) /\ Len(g) = n /\ \A i \in 1 .. n : g[i] = file[i]
  BY <1>1, <1>3, FirstLines DEF Prefix
<1>5. IsLine(file[n + 1])
  BY <1>2, <1>3
<1>6. IsLine(l)
  BY <1>5 DEF IsLine
<1>7. f = Append(g, l)
  BY DEF Torn
<1> HIDE DEF f, g, l
<1>8. /\ f \in Seq(S \cup {l}) /\ Len(f) = n + 1 /\ f[n + 1] = l
      /\ \A i \in 1 .. n : f[i] = file[i]
  BY <1>3, <1>4, <1>7
<1>9. \A i \in 1 .. Len(f) : IsLine(f[i])
  BY <1>2, <1>3, <1>6, <1>8
<1>10. KeepsSynced(f)
  BY <1>2, <1>3, <1>8, <1>9 DEF KeepsSynced
<1> QED
  BY <1>10 DEF f

(* The process ends, and of the file at least what was synced is left. *)
LEMMA StopPreserves ==
    ASSUME IInv, NEW f, Stopped(f), KeepsSynced(f)
    PROVE  IInv'
<1>1. /\ file' = f /\ synced' = Len(f) /\ writer' = Nobody
      /\ pending' = [w \in Workers |-> NoLine]
      /\ policy' = policy /\ acked' = acked /\ lost' = lost
  BY DEF Stopped
<1>2. synced \in Nat
  BY DEF IInv, FileOK
<1>3. FileOK'
  BY <1>1 DEF FileOK, KeepsSynced
<1>4. PendingOK' /\ WriterWrote'
  BY <1>1 DEF PendingOK, WriterWrote
<1>5. AckedIsDurable'
  <2> SUFFICES ASSUME policy = "always", NEW n \in acked \ lost
               PROVE  Whole(f, Len(f), n)
    BY <1>1 DEF AckedIsDurable, Whole
  <2>1. Whole(file, synced, n)
    BY DEF IInv, AckedIsDurable, Whole
  <2> QED
    BY <1>2, <2>1, WholeStays DEF KeepsSynced
<1> QED
  BY <1>3, <1>4, <1>5 DEF IInv

(* The file is empty and nobody was answered. *)
LEMMA InitInvariant == Init => IInv
<1> SUFFICES ASSUME Init PROVE IInv
  OBVIOUS
<1>1. file \in Seq({}) /\ Len(file) = 0
  BY DEF Init
<1>2. FileOK
  BY <1>1 DEF Init, FileOK
<1> QED
  BY <1>2 DEF Init, IInv, PendingOK, WriterWrote, AckedIsDurable

(* One case per action. *)
LEMMA StepInvariant == IInv /\ [Next]_vars => IInv'
<1> SUFFICES ASSUME IInv, [Next]_vars PROVE IInv'
  OBVIOUS
<1>1. ASSUME NEW w \in Workers, Handlers(w) PROVE IInv'
  BY <1>1, HandlersHandle, HandlePreserves
<1>2. ASSUME NEW w \in Workers, AppendLine(w) PROVE IInv'
  BY <1>2, AppendPreserves
<1>3. ASSUME NEW w \in Workers, SyncLine(w) \/ SyncFails(w) PROVE IInv'
  BY <1>3, SyncPreserves
<1>m. ASSUME NEW w \in Workers, AppendMore(w) PROVE IInv'
  BY <1>m, MorePreserves
<1>4. ASSUME NEW w \in Workers, AppendFails(w) PROVE IInv'
  BY <1>4, FailurePreserves
<1>5. CASE Fsync
  <2>1. /\ file' = file /\ synced' = Len(file) /\ policy' = policy
        /\ pending' = pending /\ writer' = writer
        /\ acked' = acked /\ lost' = lost
    BY <1>5 DEF Fsync
  <2>2. Len(file) \in Nat /\ synced \in 0 .. Len(file)
    BY DEF IInv, FileOK
  <2>3. FileOK' /\ PendingOK' /\ WriterWrote'
    BY <2>1, <2>2 DEF IInv, FileOK, PendingOK, WriterWrote, Whole
  <2>4. AckedIsDurable'
    BY <2>1, <2>2 DEF IInv, AckedIsDurable
  <2> QED
    BY <2>3, <2>4 DEF IInv
<1>6. CASE Shutdown
  <2>1. PICK S : file \in Seq(S)
    BY DEF IInv, FileOK
  <2>2. file = Prefix(Len(file))
    BY <2>1, SubSeqFull DEF Prefix
  <2>3. Len(file) \in synced .. Len(file)
    BY DEF IInv, FileOK
  <2>4. KeepsSynced(file)
    BY <2>2, <2>3, PrefixKeepsSynced DEF IInv
  <2> QED
    BY <1>6, <2>4, StopPreserves DEF Shutdown
<1>7. CASE Crash
  BY <1>7, PrefixKeepsSynced, TornKeepsSynced, StopPreserves DEF IInv, Crash
<1>8. CASE Restart
  BY <1>8 DEF Restart, IInv, FileOK, PendingOK, WriterWrote, Whole, AckedIsDurable
<1>9. CASE UNCHANGED vars
  BY <1>9 DEF vars, IInv, FileOK, PendingOK, WriterWrote, Whole, AckedIsDurable
<1> QED
  BY <1>1, <1>2, <1>3, <1>m, <1>4, <1>5, <1>6, <1>7, <1>8, <1>9 DEF Next

(***************************************************************************)
(* Append, fdatasync, failed writes, power failures and restarts keep the  *)
(* inductive invariant.                                                    *)
(***************************************************************************)
THEOREM Invariance == Spec => []IInv
BY InitInvariant, StepInvariant, PTL DEF Spec

(***************************************************************************)
(* Durability: under fsync "always" every command a client saw succeed,    *)
(* but for lines that write() or fdatasync() failed on and lines glued to  *)
(* a piece of a line, is whole within the synced part of the file, after   *)
(* any number of power failures.                                           *)
(***************************************************************************)
THEOREM Durability == Spec => []AckedIsDurable
<1>1. IInv => AckedIsDurable
  BY DEF IInv
<1> QED
  BY <1>1, Invariance, PTL

(* A whole line that is synced stays where it is. *)
SyncedStays == \A i \in 1 .. synced : file[i].cut = "none" => file'[i] = file[i]

(***************************************************************************)
(* Whatever the policy, a whole line that Fsync has brought to the disk    *)
(* stays at its place for ever: neither an append that is glued to a piece *)
(* of a line, nor a power failure, nor a restart touches it.               *)
(***************************************************************************)
THEOREM SyncedLinesStay == Spec => [][SyncedStays]_vars
<1>1. ASSUME IInv, [Next]_vars PROVE [SyncedStays]_vars
  <2>1. /\ \A i \in 1 .. Len(file) : IsLine(file[i])
        /\ synced \in 0 .. Len(file) /\ Len(file) \in Nat
    BY <1>1 DEF IInv, FileOK
  <2>2. PICK S : file \in Seq(S)
    BY <1>1 DEF IInv, FileOK
  <2>3. file' = file => SyncedStays
    BY DEF SyncedStays
  <2>4. ASSUME NEW l, IsLine(l), file' = Written(file, l) PROVE SyncedStays
    <3>1. \A i \in 1 .. Len(file) : file[i].cut = "none" => file'[i] = file[i]
      BY <2>1, <2>2, <2>4, WrittenKeepsWhole
    <3> QED
      BY <2>1, <3>1 DEF SyncedStays
  <2>5. ASSUME NEW w \in Workers,
               \/ Handlers(w) \/ AppendLine(w) \/ AppendMore(w) \/ AppendFails(w)
               \/ SyncLine(w) \/ SyncFails(w)
        PROVE  SyncedStays
    <3>1. CASE Handlers(w)
      BY <2>3, <3>1, HandlersHandle DEF Handle
    <3>2. CASE AppendLine(w)
      <4>1. IsLine(pending[w])
        BY <1>1, <3>2 DEF IInv, PendingOK, AppendLine
      <4> QED
        BY <2>4, <3>2, <4>1 DEF AppendLine
    <3>3. CASE SyncLine(w) \/ SyncFails(w)
      BY <2>3, <3>3 DEF SyncLine, SyncFails, Answer
    <3>5. CASE AppendMore(w)
      <4>1. IsLine(pending[w])
        BY <1>1, <3>5, AofAssumption DEF IInv, PendingOK, AppendMore
      <4>2. ASSUME NEW c PROVE IsLine([pending[w] EXCEPT !.cmd = c])
        BY <4>1 DEF IsLine
      <4> QED
        BY <2>4, <3>5, <4>2 DEF AppendMore
    <3>4. CASE AppendFails(w)
      <4>1. IsLine(pending[w])
        BY <1>1, <3>4 DEF IInv, PendingOK, AppendFails
      <4>2. IsLine([pending[w] EXCEPT !.cut = "mid"])
        BY <4>1 DEF IsLine
      <4> QED
        BY <2>3, <2>4, <3>4, <4>2 DEF AppendFails
    <3> QED
      BY <2>5, <3>1, <3>2, <3>3, <3>4, <3>5
  <2>6. Fsync \/ Shutdown \/ Restart => SyncedStays
    BY <2>3 DEF Fsync, Shutdown, Stopped, Restart
  <2>7. Crash => SyncedStays
    BY <1>1, PrefixKeepsSynced, TornKeepsSynced
       DEF Crash, Stopped, IInv, KeepsSynced, SyncedStays
  <2> QED
    BY <1>1, <2>5, <2>6, <2>7 DEF Next
<1> QED
  BY <1>1, Invariance, PTL DEF Spec

-----------------------------------------------------------------------------
(* Induction over the natural numbers, with a set for the predicate. *)
LEMMA NatSetInduction ==
    ASSUME NEW P, 0 \in P, \A n \in Nat : n \in P => n + 1 \in P
    PROVE  \A n \in Nat : n \in P
<1> DEFINE below == {p \in Nat \X Nat : p[1] < p[2]}
           bad == Nat \ P
<1>1. IsWellFoundedOn(below, Nat)
  BY NatLessThanWellFounded DEF OpToRel
<1> SUFFICES ASSUME bad # {} PROVE FALSE
  OBVIOUS
<1>2. bad \subseteq Nat
  OBVIOUS
<1> HIDE DEF below, bad
<1>3. PICK m \in bad : \A n \in bad : ~(<<n, m>> \in below)
  BY <1>1, <1>2, WFMin
<1>4. m \in Nat /\ m # 0 /\ m \notin P
  BY <1>3, <1>2 DEF bad
<1>5. m - 1 \in Nat /\ <<m - 1, m>> \in below
  BY <1>4 DEF below
<1>6. m - 1 \in P
  BY <1>3, <1>5 DEF bad
<1>7. (m - 1) + 1 \in P
  BY <1>5, <1>6
<1> QED
  BY <1>4, <1>7


-----------------------------------------------------------------------------
(* FoldLeft over the lines of a file. *)

(* Replaying the lines f on the tables b. *)
Replayed(b, f, ep) == FoldLeft(LAMBDA s, line : Dispatch(s, line, ep), b, f)

(* What FoldLeft makes of a set of positions, given what it made of the rest. *)
Step(g, b, f, ep, s) ==
    IF s = {} THEN b ELSE Dispatch(g[s \ {Max(s)}], f[Max(s)], ep)

(* g replays the lines of f at every set of positions up to n. *)
Replays(g, b, f, ep, n) == g = [s \in SUBSET (1 .. n) |-> Step(g, b, f, ep, s)]

(* The largest of the positions 1 to i + 1, and the others. *)
LEMMA LastPosition ==
    ASSUME NEW i \in Nat
    PROVE  Max(1 .. i + 1) = i + 1 /\ (1 .. i + 1) \ {i + 1} = 1 .. i
<1>1. i + 1 \in 1 .. i + 1 /\ \A y \in 1 .. i + 1 : i + 1 >= y
  OBVIOUS
<1>2. \A x \in 1 .. i + 1 : (\A y \in 1 .. i + 1 : x >= y) => x = i + 1
  <2> TAKE x \in 1 .. i + 1
  <2> HAVE \A y \in 1 .. i + 1 : x >= y
  <2>1. x >= i + 1 /\ x <= i + 1 /\ x \in Int
    BY <1>1
  <2> QED
    BY <2>1
<1>3. Max(1 .. i + 1) = i + 1
  BY <1>1, <1>2 DEF Max
<1> QED
  BY <1>3

(* The largest position of a set, where the others are smaller. *)
LEMMA MaxOfPositions ==
    ASSUME NEW n \in Nat, NEW s \in SUBSET (1 .. n + 1)
    PROVE  s = {} \/ s \ {Max(s)} \in SUBSET (1 .. n)
<1> SUFFICES ASSUME s # {} PROVE s \ {Max(s)} \in SUBSET (1 .. n)
  OBVIOUS
<1>1. CASE n + 1 \in s
  <2>1. \A y \in s : n + 1 >= y
    OBVIOUS
  <2>2. \A x \in s : (\A y \in s : x >= y) => x = n + 1
    <3> TAKE x \in s
    <3> HAVE \A y \in s : x >= y
    <3>1. x >= n + 1 /\ x <= n + 1 /\ x \in Int
      BY <1>1, <2>1
    <3> QED
      BY <3>1
  <2>3. Max(s) = n + 1
    BY <1>1, <2>1, <2>2 DEF Max
  <2> QED
    BY <2>3
<1>2. CASE n + 1 \notin s
  <2>1. \A x \in s : x \in 1 .. n + 1 /\ x # n + 1
    BY <1>2
  <2>2. \A x \in s : x \in 1 .. n
    BY <2>1
  <2> QED
    BY <2>2
<1> QED
  BY <1>1, <1>2

(* There is a function that replays. *)
LEMMA ReplayExists ==
    ASSUME NEW b, NEW f, NEW ep, NEW n \in Nat
    PROVE  \E g : Replays(g, b, f, ep, n)
<1> DEFINE Q == {m \in Nat : \E g : \A s \in SUBSET (1 .. n) :
                    s \in SUBSET (1 .. m) => g[s] = Step(g, b, f, ep, s)}
<1>1. 0 \in Q
  <2> DEFINE g == [s \in SUBSET (1 .. n) |-> b]
  <2>1. ASSUME NEW s \in SUBSET (1 .. n), s \in SUBSET (1 .. 0)
        PROVE  g[s] = Step(g, b, f, ep, s)
    <3>1. s = {}
      BY <2>1
    <3> QED
      BY <3>1 DEF Step
  <2> HIDE DEF g
  <2> QED
    BY <2>1
<1>2. ASSUME NEW m \in Nat, m \in Q PROVE m + 1 \in Q
  <2>1. PICK g : \A s \in SUBSET (1 .. n) :
                    s \in SUBSET (1 .. m) => g[s] = Step(g, b, f, ep, s)
    BY <1>2
  <2> DEFINE h == [s \in SUBSET (1 .. n) |-> Step(g, b, f, ep, s)]
  <2>2. ASSUME NEW s \in SUBSET (1 .. n), s \in SUBSET (1 .. m + 1)
        PROVE  h[s] = Step(h, b, f, ep, s)
    <3>1. CASE s = {}
      BY <3>1 DEF Step
    <3>2. CASE s # {}
      <4> DEFINE t == s \ {Max(s)}
      <4>1. t \in SUBSET (1 .. m) /\ t \in SUBSET (1 .. n)
        BY <2>2, <3>2, MaxOfPositions
      <4>2. h[t] = g[t]
        BY <4>1, <2>1
      <4> HIDE DEF t, h
      <4>3. Step(g, b, f, ep, s) = Step(h, b, f, ep, s)
        BY <3>2, <4>2 DEF Step, t
      <4> QED
        BY <4>3 DEF h
    <3> QED
      BY <3>1, <3>2
  <2> HIDE DEF h
  <2> QED
    BY <2>2
<1> HIDE DEF Q
<1>3. n \in Q
  BY <1>1, <1>2, NatSetInduction
<1>4. PICK g : \A s \in SUBSET (1 .. n) : g[s] = Step(g, b, f, ep, s)
  BY <1>3 DEF Q
<1> DEFINE h == [s \in SUBSET (1 .. n) |-> Step(g, b, f, ep, s)]
<1>5. ASSUME NEW s \in SUBSET (1 .. n) PROVE Step(g, b, f, ep, s) = Step(h, b, f, ep, s)
  <2>1. s \ {Max(s)} \in SUBSET (1 .. n)
    OBVIOUS
  <2>2. h[s \ {Max(s)}] = g[s \ {Max(s)}]
    BY <2>1, <1>4
  <2> HIDE DEF h
  <2> QED
    BY <2>2 DEF Step
<1>6. h = [s \in SUBSET (1 .. n) |-> Step(h, b, f, ep, s)]
  BY <1>5
<1> HIDE DEF h
<1> QED
  BY <1>6 DEF Replays

(* Replayed is the value of such a function. *)
LEMMA ReplayedIs ==
    ASSUME NEW S, NEW f \in Seq(S), NEW b, NEW ep
    PROVE  \E g : Replays(g, b, f, ep, Len(f)) /\ Replayed(b, f, ep) = g[1 .. Len(f)]
<1> DEFINE g == CHOOSE g : Replays(g, b, f, ep, Len(f))
<1>1. Replays(g, b, f, ep, Len(f))
  BY ReplayExists
<1>2. DOMAIN f = 1 .. Len(f)
  OBVIOUS
<1>3. Replayed(b, f, ep) = g[1 .. Len(f)]
  BY <1>2 DEF Replayed, FoldLeft, MapThenFoldSet, Step, Replays
<1> HIDE DEF g
<1> QED
  BY <1>1, <1>3

(* Two such functions agree as long as the lines do. *)
LEMMA ReplaysAgree ==
    ASSUME NEW b, NEW ep, NEW n \in Nat, NEW m \in Nat, n <= m, NEW f, NEW e,
           \A i \in 1 .. n : f[i] = e[i],
           NEW g, Replays(g, b, f, ep, n), NEW h, Replays(h, b, e, ep, m)
    PROVE  g[1 .. n] = h[1 .. n]
<1> DEFINE Q == {i \in Nat : i <= n => g[1 .. i] = h[1 .. i]}
<1>0. ASSUME NEW i \in Nat, i <= n
      PROVE  /\ g[1 .. i] = Step(g, b, f, ep, 1 .. i)
             /\ h[1 .. i] = Step(h, b, e, ep, 1 .. i)
  <2>1. 1 .. i \in SUBSET (1 .. n) /\ 1 .. i \in SUBSET (1 .. m)
    BY <1>0
  <2> QED
    BY <2>1 DEF Replays
<1>1. 0 \in Q
  <2>1. 1 .. 0 = {}
    OBVIOUS
  <2> QED
    BY <1>0, <2>1 DEF Step
<1>2. ASSUME NEW i \in Nat, i \in Q PROVE i + 1 \in Q
  <2> SUFFICES ASSUME i + 1 <= n PROVE g[1 .. i + 1] = h[1 .. i + 1]
    OBVIOUS
  <2>1. g[1 .. i] = h[1 .. i] /\ f[i + 1] = e[i + 1]
    BY <1>2
  <2>2. 1 .. i + 1 # {}
    OBVIOUS
  <2>3. /\ g[1 .. i + 1] = Step(g, b, f, ep, 1 .. i + 1)
        /\ h[1 .. i + 1] = Step(h, b, e, ep, 1 .. i + 1)
    BY <1>0
  <2>4. /\ g[1 .. i + 1] = Dispatch(g[1 .. i], f[i + 1], ep)
        /\ h[1 .. i + 1] = Dispatch(h[1 .. i], e[i + 1], ep)
    BY <2>2, <2>3, LastPosition DEF Step
  <2> QED
    BY <2>1, <2>4
<1> HIDE DEF Q
<1>3. n \in Q
  BY <1>1, <1>2, NatSetInduction
<1> QED
  BY <1>3 DEF Q

(* An empty file replays to the tables it started from. *)
LEMMA ReplayEmpty ==
    ASSUME NEW b, NEW ep
    PROVE  Replayed(b, <<>>, ep) = b
<1>1. <<>> \in Seq({}) /\ Len(<<>>) = 0 /\ 1 .. 0 = {}
  OBVIOUS
<1>2. PICK g : Replays(g, b, <<>>, ep, 0) /\ Replayed(b, <<>>, ep) = g[1 .. 0]
  BY <1>1, ReplayedIs
<1> QED
  BY <1>1, <1>2 DEF Replays, Step

(* One more line is dispatched after all the others. *)
LEMMA ReplayAppend ==
    ASSUME NEW S, NEW f \in Seq(S), NEW l \in S, NEW b, NEW ep
    PROVE  Replayed(b, Append(f, l), ep) = Dispatch(Replayed(b, f, ep), l, ep)
<1> DEFINE e == Append(f, l)
           n == Len(f)
<1>1. /\ n \in Nat /\ e \in Seq(S) /\ Len(e) = n + 1 /\ e[n + 1] = l
      /\ \A i \in 1 .. n : f[i] = e[i]
  OBVIOUS
<1> HIDE DEF e
<1>2. PICK g : Replays(g, b, f, ep, n) /\ Replayed(b, f, ep) = g[1 .. n]
  BY ReplayedIs
<1>3. PICK h : Replays(h, b, e, ep, n + 1) /\ Replayed(b, e, ep) = h[1 .. n + 1]
  BY <1>1, ReplayedIs
<1> HIDE DEF n
<1>4. g[1 .. n] = h[1 .. n]
  BY <1>1, <1>2, <1>3, ReplaysAgree
<1>5. 1 .. n + 1 # {} /\ 1 .. n + 1 \in SUBSET (1 .. n + 1)
  <2>1. n + 1 \in 1 .. n + 1
    BY <1>1
  <2> QED
    BY <2>1
<1>6. h[1 .. n + 1] = Step(h, b, e, ep, 1 .. n + 1)
  BY <1>3, <1>5 DEF Replays
<1>7. h[1 .. n + 1] = Dispatch(h[1 .. n], l, ep)
  BY <1>1, <1>5, <1>6, LastPosition DEF Step
<1> QED
  BY <1>2, <1>3, <1>4, <1>7 DEF e

-----------------------------------------------------------------------------
(* What one command does to the tables. *)

(* Every command is of one of eight kinds. *)
LEMMA CommandCases ==
    ASSUME NEW c \in Command
    PROVE  /\ c.key \in Keys
           /\ \/ c.op = "SET" /\ c.val \in Writes /\ c.cond \in WriteCondition
              \/ c.op = "DEL"
              \/ c.op = "INCRBY" /\ c.delta \in Deltas
              \/ c.op = "RESERVE" /\ c.amount \in Amounts
              \/ c.op = "SETTLE" /\ c.id \in Id /\ c.actual \in Actuals \cup {0}
              \/ c.op = "IDEM_BEGIN" /\ c.token \in Token /\ c.hash \in Hashes
              \/ c.op = "IDEM_COMPLETE" /\ c.body \in {"plain", "quoted"}
              \/ c.op = "IDEM_FAIL" /\ c.body \in {"none", "error"}
<1>1. Conditions \cup {"Always"} \subseteq WriteCondition
  BY AofAssumption DEF WriteCondition
<1> QED
  BY <1>1 DEF Command

(* Which operator performs it. *)
LEMMA PerformCases ==
    ASSUME NEW s, NEW c, NEW id
    PROVE  /\ c.op = "SET" => Perform(s, c, id) = DoSet(s, c)
           /\ c.op = "DEL" => Perform(s, c, id) = DoDel(s, c)
           /\ c.op = "INCRBY" => Perform(s, c, id) = DoIncrBy(s, c)
           /\ c.op = "RESERVE" => Perform(s, c, id) = DoReserve(s, c, id)
           /\ c.op = "SETTLE" => Perform(s, c, id) = DoSettle(s, c)
           /\ c.op = "IDEM_BEGIN" => Perform(s, c, id) = DoIdemBegin(s, c)
           /\ c.op = "IDEM_COMPLETE" => Perform(s, c, id) = DoIdemComplete(s, c)
           /\ c.op = "IDEM_FAIL" => Perform(s, c, id) = DoIdemFail(s, c)
BY DEF Perform

(* Sums, differences and readings of 64-bit words are 64-bit words. *)
LEMMA WordsStayWords ==
    /\ \A a, b \in 0 .. MaxU64 : AddU64(a, b) \in 0 .. MaxU64
    /\ \A n \in Number : Stoull(n) \in 0 .. MaxU64
    /\ 0 .. MaxU64 \subseteq Number
    /\ MinI64 .. MaxI64 \subseteq Number
BY WordAssumption DEF AddU64, Stoull, Number, MinI64

(* A balance of a pool is a 64-bit word. *)
LEMMA BalanceIsWord ==
    ASSUME NEW s \in Store, NEW k \in Keys
    PROVE  BalanceOf(s, k) \in 0 .. MaxU64
<1>1. s.entries[k] \in Entry \cup {NoEntry}
  BY DEF Store
<1>2. s.entries[k] # NoEntry => s.entries[k].num \in Number
  BY <1>1 DEF Entry
<1>3. 0 \in 0 .. MaxU64
  BY WordAssumption
<1> QED
  BY <1>2, <1>3, WordsStayWords DEF BalanceOf

(* Storing an entry. *)
LEMMA PutKeeps ==
    ASSUME NEW s \in Store, NEW k \in Keys, NEW e \in Entry \cup {NoEntry}
    PROVE  /\ PutEntry(s, k, e) \in Store
           /\ PutEntry(s, k, e).entries = [s.entries EXCEPT ![k] = e]
           /\ PutEntry(s, k, e).idem = s.idem
           /\ PutEntry(s, k, e).reservations = s.reservations
BY DEF PutEntry, Store

(* Storing a balance. *)
LEMMA PutBalanceKeeps ==
    ASSUME NEW s \in Store, NEW k \in Keys, NEW b \in 0 .. MaxU64
    PROVE  /\ PutBalance(s, k, b) \in Store
           /\ PutBalance(s, k, b).entries =
                 [s.entries EXCEPT ![k] = [num |-> b, clean |-> TRUE, expire_at |-> 0]]
           /\ PutBalance(s, k, b).idem = s.idem
           /\ PutBalance(s, k, b).reservations = s.reservations
<1>1. [num |-> b, clean |-> TRUE, expire_at |-> 0] \in Entry
  BY WordsStayWords DEF Entry
<1> QED
  BY <1>1, PutKeeps DEF PutBalance

(* Replacing the reservations. *)
LEMMA ReservationsReplaced ==
    ASSUME NEW s \in Store, NEW R \in SUBSET Reservation
    PROVE  /\ [s EXCEPT !.reservations = R] \in Store
           /\ [s EXCEPT !.reservations = R].entries = s.entries
           /\ [s EXCEPT !.reservations = R].idem = s.idem
           /\ [s EXCEPT !.reservations = R].reservations = R
BY DEF Store

(* SET leaves an entry. *)
LEMMA EntryAfterSet ==
    ASSUME NEW e \in Entry \cup {NoEntry}, NEW c \in Command, c.op = "SET"
    PROVE  AfterSet(e, 0, c.val, c.cond, 0) \in Entry \cup {NoEntry}
<1>1. c.val \in Value
  BY CommandCases, AofAssumption
<1> QED
  BY <1>1 DEF AfterSet, Lookup, Live, Deadline, Value, Entry

(* INCRBY leaves an entry. *)
LEMMA EntryAfterIncrBy ==
    ASSUME NEW e \in Entry \cup {NoEntry}, NEW c \in Command, c.op = "INCRBY"
    PROVE  AfterIncrBy(e, 0, c.delta, 0) \in Entry \cup {NoEntry}
<1>1. c.delta \in MinI64 .. MaxI64 /\ c.delta \in Number
  BY CommandCases, AofAssumption, WordsStayWords
<1>2. CASE ~Live(e, 0)
  BY <1>1, <1>2 DEF AfterIncrBy, Deadline, Entry
<1>3. CASE Live(e, 0) /\ IncrFails(e, c.delta)
  BY <1>3 DEF AfterIncrBy
<1>4. CASE Live(e, 0) /\ ~IncrFails(e, c.delta)
  <2>1. e \in Entry
    BY <1>4 DEF Live
  <2>2. e.num + c.delta \in Number
    BY <1>4, WordsStayWords DEF IncrFails
  <2> QED
    BY <1>4, <2>1, <2>2 DEF AfterIncrBy, Entry
<1> QED
  BY <1>2, <1>3, <1>4

(* RESERVE is refused, or leaves a balance and a reservation. *)
LEMMA ReserveResult ==
    ASSUME NEW s \in Store, NEW c \in Command, c.op = "RESERVE", NEW id \in Id
    PROVE  LET e == s.entries[c.key]
           IN  \/ /\ e = NoEntry \/ ~e.clean \/ Stoull(e.num) < c.amount
                  /\ DoReserve(s, c, id) = Refused
               \/ /\ ~(e = NoEntry \/ ~e.clean \/ Stoull(e.num) < c.amount)
                  /\ Stoull(e.num) - c.amount \in 0 .. MaxU64
                  /\ \E R \in SUBSET Reservation :
                        /\ R = s.reservations \cup
                                  {[id |-> id, key |-> c.key, amount |-> c.amount]}
                        /\ DoReserve(s, c, id) =
                              [PutBalance(s, c.key, Stoull(e.num) - c.amount)
                                  EXCEPT !.reservations = R]
<1> DEFINE e == s.entries[c.key]
           no == e = NoEntry \/ ~e.clean \/ Stoull(e.num) < c.amount
           R == s.reservations \cup {[id |-> id, key |-> c.key, amount |-> c.amount]}
<1>0. c.key \in Keys /\ e \in Entry \cup {NoEntry} /\ c.amount \in 1 .. MaxU64
  BY CommandCases, AofAssumption DEF Store
<1>1. CASE no
  BY <1>1 DEF DoReserve
<1>2. CASE ~no
  <2>1. Stoull(e.num) \in 0 .. MaxU64
    BY <1>0, <1>2, WordsStayWords DEF Entry
  <2>2. Stoull(e.num) - c.amount \in 0 .. MaxU64
    BY <1>0, <1>2, <2>1, WordAssumption
  <2>3. R \in SUBSET Reservation
    BY <1>0 DEF Store, Reservation
  <2>4. PutBalance(s, c.key, Stoull(e.num) - c.amount).reservations = s.reservations
    BY <1>0, <2>2, PutBalanceKeeps
  <2>5. DoReserve(s, c, id) = [PutBalance(s, c.key, Stoull(e.num) - c.amount)
                                  EXCEPT !.reservations = R]
    BY <1>2, <2>4 DEF DoReserve
  <2> QED
    BY <1>2, <2>2, <2>3, <2>5
<1> QED
  BY <1>1, <1>2

(* The tables t differ from s in what they hold under key k only. *)
Touches(s, t, k) ==
    /\ t \in Store
    /\ \A j \in Keys \ {k} : t.entries[j] = s.entries[j] /\ t.idem[j] = s.idem[j]

(* A command leaves well-typed tables, touches only its own key, and makes *)
(* no reservation but with the id it is given.                             *)
LEMMA PerformTouches ==
    ASSUME NEW s \in Store, NEW c \in Command, NEW id \in Id, Perform(s, c, id) # Refused
    PROVE  /\ Touches(s, Perform(s, c, id), c.key)
           /\ IdsOf(Perform(s, c, id)) \subseteq IdsOf(s) \cup {id}
<1> DEFINE k == c.key
           e == s.entries[k]
           rec == s.idem[k]
           t == Perform(s, c, id)
<1>0. k \in Keys /\ e \in Entry \cup {NoEntry} /\ rec \in Record \cup {NoRecord}
  BY CommandCases DEF Store
<1>1. ASSUME NEW d \in Entry \cup {NoEntry}, t = PutEntry(s, k, d)
      PROVE  Touches(s, t, k) /\ IdsOf(t) \subseteq IdsOf(s) \cup {id}
  <2>1. /\ t \in Store /\ t.entries = [s.entries EXCEPT ![k] = d]
        /\ t.idem = s.idem /\ t.reservations = s.reservations
    BY <1>0, <1>1, PutKeeps
  <2> HIDE DEF t, k
  <2> QED
    BY <1>0, <2>1 DEF Touches, IdsOf, Store
<1>2. CASE c.op = "SET"
  <2>1. t = PutEntry(s, k, AfterSet(e, 0, c.val, c.cond, 0))
    BY <1>2, PerformCases DEF DoSet
  <2> QED
    BY <1>0, <1>1, <1>2, <2>1, EntryAfterSet
<1>3. CASE c.op = "DEL"
  <2>1. t = PutEntry(s, k, NoEntry)
    BY <1>3, PerformCases DEF DoDel
  <2> QED
    BY <1>1, <2>1
<1>4. CASE c.op = "INCRBY"
  <2>1. t = PutEntry(s, k, AfterIncrBy(e, 0, c.delta, 0))
    BY <1>4, PerformCases DEF DoIncrBy
  <2> QED
    BY <1>0, <1>1, <1>4, <2>1, EntryAfterIncrBy
<1>5. ASSUME NEW b \in 0 .. MaxU64, NEW R \in SUBSET Reservation,
             t = [PutBalance(s, k, b) EXCEPT !.reservations = R],
             {r.id : r \in R} \subseteq IdsOf(s) \cup {id}
      PROVE  Touches(s, t, k) /\ IdsOf(t) \subseteq IdsOf(s) \cup {id}
  <2>1. /\ t \in Store
        /\ t.entries = [s.entries EXCEPT ![k] = [num |-> b, clean |-> TRUE, expire_at |-> 0]]
        /\ t.idem = s.idem /\ t.reservations = R
    BY <1>0, <1>5, PutBalanceKeeps, ReservationsReplaced
  <2> HIDE DEF t, k
  <2> QED
    BY <1>0, <1>5, <2>1 DEF Touches, IdsOf, Store
<1>6. CASE c.op = "RESERVE"
  <2>1. t = DoReserve(s, c, id)
    BY <1>6, PerformCases
  <2>2. PICK R \in SUBSET Reservation :
           /\ Stoull(e.num) - c.amount \in 0 .. MaxU64
           /\ R = s.reservations \cup {[id |-> id, key |-> c.key, amount |-> c.amount]}
           /\ t = [PutBalance(s, c.key, Stoull(e.num) - c.amount) EXCEPT !.reservations = R]
    BY <1>6, <2>1, ReserveResult
  <2>3. {q.id : q \in R} \subseteq IdsOf(s) \cup {id}
    BY <2>2 DEF IdsOf
  <2> QED
    BY <1>5, <2>2, <2>3
<1>7. CASE c.op = "SETTLE"
  <2> DEFINE found == {r \in s.reservations : r.id = c.id /\ r.key = c.key}
             r == CHOOSE r \in found : TRUE
             b == BalanceOf(s, c.key)
             balance == IF c.actual <= r.amount THEN AddU64(b, r.amount - c.actual)
                        ELSE IF b >= c.actual - r.amount THEN b - (c.actual - r.amount)
                        ELSE 0
             R == s.reservations \ {r}
  <2>1. found # {} /\ t = [PutBalance(s, k, balance) EXCEPT !.reservations = @ \ {r}]
    <3>1. t = DoSettle(s, c)
      BY <1>7, PerformCases
    <3> HIDE DEF t
    <3>2. found # {}
      BY <3>1 DEF DoSettle, t
    <3> QED
      BY <3>1, <3>2 DEF DoSettle
  <2>2. r \in s.reservations
    BY <2>1
  <2> HIDE DEF r, b
  <2>3. r.amount \in 1 .. MaxU64 /\ c.actual \in 0 .. MaxU64 /\ b \in 0 .. MaxU64
    <3>1. r.amount \in 1 .. MaxU64
      BY <2>2 DEF Store, Reservation
    <3>2. c.actual \in Actuals \cup {0} /\ 0 \in 0 .. MaxU64
      BY <1>7, CommandCases, WordAssumption
    <3>3. b \in 0 .. MaxU64
      BY <1>0, BalanceIsWord DEF b
    <3> QED
      BY <3>1, <3>2, <3>3, AofAssumption
  <2>4. c.actual <= r.amount => AddU64(b, r.amount - c.actual) \in 0 .. MaxU64
    <3>1. c.actual <= r.amount => r.amount - c.actual \in 0 .. MaxU64
      BY <2>3, WordAssumption
    <3> QED
      BY <2>3, <3>1, WordsStayWords
  <2>5. balance \in 0 .. MaxU64
    BY <2>3, <2>4, WordAssumption
  <2>6. R \in SUBSET Reservation
    BY DEF Store
  <2> HIDE DEF balance
  <2>7. PutBalance(s, k, balance).reservations = s.reservations
    BY <1>0, <2>5, PutBalanceKeeps
  <2>8. t = [PutBalance(s, k, balance) EXCEPT !.reservations = R]
    BY <2>1, <2>7 DEF r, b, balance
  <2>9. {q.id : q \in R} \subseteq IdsOf(s) \cup {id}
    BY DEF IdsOf
  <2> HIDE DEF R
  <2> QED
    BY <1>5, <2>5, <2>6, <2>8, <2>9
<1>8. ASSUME NEW d \in Record, t.idem = [s.idem EXCEPT ![k] = d], t = [s EXCEPT !.idem = t.idem]
      PROVE  Touches(s, t, k) /\ IdsOf(t) \subseteq IdsOf(s) \cup {id}
  <2> HIDE DEF t
  <2>1. t \in Store /\ t.entries = s.entries /\ t.reservations = s.reservations
    BY <1>0, <1>8 DEF Store
  <2> QED
    BY <1>0, <1>8, <2>1 DEF Touches, IdsOf, Store
<1>9. t = s => Touches(s, t, k) /\ IdsOf(t) \subseteq IdsOf(s) \cup {id}
  BY DEF Touches, IdsOf
<1>10. CASE c.op = "IDEM_BEGIN"
  <2> DEFINE d == [status |-> "InProgress", hash |-> c.hash,
                   token |-> c.token, body |-> "none"]
  <2>1. d \in Record
    BY <1>10, CommandCases DEF Record
  <2>2. t = s \/ t = [s EXCEPT !.idem[k] = d]
    BY <1>10, PerformCases DEF DoIdemBegin
  <2> HIDE DEF d
  <2>3. t = [s EXCEPT !.idem[k] = d] =>
           t.idem = [s.idem EXCEPT ![k] = d] /\ t = [s EXCEPT !.idem = t.idem]
    BY DEF Store
  <2> QED
    BY <1>8, <1>9, <2>1, <2>2, <2>3
<1>11. ASSUME NEW st \in {"Completed", "Failed"}, rec # NoRecord,
              c.body \in {"none", "plain", "quoted", "error"},
              t = [s EXCEPT !.idem[k].status = st, !.idem[k].body = c.body]
      PROVE  Touches(s, t, k) /\ IdsOf(t) \subseteq IdsOf(s) \cup {id}
  <2> DEFINE d == [rec EXCEPT !.status = st, !.body = c.body]
  <2>1. d \in Record
    BY <1>0, <1>11 DEF Record
  <2>2. s.idem \in [Keys -> Record \cup {NoRecord}]
    BY DEF Store
  <2>3. [[s.idem EXCEPT ![k].status = st] EXCEPT ![k].body = c.body] = [s.idem EXCEPT ![k] = d]
    BY <1>0, <1>11, <2>2 DEF Record
  <2>4. t.idem = [[s.idem EXCEPT ![k].status = st] EXCEPT ![k].body = c.body]
    BY <1>0, <1>11, <2>2 DEF Store
  <2>5. t = [s EXCEPT !.idem = t.idem]
    BY <1>0, <1>11, <2>2 DEF Store
  <2> HIDE DEF d
  <2> QED
    BY <1>8, <2>1, <2>3, <2>4, <2>5
<1>12. CASE c.op = "IDEM_COMPLETE"
  <2>1. t = DoIdemComplete(s, c)
    BY <1>12, PerformCases
  <2>2. Owns(s, c)
    BY <2>1 DEF DoIdemComplete
  <2>3. rec # NoRecord
    BY <2>2 DEF Owns
  <2>4. t = s \/ t = [s EXCEPT !.idem[k].status = "Completed", !.idem[k].body = c.body]
    BY <2>1, <2>2 DEF DoIdemComplete
  <2>5. c.body \in {"none", "plain", "quoted", "error"}
    BY <1>12, CommandCases
  <2> QED
    BY <1>9, <1>11, <2>3, <2>4, <2>5
<1>13. CASE c.op = "IDEM_FAIL"
  <2>1. t = DoIdemFail(s, c)
    BY <1>13, PerformCases
  <2>2. Owns(s, c)
    BY <2>1 DEF DoIdemFail
  <2>3. rec # NoRecord
    BY <2>2 DEF Owns
  <2>4. t = [s EXCEPT !.idem[k].status = "Failed", !.idem[k].body = c.body]
    BY <2>1, <2>2 DEF DoIdemFail
  <2>5. c.body \in {"none", "plain", "quoted", "error"}
    BY <1>13, CommandCases
  <2> QED
    BY <1>11, <2>3, <2>4, <2>5
<1> QED
  BY <1>2, <1>3, <1>4, <1>6, <1>7, <1>10, <1>12, <1>13, CommandCases

(* What two stores hold under a key is the same. *)
SameAt(s, t, k) == s.entries[k] = t.entries[k] /\ s.idem[k] = t.idem[k]

(* What a command that settles nothing does to its key depends only on     *)
(* what is under that key: not on other keys, and not on reservation ids.  *)
LEMMA PerformSame ==
    ASSUME NEW s \in Store, NEW t \in Store, NEW c \in Command, NEW i \in Id, NEW j \in Id,
           SameAt(s, t, c.key),
           c.op = "SETTLE" => c.id \notin IdsOf(s) \cup IdsOf(t)
    PROVE  \/ Perform(s, c, i) = Refused /\ Perform(t, c, j) = Refused
           \/ /\ Perform(s, c, i) # Refused /\ Perform(t, c, j) # Refused
              /\ SameAt(Perform(s, c, i), Perform(t, c, j), c.key)
<1> DEFINE k == c.key
           e == s.entries[k]
           rec == s.idem[k]
           p == Perform(s, c, i)
           q == Perform(t, c, j)
           goal == \/ p = Refused /\ q = Refused
                   \/ p # Refused /\ q # Refused /\ SameAt(p, q, k)
<1>0. /\ k \in Keys /\ e \in Entry \cup {NoEntry} /\ rec \in Record \cup {NoRecord}
      /\ t.entries[k] = e /\ t.idem[k] = rec
      /\ s.entries \in [Keys -> Entry \cup {NoEntry}] /\ s.idem \in [Keys -> Record \cup {NoRecord}]
      /\ t.entries \in [Keys -> Entry \cup {NoEntry}] /\ t.idem \in [Keys -> Record \cup {NoRecord}]
  BY CommandCases DEF Store, SameAt
<1> SUFFICES goal
  OBVIOUS
<1>1. ASSUME p \in Store, q \in Store, p.entries[k] = q.entries[k], p.idem[k] = q.idem[k]
      PROVE  goal
  BY <1>1, AofAssumption DEF SameAt
<1>2. ASSUME NEW d \in Entry \cup {NoEntry}, p = PutEntry(s, k, d), q = PutEntry(t, k, d)
      PROVE  goal
  <2>0. k \in Keys
    BY <1>0
  <2> HIDE DEF p, q, k, goal
  <2>1. p \in Store /\ p.entries = [s.entries EXCEPT ![k] = d] /\ p.idem = s.idem
    BY <1>2, <2>0, PutKeeps
  <2>2. q \in Store /\ q.entries = [t.entries EXCEPT ![k] = d] /\ q.idem = t.idem
    BY <1>2, <2>0, PutKeeps
  <2>3. p.entries[k] = q.entries[k] /\ p.idem[k] = q.idem[k]
    BY <1>0, <2>1, <2>2
  <2> QED
    BY <1>1, <2>1, <2>2, <2>3
<1>3. ASSUME NEW d \in Record, p = [s EXCEPT !.idem[k] = d], q = [t EXCEPT !.idem[k] = d]
      PROVE  goal
  <2>1. \A u \in Store : /\ [u EXCEPT !.idem[k] = d] \in Store
                         /\ [u EXCEPT !.idem[k] = d].idem[k] = d
                         /\ [u EXCEPT !.idem[k] = d].entries = u.entries
    BY <1>0 DEF Store
  <2>2. p \in Store /\ q \in Store /\ p.idem[k] = q.idem[k]
        /\ p.entries = s.entries /\ q.entries = t.entries
    BY <1>3, <2>1
  <2> HIDE DEF p, q, k
  <2> QED
    BY <1>0, <1>1, <2>2
<1>4. ASSUME p = s, q = t PROVE goal
  BY <1>0, <1>1, <1>4
<1>5. CASE c.op = "SET"
  <2>1. p = DoSet(s, c) /\ q = DoSet(t, c)
    BY <1>5, PerformCases
  <2>2. CASE Refuses(c.cond, e)
    BY <1>0, <2>1, <2>2 DEF DoSet
  <2>3. CASE ~Refuses(c.cond, e)
    <3> DEFINE d == AfterSet(e, 0, c.val, c.cond, 0)
    <3>1. p = PutEntry(s, k, d) /\ q = PutEntry(t, k, d)
      BY <1>0, <2>1, <2>3 DEF DoSet
    <3>2. d \in Entry \cup {NoEntry}
      BY <1>0, <1>5, EntryAfterSet
    <3> QED
      BY <1>2, <3>1, <3>2
  <2> QED
    BY <2>2, <2>3
<1>6. CASE c.op = "DEL"
  <2>1. p = DoDel(s, c) /\ q = DoDel(t, c)
    BY <1>6, PerformCases
  <2>2. CASE e = NoEntry
    BY <1>0, <2>1, <2>2 DEF DoDel
  <2>3. CASE e # NoEntry
    <3>1. p = PutEntry(s, k, NoEntry) /\ q = PutEntry(t, k, NoEntry)
      BY <1>0, <2>1, <2>3 DEF DoDel
    <3> QED
      BY <1>2, <3>1
  <2> QED
    BY <2>2, <2>3
<1>7. CASE c.op = "INCRBY"
  <2>1. p = DoIncrBy(s, c) /\ q = DoIncrBy(t, c)
    BY <1>7, PerformCases
  <2>2. CASE e # NoEntry /\ IncrFails(e, c.delta)
    BY <1>0, <2>1, <2>2 DEF DoIncrBy
  <2>3. CASE ~(e # NoEntry /\ IncrFails(e, c.delta))
    <3> DEFINE d == AfterIncrBy(e, 0, c.delta, 0)
    <3>1. p = PutEntry(s, k, d) /\ q = PutEntry(t, k, d)
      BY <1>0, <2>1, <2>3 DEF DoIncrBy
    <3>2. d \in Entry \cup {NoEntry}
      BY <1>0, <1>7, EntryAfterIncrBy
    <3> QED
      BY <1>2, <3>1, <3>2
  <2> QED
    BY <2>2, <2>3
<1>8. CASE c.op = "RESERVE"
  <2> DEFINE no == e = NoEntry \/ ~e.clean \/ Stoull(e.num) < c.amount
             b == Stoull(e.num) - c.amount
  <2>1. p = DoReserve(s, c, i) /\ q = DoReserve(t, c, j)
    BY <1>8, PerformCases
  <2>2. CASE no
    BY <1>0, <2>1, <2>2 DEF DoReserve
  <2>3. CASE ~no
    <3>1. PICK R \in SUBSET Reservation :
             b \in 0 .. MaxU64 /\ p = [PutBalance(s, k, b) EXCEPT !.reservations = R]
      BY <1>0, <1>8, <2>1, <2>3, ReserveResult
    <3>2. PICK Q \in SUBSET Reservation :
             q = [PutBalance(t, k, b) EXCEPT !.reservations = Q]
      <4> DEFINE f == t.entries[c.key]
      <4>1. f = e
        BY <1>0
      <4>2. \E Q \in SUBSET Reservation :
               q = [PutBalance(t, k, Stoull(f.num) - c.amount) EXCEPT !.reservations = Q]
        <5>1. ~(f = NoEntry \/ ~f.clean \/ Stoull(f.num) < c.amount)
          BY <2>3, <4>1
        <5> QED
          BY <1>8, <2>1, <5>1, ReserveResult
      <4> QED
        BY <4>1, <4>2
    <3> HIDE DEF b, p, q, k, goal
    <3>3. /\ p \in Store
          /\ p.entries = [s.entries EXCEPT ![k] = [num |-> b, clean |-> TRUE, expire_at |-> 0]]
          /\ p.idem = s.idem
      <4> DEFINE u == PutBalance(s, k, b)
      <4>1. /\ u \in Store /\ u.idem = s.idem
            /\ u.entries = [s.entries EXCEPT ![k] = [num |-> b, clean |-> TRUE, expire_at |-> 0]]
        BY <1>0, <3>1, PutBalanceKeeps
      <4> HIDE DEF u
      <4>2. p = [u EXCEPT !.reservations = R]
        BY <3>1 DEF u
      <4> QED
        BY <4>1, <4>2, ReservationsReplaced
    <3>4. /\ q \in Store
          /\ q.entries = [t.entries EXCEPT ![k] = [num |-> b, clean |-> TRUE, expire_at |-> 0]]
          /\ q.idem = t.idem
      <4> DEFINE u == PutBalance(t, k, b)
      <4>1. /\ u \in Store /\ u.idem = t.idem
            /\ u.entries = [t.entries EXCEPT ![k] = [num |-> b, clean |-> TRUE, expire_at |-> 0]]
        BY <1>0, <3>1, PutBalanceKeeps
      <4> HIDE DEF u
      <4>2. q = [u EXCEPT !.reservations = Q]
        BY <3>2 DEF u
      <4> QED
        BY <4>1, <4>2, ReservationsReplaced
    <3>5. p.entries[k] = q.entries[k] /\ p.idem[k] = q.idem[k]
      BY <1>0, <3>3, <3>4
    <3> QED
      BY <1>1, <3>3, <3>4, <3>5
  <2> QED
    BY <2>2, <2>3
<1>9. CASE c.op = "SETTLE"
  <2>1. p = DoSettle(s, c) /\ q = DoSettle(t, c)
    BY <1>9, PerformCases
  <2>2. /\ {r \in s.reservations : r.id = c.id /\ r.key = c.key} = {}
        /\ {r \in t.reservations : r.id = c.id /\ r.key = c.key} = {}
    BY <1>9 DEF IdsOf
  <2>3. p = Refused /\ q = Refused
    BY <2>1, <2>2 DEF DoSettle
  <2> QED
    BY <2>3
<1>10. CASE c.op = "IDEM_BEGIN"
  <2> DEFINE d == [status |-> "InProgress", hash |-> c.hash,
                   token |-> c.token, body |-> "none"]
  <2>1. p = DoIdemBegin(s, c) /\ q = DoIdemBegin(t, c)
    BY <1>10, PerformCases
  <2>2. d \in Record
    BY <1>10, CommandCases DEF Record
  <2>3. \/ p = [s EXCEPT !.idem[k] = d] /\ q = [t EXCEPT !.idem[k] = d]
        \/ p = s /\ q = t
        \/ p = Refused /\ q = Refused
    BY <1>0, <2>1 DEF DoIdemBegin
  <2> HIDE DEF d
  <2> QED
    BY <1>3, <1>4, <2>2, <2>3
<1>11. ASSUME NEW st \in {"Completed", "Failed"}, rec # NoRecord,
              c.body \in {"none", "plain", "quoted", "error"},
              p = [s EXCEPT !.idem[k].status = st, !.idem[k].body = c.body],
              q = [t EXCEPT !.idem[k].status = st, !.idem[k].body = c.body]
      PROVE  goal
  <2> DEFINE d == [rec EXCEPT !.status = st, !.body = c.body]
  <2>1. d \in Record
    BY <1>0, <1>11 DEF Record
  <2>2. ASSUME NEW u \in Store, u.idem[k] = rec
        PROVE  [u EXCEPT !.idem[k].status = st, !.idem[k].body = c.body] =
                  [u EXCEPT !.idem[k] = d]
    <3>1. u.idem \in [Keys -> Record \cup {NoRecord}]
      BY DEF Store
    <3>2. [[u.idem EXCEPT ![k].status = st] EXCEPT ![k].body = c.body]
            = [u.idem EXCEPT ![k] = d]
      BY <1>0, <1>11, <2>2, <3>1 DEF Record
    <3> QED
      BY <1>0, <1>11, <3>1, <3>2 DEF Store
  <2> HIDE DEF d
  <2>3. p = [s EXCEPT !.idem[k] = d] /\ q = [t EXCEPT !.idem[k] = d]
    BY <1>0, <1>11, <2>2
  <2> QED
    BY <1>3, <2>1, <2>3
<1>12. Owns(s, c) <=> Owns(t, c)
  BY <1>0 DEF Owns
<1>13. CASE c.op = "IDEM_COMPLETE"
  <2>1. p = DoIdemComplete(s, c) /\ q = DoIdemComplete(t, c)
    BY <1>13, PerformCases
  <2>2. CASE ~Owns(s, c)
    BY <1>12, <2>1, <2>2 DEF DoIdemComplete
  <2>3. CASE Owns(s, c)
    <3>1. rec # NoRecord
      BY <2>3 DEF Owns
    <3>2. c.body \in {"none", "plain", "quoted", "error"}
      BY <1>13, CommandCases
    <3>3. \/ p = s /\ q = t
          \/ /\ p = [s EXCEPT !.idem[k].status = "Completed", !.idem[k].body = c.body]
             /\ q = [t EXCEPT !.idem[k].status = "Completed", !.idem[k].body = c.body]
      BY <1>0, <1>12, <2>1, <2>3 DEF DoIdemComplete
    <3> QED
      BY <1>4, <1>11, <3>1, <3>2, <3>3
  <2> QED
    BY <2>2, <2>3
<1>14. CASE c.op = "IDEM_FAIL"
  <2>1. p = DoIdemFail(s, c) /\ q = DoIdemFail(t, c)
    BY <1>14, PerformCases
  <2>2. CASE ~Owns(s, c)
    BY <1>12, <2>1, <2>2 DEF DoIdemFail
  <2>3. CASE Owns(s, c)
    <3>1. rec # NoRecord
      BY <2>3 DEF Owns
    <3>2. c.body \in {"none", "plain", "quoted", "error"}
      BY <1>14, CommandCases
    <3>3. /\ p = [s EXCEPT !.idem[k].status = "Failed", !.idem[k].body = c.body]
          /\ q = [t EXCEPT !.idem[k].status = "Failed", !.idem[k].body = c.body]
      BY <1>12, <2>1, <2>3 DEF DoIdemFail
    <3> QED
      BY <1>11, <3>1, <3>2, <3>3
  <2> QED
    BY <2>2, <2>3
<1> QED
  BY <1>5, <1>6, <1>7, <1>8, <1>9, <1>10, <1>13, <1>14, CommandCases

-----------------------------------------------------------------------------
(* What one line, and a file of lines, does to the tables. *)

(* The reservations in a store were made up by a load in epoch ep. *)
Numbered(s, ep) == \A r \in s.reservations : r.id[1] = ep

(* A line settles, if anything, a reservation of an earlier epoch. *)
Old(l, ep) == l.cmd.op = "SETTLE" => l.cmd.id[1] < ep

(* Induction over sequences, one element at a time. *)
LEMMA SeqSetInduction ==
    ASSUME NEW S, NEW P, <<>> \in P,
           \A f \in Seq(S), l \in S : f \in P => Append(f, l) \in P
    PROVE  \A f \in Seq(S) : f \in P
<1> DEFINE Q == {n \in Nat : \A f \in Seq(S) : Len(f) = n => f \in P}
<1>1. 0 \in Q
  <2> SUFFICES ASSUME NEW f \in Seq(S), Len(f) = 0 PROVE f \in P
    OBVIOUS
  <2>1. f = <<>>
    OBVIOUS
  <2> QED
    BY <2>1
<1>2. ASSUME NEW n \in Nat, n \in Q PROVE n + 1 \in Q
  <2> SUFFICES ASSUME NEW f \in Seq(S), Len(f) = n + 1 PROVE f \in P
    OBVIOUS
  <2>1. f # <<>>
    OBVIOUS
  <2>2. PICK g \in Seq(S), l \in S : f = Append(g, l)
    BY <2>1, SequenceEmptyOrAppend
  <2>3. Len(g) = n
    BY <2>2
  <2> QED
    BY <1>2, <2>2, <2>3
<1> HIDE DEF Q
<1>3. \A n \in Nat : n \in Q
  BY <1>1, <1>2, NatSetInduction
<1> QED
  BY <1>3 DEF Q

(* A line leaves well-typed tables and touches only its own key. *)
LEMMA DispatchTouches ==
    ASSUME NEW s \in Store, NEW l \in Line, NEW ep \in Nat
    PROVE  /\ Dispatch(s, l, ep) \in Store
           /\ \A k \in Keys : k # l.cmd.key => SameAt(Dispatch(s, l, ep), s, k)
           /\ ~Readable(l) => Dispatch(s, l, ep) = s
           /\ Numbered(s, ep) => Numbered(Dispatch(s, l, ep), ep)
<1> DEFINE t == Perform(s, l.cmd, <<ep, l.n>>)
<1>1. l.cmd \in Command /\ <<ep, l.n>> \in Id
  BY DEF Line, Id
<1>2. CASE ~Readable(l) \/ t = Refused
  <2>1. Dispatch(s, l, ep) = s
    BY <1>2 DEF Dispatch
  <2> QED
    BY <2>1 DEF SameAt
<1>3. CASE Readable(l) /\ t # Refused
  <2>1. Dispatch(s, l, ep) = t
    BY <1>3 DEF Dispatch
  <2>2. Touches(s, t, l.cmd.key) /\ IdsOf(t) \subseteq IdsOf(s) \cup {<<ep, l.n>>}
    BY <1>1, <1>3, PerformTouches
  <2> HIDE DEF t
  <2>3. Numbered(s, ep) => Numbered(t, ep)
    <3> SUFFICES ASSUME Numbered(s, ep), NEW r \in t.reservations PROVE r.id[1] = ep
      BY DEF Numbered
    <3>1. r.id \in IdsOf(s) \/ r.id = <<ep, l.n>>
      BY <2>2 DEF IdsOf
    <3> QED
      BY <3>1 DEF Numbered, IdsOf
  <2> QED
    BY <1>3, <2>1, <2>2, <2>3 DEF Touches, SameAt
<1> QED
  BY <1>2, <1>3

(* What a line does to a key depends only on what is under that key. *)
LEMMA DispatchSame ==
    ASSUME NEW s \in Store, NEW t \in Store, NEW l \in Line, NEW d \in Nat, NEW e \in Nat,
           Numbered(s, d), Numbered(t, e), Old(l, d), Old(l, e),
           NEW k \in Keys, SameAt(s, t, k)
    PROVE  SameAt(Dispatch(s, l, d), Dispatch(t, l, e), k)
<1>1. CASE ~Readable(l)
  BY <1>1 DEF Dispatch
<1>2. CASE k # l.cmd.key
  BY <1>2, DispatchTouches DEF SameAt
<1>3. CASE Readable(l) /\ k = l.cmd.key
  <2> DEFINE p == Perform(s, l.cmd, <<d, l.n>>)
             q == Perform(t, l.cmd, <<e, l.n>>)
  <2>1. l.cmd \in Command /\ <<d, l.n>> \in Id /\ <<e, l.n>> \in Id
    BY DEF Line, Id
  <2>2. l.cmd.op = "SETTLE" => l.cmd.id \notin IdsOf(s) \cup IdsOf(t)
    <3> SUFFICES ASSUME l.cmd.op = "SETTLE", l.cmd.id \in IdsOf(s) \cup IdsOf(t) PROVE FALSE
      OBVIOUS
    <3>1. l.cmd.id \in Id
      BY <2>1, CommandCases
    <3>2. l.cmd.id[1] \in Nat /\ l.cmd.id[1] < d /\ l.cmd.id[1] < e
      BY <3>1 DEF Old, Id
    <3>3. l.cmd.id[1] = d \/ l.cmd.id[1] = e
      BY DEF IdsOf, Numbered
    <3> QED
      BY <3>2, <3>3
  <2>3. \/ p = Refused /\ q = Refused
        \/ p # Refused /\ q # Refused /\ SameAt(p, q, k)
    BY <1>3, <2>1, <2>2, PerformSame
  <2>4. /\ Dispatch(s, l, d) = IF p = Refused THEN s ELSE p
        /\ Dispatch(t, l, e) = IF q = Refused THEN t ELSE q
    BY <1>3 DEF Dispatch
  <2> HIDE DEF p, q
  <2> QED
    BY <2>3, <2>4
<1> QED
  BY <1>1, <1>2, <1>3

(* The tables of a server that has loaded nothing. *)
LEMMA EmptyIsStore == EmptyStore \in Store /\ \A ep : Numbered(EmptyStore, ep)
BY DEF EmptyStore, Store, Numbered

(* What a replay leaves. *)
LEMMA ReplayedFacts ==
    ASSUME NEW b \in Store, NEW ep \in Nat, Numbered(b, ep)
    PROVE  \A f \in Seq(Line) : Replayed(b, f, ep) \in Store /\ Numbered(Replayed(b, f, ep), ep)
<1> DEFINE P == {f \in Seq(Line) : /\ Replayed(b, f, ep) \in Store
                                   /\ Numbered(Replayed(b, f, ep), ep)}
<1>1. <<>> \in P
  BY ReplayEmpty
<1>2. ASSUME NEW f \in Seq(Line), NEW l \in Line, f \in P PROVE Append(f, l) \in P
  BY <1>2, ReplayAppend, DispatchTouches
<1> HIDE DEF P
<1>3. \A f \in Seq(Line) : f \in P
  BY <1>1, <1>2, SeqSetInduction
<1> QED
  BY <1>3 DEF P

(* AofLoader::Load leaves well-typed tables, with ids of its own epoch. *)
LEMMA LoadFacts ==
    ASSUME NEW f \in Seq(Line), NEW ep \in Nat
    PROVE  /\ Load(f, ep) = Replayed(EmptyStore, f, ep)
           /\ Load(f, ep) \in Store /\ Numbered(Load(f, ep), ep)
<1>1. Load(f, ep) = Replayed(EmptyStore, f, ep)
  BY DEF Load, Replayed
<1> QED
  BY <1>1, EmptyIsStore, ReplayedFacts

(* One more line in the file. *)
LEMMA LoadAppend ==
    ASSUME NEW f \in Seq(Line), NEW l \in Line, NEW ep \in Nat
    PROVE  Load(Append(f, l), ep) = Dispatch(Load(f, ep), l, ep)
<1>1. Append(f, l) \in Seq(Line)
  OBVIOUS
<1>2. Load(Append(f, l), ep) = Replayed(EmptyStore, Append(f, l), ep)
  BY <1>1, LoadFacts
<1>3. Load(f, ep) = Replayed(EmptyStore, f, ep)
  BY LoadFacts
<1> QED
  BY <1>2, <1>3, ReplayAppend

(* The same file loads to the same entries and records in every epoch.     *)
LEMMA LoadSame ==
    ASSUME NEW d \in Nat, NEW e \in Nat, NEW k \in Keys
    PROVE  \A f \in Seq(Line) :
              (\A i \in 1 .. Len(f) : Old(f[i], d) /\ Old(f[i], e))
                  => SameAt(Load(f, d), Load(f, e), k)
<1> DEFINE P == {f \in Seq(Line) :
                    (\A i \in 1 .. Len(f) : Old(f[i], d) /\ Old(f[i], e))
                        => SameAt(Load(f, d), Load(f, e), k)}
<1>1. <<>> \in P
  <2>1. <<>> \in Seq(Line)
    OBVIOUS
  <2>2. Load(<<>>, d) = EmptyStore /\ Load(<<>>, e) = EmptyStore
    BY <2>1, LoadFacts, ReplayEmpty
  <2> QED
    BY <2>1, <2>2 DEF SameAt
<1>2. ASSUME NEW f \in Seq(Line), NEW l \in Line, f \in P PROVE Append(f, l) \in P
  <2> DEFINE g == Append(f, l)
  <2>1. /\ g \in Seq(Line) /\ Len(f) \in Nat /\ Len(g) = Len(f) + 1 /\ g[Len(f) + 1] = l
        /\ \A i \in 1 .. Len(f) : g[i] = f[i]
    OBVIOUS
  <2>2. Load(g, d) = Dispatch(Load(f, d), l, d) /\ Load(g, e) = Dispatch(Load(f, e), l, e)
    BY LoadAppend
  <2> HIDE DEF g
  <2> SUFFICES ASSUME \A i \in 1 .. Len(g) : Old(g[i], d) /\ Old(g[i], e)
               PROVE  SameAt(Load(g, d), Load(g, e), k)
    BY <2>1 DEF g
  <2>3. \A i \in 1 .. Len(f) : Old(f[i], d) /\ Old(f[i], e)
    BY <2>1
  <2>4. Old(l, d) /\ Old(l, e)
    BY <2>1
  <2>5. SameAt(Load(f, d), Load(f, e), k)
    BY <1>2, <2>3
  <2> QED
    BY <2>2, <2>4, <2>5, LoadFacts, DispatchSame
<1> HIDE DEF P
<1>3. \A f \in Seq(Line) : f \in P
  BY <1>1, <1>2, SeqSetInduction
<1> QED
  BY <1>3 DEF P

(* Lines of other keys leave a key alone; a single line of its own does    *)
(* with it what it does wherever it stands.                                *)
LEMMA ReplayOne ==
    ASSUME NEW b \in Store, NEW ep \in Nat, Numbered(b, ep), NEW k \in Keys
    PROVE  \A f \in Seq(Line) :
              (\A i \in 1 .. Len(f) : Old(f[i], ep)) =>
                  /\ (\A i \in 1 .. Len(f) : f[i].cmd.key # k)
                        => SameAt(Replayed(b, f, ep), b, k)
                  /\ \A i \in 1 .. Len(f) :
                        (\A j \in 1 .. Len(f) : f[j].cmd.key = k <=> j = i)
                            => SameAt(Replayed(b, f, ep), Dispatch(b, f[i], ep), k)
<1> DEFINE None(f) == (\A i \in 1 .. Len(f) : f[i].cmd.key # k)
                          => SameAt(Replayed(b, f, ep), b, k)
           One(f) == \A i \in 1 .. Len(f) :
                        (\A j \in 1 .. Len(f) : f[j].cmd.key = k <=> j = i)
                            => SameAt(Replayed(b, f, ep), Dispatch(b, f[i], ep), k)
           P == {f \in Seq(Line) :
                    (\A i \in 1 .. Len(f) : Old(f[i], ep)) => None(f) /\ One(f)}
<1>1. <<>> \in P
  BY ReplayEmpty DEF SameAt
<1>2. ASSUME NEW f \in Seq(Line), NEW l \in Line, f \in P PROVE Append(f, l) \in P
  <2> DEFINE g == Append(f, l)
             s == Replayed(b, f, ep)
             n == Len(f)
  <2>1. /\ g \in Seq(Line) /\ n \in Nat /\ Len(g) = n + 1 /\ g[n + 1] = l
        /\ \A i \in 1 .. n : g[i] = f[i]
    OBVIOUS
  <2>2. Replayed(b, g, ep) = Dispatch(s, l, ep) /\ s \in Store /\ Numbered(s, ep)
    BY ReplayAppend, ReplayedFacts
  <2> HIDE DEF g, s, n
  <2> SUFFICES ASSUME \A i \in 1 .. Len(g) : Old(g[i], ep)
               PROVE  None(g) /\ One(g)
    BY <2>1 DEF g
  <2>3. Old(l, ep) /\ \A i \in 1 .. n : Old(f[i], ep)
    BY <2>1
  <2>4. None(f) /\ One(f)
    BY <1>2, <2>3 DEF n
  <2>5. None(g)
    <3> SUFFICES ASSUME \A i \in 1 .. n + 1 : g[i].cmd.key # k
                 PROVE  SameAt(Dispatch(s, l, ep), b, k)
      BY <2>1, <2>2
    <3>1. l.cmd.key # k /\ \A i \in 1 .. n : f[i].cmd.key # k
      BY <2>1
    <3>2. SameAt(s, b, k)
      BY <2>4, <3>1 DEF n, s
    <3>3. SameAt(Dispatch(s, l, ep), s, k)
      BY <2>2, <3>1, DispatchTouches
    <3> QED
      BY <3>2, <3>3 DEF SameAt
  <2>6. One(g)
    <3> SUFFICES ASSUME NEW i \in 1 .. n + 1,
                        \A j \in 1 .. n + 1 : g[j].cmd.key = k <=> j = i
                 PROVE  SameAt(Dispatch(s, l, ep), Dispatch(b, g[i], ep), k)
      BY <2>1, <2>2
    <3>1. CASE i = n + 1
      <4>1. \A j \in 1 .. n : f[j].cmd.key # k
        BY <2>1, <3>1
      <4>2. SameAt(s, b, k) /\ g[i] = l
        BY <2>1, <2>4, <3>1, <4>1 DEF n, s
      <4> QED
        BY <2>2, <2>3, <4>2, DispatchSame
    <3>2. CASE i # n + 1
      <4>1. i \in 1 .. n /\ n + 1 \in 1 .. n + 1
        BY <2>1, <3>2
      <4>2. l.cmd.key # k /\ g[i] = f[i] /\ \A j \in 1 .. n : f[j].cmd.key = k <=> j = i
        BY <2>1, <3>2, <4>1
      <4>3. SameAt(s, Dispatch(b, f[i], ep), k)
        BY <2>4, <4>1, <4>2 DEF n, s
      <4>4. SameAt(Dispatch(s, l, ep), s, k)
        BY <2>2, <4>2, DispatchTouches
      <4> QED
        BY <4>2, <4>3, <4>4 DEF SameAt
    <3> QED
      BY <3>1, <3>2
  <2> QED
    BY <2>5, <2>6
<1> HIDE DEF P
<1>3. \A f \in Seq(Line) : f \in P
  BY <1>1, <1>2, SeqSetInduction
<1> QED
  BY <1>3 DEF P

(* A file with a last line. *)
LEMMA FileEnd ==
    ASSUME NEW f \in Seq(Line), f # <<>>
    PROVE  /\ Front(f) \in Seq(Line) /\ Last(f) = f[Len(f)] /\ Last(f) \in Line
           /\ Len(f) \in Nat /\ Len(f) >= 1 /\ Len(Front(f)) = Len(f) - 1
           /\ \A i \in 1 .. Len(f) - 1 : Front(f)[i] = f[i]
           /\ f = Append(Front(f), Last(f))
<1>1. Len(f) \in Nat /\ Len(f) >= 1 /\ Len(f) - 1 \in 0 .. Len(f)
  OBVIOUS
<1>2. /\ Front(f) \in Seq(Line) /\ Len(Front(f)) = Len(f) - 1
      /\ \A i \in 1 .. Len(f) - 1 : Front(f)[i] = f[i]
  BY <1>1, FirstLines DEF Front
<1>3. Last(f) = f[Len(f)] /\ Last(f) \in Line
  BY <1>1 DEF Last
<1>4. f = Append(Front(f), Last(f))
  <2> DEFINE g == Append(Front(f), Last(f))
  <2>1. g \in Seq(Line) /\ Len(g) = Len(f)
    BY <1>1, <1>2, <1>3
  <2>2. \A i \in 1 .. Len(f) : g[i] = f[i]
    BY <1>1, <1>2, <1>3
  <2> HIDE DEF g
  <2>3. f = g
    BY <2>1, <2>2, SeqEqual
  <2> QED
    BY <2>3 DEF g
<1> QED
  BY <1>1, <1>2, <1>3, <1>4

(* The commands and numbers in a file that is written to, and what it      *)
(* loads to but for the keys of the lines that are spoilt.                 *)
LEMMA WrittenLoads ==
    ASSUME NEW f \in Seq(Line), \A i \in 1 .. Len(f) - 1 : f[i].cut \in {"none", "glued"},
           NEW l \in Line
    PROVE  /\ Written(f, l) \in Seq(Line)
           /\ Len(Written(f, l)) \in Nat /\ Len(f) <= Len(Written(f, l))
           /\ \A i \in 1 .. Len(Written(f, l)) - 1 : Written(f, l)[i].cut \in {"none", "glued"}
           /\ \A i \in 1 .. Len(Written(f, l)) :
                 \E x \in {l} \cup {f[j] : j \in 1 .. Len(f)} :
                    Written(f, l)[i].n = x.n /\ Written(f, l)[i].cmd = x.cmd
           /\ Spoilt(f, l) \subseteq {l} \cup {f[j] : j \in 1 .. Len(f)}
           /\ \A ep \in Nat, k \in Keys : k \notin {x.cmd.key : x \in Spoilt(f, l)} =>
                 SameAt(Load(Written(f, l), ep), Dispatch(Load(f, ep), l, ep), k)
<1> DEFINE g == Written(f, l)
           Lines == {l} \cup {f[j] : j \in 1 .. Len(f)}
<1>0. Len(f) \in Nat
  OBVIOUS
<1>1. CASE ~EndsTorn(f)
  <2>1. g = Append(f, l) /\ Spoilt(f, l) = {}
    BY <1>1 DEF Written, Spoilt
  <2>2. \A i \in 1 .. Len(f) : f[i].cut \in {"none", "glued"}
    <3> SUFFICES ASSUME NEW i \in 1 .. Len(f), i = Len(f) PROVE f[i].cut \in {"none", "glued"}
      BY <1>0
    <3>1. f # <<>> /\ f[i] \in Line
      OBVIOUS
    <3>2. Last(f) = f[i]
      BY DEF Last
    <3> QED
      BY <1>1, <3>1, <3>2 DEF EndsTorn, Line
  <2>3. \A ep \in Nat : Load(g, ep) = Dispatch(Load(f, ep), l, ep)
    BY <2>1, LoadAppend
  <2> HIDE DEF g
  <2>4. /\ g \in Seq(Line) /\ Len(g) = Len(f) + 1 /\ g[Len(f) + 1] = l
        /\ \A i \in 1 .. Len(f) : g[i] = f[i]
    BY <1>0, <2>1
  <2>5. \A i \in 1 .. Len(g) : g[i] \in Lines
    BY <1>0, <2>4
  <2>6. \A i \in 1 .. Len(g) - 1 : g[i].cut \in {"none", "glued"}
    BY <1>0, <2>2, <2>4
  <2>7. \A i \in 1 .. Len(g) : \E x \in Lines : g[i].n = x.n /\ g[i].cmd = x.cmd
    BY <2>5
  <2> QED
    BY <1>0, <2>1, <2>3, <2>4, <2>6, <2>7 DEF SameAt, g
<1>2. CASE EndsTorn(f)
  <2> DEFINE h == Front(f)
             m == Last(f)
             e == [m EXCEPT !.cut = IF l.cut = "none" THEN "glued" ELSE "mid"]
  <2>1. f # <<>> /\ m.cut \in {"mid", "newline"}
    BY <1>2 DEF EndsTorn
  <2>2. /\ h \in Seq(Line) /\ m = f[Len(f)] /\ m \in Line
        /\ Len(f) >= 1 /\ Len(h) = Len(f) - 1
        /\ \A i \in 1 .. Len(f) - 1 : h[i] = f[i]
        /\ f = Append(h, m)
    BY <2>1, FileEnd
  <2>3. e \in Line /\ e.n = m.n /\ e.cmd = m.cmd /\ ~Readable(e)
    BY <2>2 DEF Line, Readable
  <2>4. g = Append(h, e) /\ Spoilt(f, l) = {l} \cup (IF m.cut = "newline" THEN {m} ELSE {})
    BY <1>2 DEF Written, Spoilt
  <2> HIDE DEF g, h, m, e
  <2>5. /\ g \in Seq(Line) /\ Len(g) = Len(f) /\ g[Len(f)] = e
        /\ \A i \in 1 .. Len(f) - 1 : g[i] = f[i]
    BY <1>0, <2>2, <2>3, <2>4
  <2>6. \A i \in 1 .. Len(g) : \E x \in Lines : g[i].n = x.n /\ g[i].cmd = x.cmd
    <3> TAKE i \in 1 .. Len(g)
    <3>1. i \in 1 .. Len(f) /\ f[i] \in Lines
      BY <2>5
    <3>2. g[i].n = f[i].n /\ g[i].cmd = f[i].cmd
      <4>1. CASE i = Len(f)
        BY <2>2, <2>3, <2>5, <4>1
      <4>2. CASE i # Len(f)
        BY <1>0, <2>5, <3>1, <4>2
      <4> QED
        BY <4>1, <4>2
    <3> QED
      BY <3>1, <3>2
  <2>7. \A i \in 1 .. Len(g) - 1 : g[i].cut \in {"none", "glued"}
    BY <1>0, <2>5
  <2>8. Spoilt(f, l) \subseteq Lines
    BY <1>0, <2>2, <2>4
  <2>9. ASSUME NEW ep \in Nat, NEW k \in Keys, k \notin {x.cmd.key : x \in Spoilt(f, l)}
        PROVE  SameAt(Load(g, ep), Dispatch(Load(f, ep), l, ep), k)
    <3>1. k # l.cmd.key /\ (m.cut = "newline" => k # m.cmd.key)
      BY <2>4, <2>9
    <3>2. Load(h, ep) \in Store /\ Load(f, ep) \in Store
      <4>1. Load(h, ep) \in Store
        BY <2>2, LoadFacts
      <4>2. Load(f, ep) \in Store
        BY LoadFacts
      <4> QED
        BY <4>1, <4>2
    <3>3. Load(g, ep) = Load(h, ep)
      <4>1. Load(g, ep) = Dispatch(Load(h, ep), e, ep)
        BY <2>2, <2>3, <2>4, LoadAppend
      <4> QED
        BY <2>3, <3>2, <4>1, DispatchTouches
    <3>4. SameAt(Load(f, ep), Load(h, ep), k)
      <4>1. Load(f, ep) = Dispatch(Load(h, ep), m, ep)
        <5>1. Load(Append(h, m), ep) = Dispatch(Load(h, ep), m, ep)
          BY <2>2, LoadAppend
        <5> QED
          BY <2>2, <5>1
      <4>2. CASE m.cut = "mid"
        <5>1. ~Readable(m)
          BY <4>2 DEF Readable
        <5> QED
          BY <4>1, <5>1 DEF Dispatch, SameAt
      <4>3. CASE m.cut = "newline"
        BY <2>2, <3>1, <3>2, <4>1, <4>3, DispatchTouches
      <4> QED
        BY <2>1, <4>2, <4>3
    <3>5. SameAt(Dispatch(Load(f, ep), l, ep), Load(f, ep), k)
      BY <3>1, <3>2, DispatchTouches
    <3> QED
      BY <3>3, <3>4, <3>5 DEF SameAt
  <2> QED
    BY <1>0, <2>5, <2>6, <2>7, <2>8, <2>9 DEF g
<1> QED
  BY <1>1, <1>2

-----------------------------------------------------------------------------
(* The invariant behind LogReproducesStore and TypeOK. *)

(* A line of a command handled so far, that settles no later reservation. *)
Logs(l) == l.n \in 1 .. serial /\ Old(l, epoch + 1)

FileLogs == \A i \in 1 .. Len(file) : Logs(file[i])

PendingLogs ==
    /\ \A w \in Workers : pending[w] # NoLine => up /\ pending[w].cut = "none" /\ Logs(pending[w])
    /\ writer # Nobody => pending[writer] # NoLine

StateOK ==
    /\ TypeOK
    /\ Numbered(store, epoch)
    /\ FileLogs
    /\ PendingLogs

(* The worker has changed key k, and its line is not in the file yet. *)
Waits(w, k) == pending[w] # NoLine /\ writer # w /\ pending[w].cmd.key = k

(***************************************************************************)
(* A restart would find under k what the store has, once the one line of k *)
(* that is not in the file, if there is one, is replayed as well.          *)
(***************************************************************************)
KeyOK(k) ==
    /\ \A v, w \in Workers : Waits(v, k) /\ Waits(w, k) => v = w
    /\ (\A w \in Workers : ~Waits(w, k)) => SameAt(Load(file, epoch + 1), store, k)
    /\ \A w \in Workers : Waits(w, k) =>
          SameAt(Dispatch(Load(file, epoch + 1), pending[w], epoch + 1), store, k)

KeysOK == up => \A k \in Keys \ diverged : KeyOK(k)

RInv == StateOK /\ KeysOK

-----------------------------------------------------------------------------
(* The steps keep it. *)

(* A handler changes its own key, and the line it leaves to be appended    *)
(* does the same to what a restart would find, or the key is diverged.     *)
LEMMA HandleReproduces ==
    ASSUME RInv, NEW w \in Workers, NEW c, NEW log, NEW raw \in BOOLEAN,
           Handle(w, c, log, raw), Loggable(c, log)
    PROVE  RInv'
<1> DEFINE id == <<epoch, serial + 1>>
           after == Perform(store, c, id)
           line == [cmd |-> log, n |-> serial + 1, cut |-> "none", raw |-> raw]
           replays == log = c /\ Parses(c) /\ c.op # "SETTLE" /\ ~Races(w, c.key)
<1>0. /\ TypeOK /\ Numbered(store, epoch) /\ FileLogs /\ PendingLogs /\ KeysOK
      /\ store \in Store /\ file \in Seq(Line) /\ Len(file) \in Nat
      /\ pending \in [Workers -> Line \cup {NoLine}]
      /\ epoch \in Nat /\ serial \in Nat /\ diverged \subseteq Keys
  BY DEF RInv, StateOK, TypeOK
<1>1. /\ up /\ up' = up /\ file' = file /\ synced' = synced /\ writer' = writer
      /\ epoch' = epoch /\ acked' = acked /\ lost' = lost /\ serial' = serial + 1
      /\ pending[w] = NoLine
      /\ store' = after /\ after # Refused
      /\ pending' = [pending EXCEPT ![w] = IF log = NoLine THEN NoLine ELSE line]
      /\ diverged' = IF replays THEN diverged
                     ELSE diverged \cup {c.key} \cup (IF log = NoLine THEN {} ELSE {log.key})
  BY DEF Handle
<1>2. /\ c \in Command /\ c.key \in Keys /\ log \in Command \cup {NoLine}
      /\ log # NoLine => log.key \in Keys /\ (log.op = "SETTLE" => log.id \in IdsOf(store))
  BY CommandCases DEF Loggable
<1>3. id \in Id /\ id[1] = epoch
  BY <1>0 DEF Id
<1>4. Touches(store, after, c.key) /\ IdsOf(after) \subseteq IdsOf(store) \cup {id}
  BY <1>0, <1>1, <1>2, <1>3, PerformTouches
<1>5. line.cmd = log /\ line.n = serial + 1 /\ line.cut = "none"
      /\ (log # NoLine => line \in Line /\ line # NoLine)
  BY <1>0, <1>2, AofAssumption DEF Line
<1> HIDE DEF id, after, line, replays
<1>6. Numbered(store', epoch')
  <2> SUFFICES ASSUME NEW r \in after.reservations PROVE r.id[1] = epoch
    BY <1>1 DEF Numbered
  <2>1. r.id \in IdsOf(store) \cup {id}
    BY <1>4 DEF IdsOf
  <2> QED
    BY <1>0, <1>3, <2>1 DEF Numbered, IdsOf
<1>7. log # NoLine => Old(line, epoch + 1)
  <2> SUFFICES ASSUME log # NoLine, log.op = "SETTLE" PROVE log.id[1] < epoch + 1
    BY <1>5 DEF Old
  <2>1. log.id \in IdsOf(store)
    BY <1>2
  <2>2. log.id[1] = epoch
    BY <1>0, <2>1 DEF Numbered, IdsOf
  <2> QED
    BY <1>0, <2>2
<1>8. /\ pending' \in [Workers -> Line \cup {NoLine}]
      /\ \A v \in Workers \ {w} : pending'[v] = pending[v]
      /\ pending'[w] = IF log = NoLine THEN NoLine ELSE line
  BY <1>0, <1>1, <1>5
<1>9. TypeOK'
  <2>1. diverged' \subseteq Keys
    BY <1>0, <1>1, <1>2
  <2>2. store' \in Store
    BY <1>1, <1>4 DEF Touches
  <2>3. (acked \cup lost) \subseteq 1 .. serial + 1
    BY <1>0 DEF TypeOK
  <2> QED
    BY <1>0, <1>1, <1>8, <2>1, <2>2, <2>3 DEF TypeOK
<1>10. FileLogs'
  BY <1>0, <1>1 DEF FileLogs, Logs
<1>11. PendingLogs'
  <2>1. writer # Nobody => writer # w /\ writer \in Workers
    BY <1>0, <1>1 DEF PendingLogs, TypeOK
  <2>2. writer' # Nobody => pending'[writer'] # NoLine
    BY <1>0, <1>1, <1>8, <2>1 DEF PendingLogs
  <2>3. ASSUME NEW v \in Workers, pending'[v] # NoLine
        PROVE  up' /\ pending'[v].cut = "none" /\ Logs(pending[v])'
    <3>1. CASE v = w
      <4>1. pending'[v] = line /\ log # NoLine
        BY <1>8, <2>3, <3>1
      <4> QED
        BY <1>0, <1>1, <1>5, <1>7, <4>1 DEF Logs
    <3>2. CASE v # w
      <4>1. pending'[v] = pending[v]
        BY <1>8, <3>2
      <4>2. up /\ pending[v].cut = "none" /\ Logs(pending[v])
        BY <1>0, <2>3, <4>1 DEF PendingLogs
      <4> QED
        BY <1>0, <1>1, <4>1, <4>2 DEF Logs
    <3> QED
      BY <3>1, <3>2
  <2> QED
    BY <2>2, <2>3 DEF PendingLogs
<1>12. writer # w
  BY <1>0, <1>1, AofAssumption DEF PendingLogs
<1>13. ASSUME NEW k \in Keys \ diverged' PROVE KeyOK(k)'
  <2> DEFINE t == Load(file, epoch + 1)
  <2>0. KeyOK(k) /\ k \in Keys
    BY <1>0, <1>1, <1>13 DEF KeysOK
  <2>1. /\ \A v, u \in Workers : Waits(v, k) /\ Waits(u, k) => v = u
        /\ (\A v \in Workers : ~Waits(v, k)) => SameAt(t, store, k)
        /\ \A v \in Workers : Waits(v, k) => SameAt(Dispatch(t, pending[v], epoch + 1), store, k)
    BY <2>0 DEF KeyOK
  <2>2. Load(file', epoch' + 1) = t
    BY <1>1
  <2>3. t \in Store /\ Numbered(t, epoch + 1)
    BY <1>0, LoadFacts
  <2> HIDE DEF t
  <2>4. \A v \in Workers \ {w} : Waits(v, k)' <=> Waits(v, k)
    BY <1>1, <1>8 DEF Waits
  <2>5. CASE k # c.key
    <3>0. log # NoLine => log.key # k
      BY <1>1, <1>13, <2>5 DEF replays
    <3>1. ~Waits(w, k) /\ ~Waits(w, k)'
      BY <1>1, <1>2, <1>5, <1>8, <3>0 DEF Waits
    <3>2. SameAt(store', store, k)
      BY <1>1, <1>4, <2>0, <2>5 DEF Touches, SameAt
    <3>3. \A v, u \in Workers : Waits(v, k)' /\ Waits(u, k)' => v = u
      BY <2>1, <2>4, <3>1
    <3>4. (\A v \in Workers : ~Waits(v, k)') => SameAt(t, store', k)
      BY <2>1, <2>4, <3>1, <3>2 DEF SameAt
    <3>5. \A v \in Workers : Waits(v, k)' => SameAt(Dispatch(t, pending'[v], epoch + 1), store', k)
      BY <1>8, <2>1, <2>4, <3>1, <3>2 DEF SameAt
    <3> QED
      BY <1>1, <2>2, <3>3, <3>4, <3>5 DEF KeyOK
  <2>6. CASE k = c.key
    <3>1. replays
      BY <1>1, <1>13, <2>6
    <3>2. log = c /\ Parses(c) /\ c.op # "SETTLE" /\ ~Races(w, k) /\ log # NoLine
      BY <1>2, <2>6, <3>1, AofAssumption DEF replays
    <3>3. \A v \in Workers : ~Waits(v, k)
      BY <1>1, <3>2 DEF Races, Waits
    <3>4. SameAt(t, store, k)
      BY <2>1, <3>3
    <3>5. Readable(line) /\ line.cmd = c /\ <<epoch + 1, line.n>> \in Id
      BY <1>0, <1>5, <3>2 DEF Readable, Id
    <3>6. /\ Perform(t, c, <<epoch + 1, line.n>>) # Refused
          /\ SameAt(Perform(t, c, <<epoch + 1, line.n>>), after, k)
      <4>1. SameAt(t, store, c.key)
        BY <2>6, <3>4
      <4>2. \/ Perform(t, c, <<epoch + 1, line.n>>) = Refused /\ Perform(store, c, id) = Refused
            \/ /\ Perform(t, c, <<epoch + 1, line.n>>) # Refused /\ Perform(store, c, id) # Refused
               /\ SameAt(Perform(t, c, <<epoch + 1, line.n>>), Perform(store, c, id), c.key)
        BY <1>0, <1>2, <1>3, <2>3, <3>2, <3>5, <4>1, PerformSame
      <4> QED
        BY <1>1, <2>6, <4>2 DEF after
    <3>7. SameAt(Dispatch(t, line, epoch + 1), store', k)
      BY <1>1, <3>5, <3>6 DEF Dispatch
    <3>8. pending'[w] = line /\ Waits(w, k)'
      BY <1>1, <1>5, <1>8, <1>12, <2>6, <3>2 DEF Waits
    <3>9. \A v \in Workers : Waits(v, k)' => v = w
      BY <2>4, <3>3
    <3>10. \A v \in Workers : Waits(v, k)' => SameAt(Dispatch(t, pending'[v], epoch + 1), store', k)
      BY <3>7, <3>8, <3>9
    <3> QED
      BY <1>1, <2>2, <3>8, <3>9, <3>10 DEF KeyOK
  <2> QED
    BY <2>5, <2>6
<1> QED
  BY <1>6, <1>9, <1>10, <1>11, <1>13 DEF RInv, StateOK, KeysOK

(* A line that reaches the file, or that does not and is known to be lost. *)
LEMMA WriteKeepsKeys ==
    ASSUME RInv, NEW w \in Workers, up, pending[w] # NoLine, writer = Nobody,
           store' = store, epoch' = epoch, up' = up, diverged \subseteq diverged',
           \/ pending' = pending /\ writer' = w
           \/ pending' = [pending EXCEPT ![w] = NoLine] /\ writer' = Nobody,
           file' \in Seq(Line),
           \A k \in Keys \ diverged' :
              SameAt(Load(file', epoch + 1),
                     Dispatch(Load(file, epoch + 1), pending[w], epoch + 1), k)
    PROVE  KeysOK'
<1> DEFINE l == pending[w]
           t == Load(file, epoch + 1)
           u == Load(file', epoch + 1)
           d == Dispatch(t, l, epoch + 1)
<1>0. /\ file \in Seq(Line) /\ epoch \in Nat /\ epoch + 1 \in Nat
      /\ pending \in [Workers -> Line \cup {NoLine}] /\ l \in Line
      /\ PendingLogs /\ KeysOK
  BY DEF RInv, StateOK, TypeOK
<1>1. t \in Store /\ Numbered(t, epoch + 1)
  BY <1>0, LoadFacts
<1>2. u \in Store /\ Numbered(u, epoch + 1)
  BY <1>0, LoadFacts
<1>3. Load(file', epoch' + 1) = u
  OBVIOUS
<1> SUFFICES ASSUME NEW k \in Keys \ diverged' PROVE KeyOK(k)'
  BY DEF KeysOK
<1>4. SameAt(u, d, k)
  OBVIOUS
<1>5. KeyOK(k) /\ k \in Keys
  BY <1>0 DEF KeysOK
<1>6. /\ \A v, x \in Workers : Waits(v, k) /\ Waits(x, k) => v = x
      /\ (\A v \in Workers : ~Waits(v, k)) => SameAt(t, store, k)
      /\ \A v \in Workers : Waits(v, k) => SameAt(Dispatch(t, pending[v], epoch + 1), store, k)
  BY <1>5 DEF KeyOK
<1>7. ~Waits(w, k)' /\ (Waits(w, k) <=> l.cmd.key = k)
  BY <1>0, AofAssumption DEF Waits
<1>8. \A v \in Workers \ {w} : (Waits(v, k)' <=> Waits(v, k)) /\ pending'[v] = pending[v]
  BY <1>0, AofAssumption DEF Waits
<1> HIDE DEF l, t, u, d
<1>9. CASE l.cmd.key = k
  <2>1. SameAt(d, store, k)
    BY <1>6, <1>7, <1>9 DEF d, l
  <2>2. \A v \in Workers : ~Waits(v, k)'
    BY <1>6, <1>7, <1>8, <1>9
  <2>3. SameAt(u, store', k)
    BY <1>4, <2>1 DEF SameAt
  <2> QED
    BY <1>3, <2>2, <2>3 DEF KeyOK
<1>10. CASE l.cmd.key # k
  <2>1. SameAt(u, t, k)
    <3>1. SameAt(d, t, k)
      BY <1>0, <1>1, <1>5, <1>10, DispatchTouches DEF d
    <3> QED
      BY <1>4, <3>1 DEF SameAt
  <2>2. \A v, x \in Workers : Waits(v, k)' /\ Waits(x, k)' => v = x
    BY <1>6, <1>7, <1>8
  <2>3. (\A v \in Workers : ~Waits(v, k)') => SameAt(u, store', k)
    BY <1>6, <1>7, <1>8, <1>10, <2>1 DEF SameAt
  <2>4. ASSUME NEW v \in Workers, Waits(v, k)'
        PROVE  SameAt(Dispatch(u, pending'[v], epoch + 1), store', k)
    <3>1. v # w /\ Waits(v, k) /\ pending'[v] = pending[v]
      BY <1>7, <1>8, <2>4
    <3>2. pending[v] \in Line /\ Old(pending[v], epoch + 1)
      BY <1>0, <3>1 DEF PendingLogs, Logs, Waits
    <3>3. SameAt(Dispatch(u, pending[v], epoch + 1), Dispatch(t, pending[v], epoch + 1), k)
      BY <1>0, <1>1, <1>2, <1>5, <2>1, <3>2, DispatchSame
    <3>4. SameAt(Dispatch(t, pending[v], epoch + 1), store, k)
      BY <1>6, <3>1
    <3> QED
      BY <3>1, <3>3, <3>4 DEF SameAt
  <2> QED
    BY <1>3, <2>2, <2>3, <2>4 DEF KeyOK
<1> QED
  BY <1>9, <1>10

(* The file, its numbers and its keys after a write. *)
LEMMA WriteKeepsState ==
    ASSUME RInv, NEW l \in Line, Logs(l), file' \in {file, Written(file, l)},
           NEW lines \in SUBSET (Spoilt(file, l) \cup {l}),
           lost' \subseteq lost \cup {x.n : x \in lines},
           diverged' = diverged \cup {x.cmd.key : x \in lines}
    PROVE  /\ file' \in Seq(Line) /\ Len(file) \in Nat /\ Len(file') \in Nat
           /\ Len(file) <= Len(file')
           /\ \A i \in 1 .. Len(file') - 1 : file'[i].cut \in {"none", "glued"}
           /\ \A i \in 1 .. Len(file') : Logs(file'[i])
           /\ lost' \subseteq 1 .. serial /\ diverged' \subseteq Keys /\ diverged \subseteq diverged'
           /\ \A x \in lines : x.cmd.key \in diverged'
<1>0. /\ file \in Seq(Line) /\ Len(file) \in Nat /\ FileLogs /\ PendingLogs
      /\ \A i \in 1 .. Len(file) - 1 : file[i].cut \in {"none", "glued"}
      /\ lost \subseteq 1 .. serial /\ diverged \subseteq Keys
  BY DEF RInv, StateOK, TypeOK
<1> DEFINE Lines == {l} \cup {file[j] : j \in 1 .. Len(file)}
<1>1. \A x \in Lines : Logs(x) /\ x.cmd.key \in Keys
  <2>3. \A j \in 1 .. Len(file) : Logs(file[j]) /\ file[j] \in Line
    BY <1>0 DEF FileLogs
  <2>4. \A x \in Line : x.cmd.key \in Keys
    BY CommandCases DEF Line
  <2> QED
    BY <2>3, <2>4
<1>2. /\ Written(file, l) \in Seq(Line)
      /\ Len(Written(file, l)) \in Nat /\ Len(file) <= Len(Written(file, l))
      /\ \A i \in 1 .. Len(Written(file, l)) - 1 : Written(file, l)[i].cut \in {"none", "glued"}
      /\ \A i \in 1 .. Len(Written(file, l)) :
            \E x \in Lines : Written(file, l)[i].n = x.n /\ Written(file, l)[i].cmd = x.cmd
      /\ Spoilt(file, l) \subseteq Lines
  BY <1>0, WrittenLoads
<1>3. lines \subseteq Lines
  BY <1>2
<1> HIDE DEF Lines
<1>4. /\ lost' \subseteq 1 .. serial /\ diverged' \subseteq Keys /\ diverged \subseteq diverged'
      /\ \A x \in lines : x.cmd.key \in diverged'
  BY <1>0, <1>1, <1>3 DEF Logs
<1>5. \A i \in 1 .. Len(file') : Logs(file'[i])
  <2>1. CASE file' = file
    BY <1>0, <2>1 DEF FileLogs
  <2>2. CASE file' = Written(file, l)
    BY <1>1, <1>2, <2>2 DEF Logs, Old
  <2> QED
    BY <2>1, <2>2
<1> QED
  BY <1>0, <1>2, <1>4, <1>5

(* write(). *)
LEMMA AppendReproduces ==
    ASSUME RInv, NEW w \in Workers, AppendLine(w)
    PROVE  RInv'
<1> DEFINE l == pending[w]
           S == Spoilt(file, l)
<1>0. /\ TypeOK /\ Numbered(store, epoch) /\ PendingLogs
      /\ file \in Seq(Line) /\ epoch \in Nat /\ epoch + 1 \in Nat
      /\ \A i \in 1 .. Len(file) - 1 : file[i].cut \in {"none", "glued"}
      /\ pending \in [Workers -> Line \cup {NoLine}]
  BY DEF RInv, StateOK, TypeOK
<1>1. /\ up /\ up' = up /\ l # NoLine /\ l \in Line /\ writer = Nobody
      /\ file' = Written(file, l) /\ NoteSpoilt(S)
      /\ store' = store /\ synced' = synced /\ serial' = serial /\ epoch' = epoch
      /\ pending' = pending /\ writer' = w /\ acked' = acked
  BY <1>0 DEF AppendLine
<1>2. /\ file' \in Seq(Line) /\ Len(file) \in Nat /\ Len(file') \in Nat
      /\ Len(file) <= Len(file')
      /\ \A i \in 1 .. Len(file') - 1 : file'[i].cut \in {"none", "glued"}
      /\ \A i \in 1 .. Len(file') : Logs(file'[i])
      /\ lost' \subseteq 1 .. serial /\ diverged' \subseteq Keys /\ diverged \subseteq diverged'
      /\ \A x \in S : x.cmd.key \in diverged'
  <2>1. S \in SUBSET (Spoilt(file, l) \cup {l}) /\ Logs(l)
    BY <1>0, <1>1 DEF PendingLogs
  <2> HIDE DEF S, l
  <2> QED
    BY <1>1, <2>1, WriteKeepsState DEF NoteSpoilt
<1>3. \A k \in Keys \ diverged' :
          SameAt(Load(file', epoch + 1), Dispatch(Load(file, epoch + 1), l, epoch + 1), k)
  <2> TAKE k \in Keys \ diverged'
  <2>1. k \in Keys /\ k \notin {x.cmd.key : x \in Spoilt(file, l)}
    BY <1>2
  <2>2. SameAt(Load(Written(file, l), epoch + 1),
               Dispatch(Load(file, epoch + 1), l, epoch + 1), k)
    BY <1>0, <1>1, <2>1, WrittenLoads
  <2> QED
    BY <1>1, <2>2
<1>4. KeysOK'
  BY <1>1, <1>2, <1>3, WriteKeepsKeys
<1> HIDE DEF l, S
<1>6. TypeOK'
  <2>1. pending' \in [Workers -> Line \cup {NoLine}] /\ writer' \in Workers \cup {Nobody}
    BY <1>0, <1>1
  <2>2. acked' \cup lost' \subseteq 1 .. serial
    BY <1>0, <1>1, <1>2 DEF TypeOK
  <2>3. synced' \in 0 .. Len(file')
    BY <1>0, <1>1, <1>2 DEF TypeOK
  <2> QED
    BY <1>0, <1>1, <1>2, <2>1, <2>2, <2>3 DEF TypeOK
<1>7. FileLogs'
  BY <1>1, <1>2 DEF FileLogs, Logs
<1>8. PendingLogs'
  <2>1. writer' # Nobody => pending'[writer'] # NoLine
    BY <1>1 DEF l
  <2>2. \A v \in Workers : pending'[v] # NoLine => pending'[v] = pending[v] /\ pending[v] # NoLine
    BY <1>0, <1>1
  <2> QED
    BY <1>0, <1>1, <2>1, <2>2 DEF PendingLogs, Logs
<1> QED
  BY <1>0, <1>1, <1>4, <1>6, <1>7, <1>8 DEF RInv, StateOK

(* A write that fails: nothing of the line is in the file, or a piece. *)
LEMMA FailureReproduces ==
    ASSUME RInv, NEW w \in Workers, AppendFails(w)
    PROVE  RInv'
<1> DEFINE l == pending[w]
           piece == [l EXCEPT !.cut = "mid"]
<1>0. /\ TypeOK /\ Numbered(store, epoch) /\ PendingLogs
      /\ file \in Seq(Line) /\ epoch \in Nat /\ epoch + 1 \in Nat
      /\ \A i \in 1 .. Len(file) - 1 : file[i].cut \in {"none", "glued"}
      /\ pending \in [Workers -> Line \cup {NoLine}]
  BY DEF RInv, StateOK, TypeOK
<1>1. /\ up /\ up' = up /\ l # NoLine /\ l \in Line /\ writer = Nobody /\ writer' = Nobody
      /\ store' = store /\ synced' = synced /\ serial' = serial /\ epoch' = epoch
      /\ pending' = [pending EXCEPT ![w] = NoLine] /\ acked' = acked \cup {l.n}
  BY <1>0 DEF AppendFails
<1>2. \/ file' = Written(file, piece) /\ NoteSpoilt(Spoilt(file, piece) \cup {piece})
      \/ file' = file /\ NoteSpoilt({piece})
  BY DEF AppendFails
<1>3. /\ piece \in Line /\ piece.n = l.n /\ piece.cmd = l.cmd /\ ~Readable(piece)
  BY <1>1 DEF Line, Readable
<1> HIDE DEF piece
<1>4. PICK lines \in SUBSET (Spoilt(file, piece) \cup {piece}) :
          /\ NoteSpoilt(lines) /\ piece \in lines
          /\ \/ file' = file
             \/ file' = Written(file, piece) /\ Spoilt(file, piece) \subseteq lines
  BY <1>2
<1>5. /\ file' \in Seq(Line) /\ Len(file) \in Nat /\ Len(file') \in Nat
      /\ Len(file) <= Len(file')
      /\ \A i \in 1 .. Len(file') - 1 : file'[i].cut \in {"none", "glued"}
      /\ \A i \in 1 .. Len(file') : Logs(file'[i])
      /\ lost' \subseteq 1 .. serial /\ diverged' \subseteq Keys /\ diverged \subseteq diverged'
      /\ \A x \in lines : x.cmd.key \in diverged'
  <2>1. file' \in {file, Written(file, piece)}
    BY <1>4
  <2>2. Logs(piece)
    BY <1>0, <1>1, <1>3 DEF PendingLogs, Logs, Old
  <2> QED
    BY <1>3, <1>4, <2>1, <2>2, WriteKeepsState DEF NoteSpoilt
<1>6. \A k \in Keys \ diverged' :
          SameAt(Load(file', epoch + 1), Dispatch(Load(file, epoch + 1), l, epoch + 1), k)
  <2> TAKE k \in Keys \ diverged'
  <2> DEFINE t == Load(file, epoch + 1)
  <2>1. k \in Keys /\ k # l.cmd.key
    BY <1>3, <1>4, <1>5
  <2>2. t \in Store
    BY <1>0, LoadFacts
  <2>3. SameAt(Load(file', epoch + 1), t, k)
    <3>1. CASE file' = file
      BY <3>1 DEF SameAt
    <3>2. CASE file' = Written(file, piece) /\ Spoilt(file, piece) \subseteq lines
      <4>1. k \notin {x.cmd.key : x \in Spoilt(file, piece)}
        BY <1>5, <3>2
      <4>2. SameAt(Load(Written(file, piece), epoch + 1), Dispatch(t, piece, epoch + 1), k)
        BY <1>0, <1>3, <2>1, <4>1, WrittenLoads
      <4>3. Dispatch(t, piece, epoch + 1) = t
        BY <1>3 DEF Dispatch
      <4> QED
        BY <3>2, <4>2, <4>3
    <3> QED
      BY <1>4, <3>1, <3>2
  <2> HIDE DEF t
  <2>4. SameAt(Dispatch(t, l, epoch + 1), t, k)
    BY <1>0, <1>1, <2>1, <2>2, DispatchTouches
  <2>5. SameAt(Load(file', epoch + 1), Dispatch(t, l, epoch + 1), k)
    BY <2>3, <2>4 DEF SameAt
  <2> QED
    BY <2>5 DEF t
<1>7. KeysOK'
  BY <1>1, <1>5, <1>6, WriteKeepsKeys
<1>8. l.n \in 1 .. serial
  BY <1>0, <1>1 DEF PendingLogs, Logs
<1> HIDE DEF l
<1>9. TypeOK'
  <2>1. pending' \in [Workers -> Line \cup {NoLine}]
    BY <1>0, <1>1
  <2>2. acked' \cup lost' \subseteq 1 .. serial
    BY <1>0, <1>1, <1>5, <1>8 DEF TypeOK
  <2>3. synced' \in 0 .. Len(file')
    BY <1>0, <1>1, <1>5 DEF TypeOK
  <2> QED
    BY <1>0, <1>1, <1>5, <2>1, <2>2, <2>3 DEF TypeOK
<1>10. FileLogs'
  BY <1>1, <1>5 DEF FileLogs, Logs
<1>11. PendingLogs'
  <2>1. \A v \in Workers : pending'[v] # NoLine => pending'[v] = pending[v] /\ pending[v] # NoLine
    BY <1>0, <1>1
  <2> QED
    BY <1>0, <1>1, <2>1 DEF PendingLogs, Logs
<1> QED
  BY <1>0, <1>1, <1>7, <1>9, <1>10, <1>11 DEF RInv, StateOK

(* A further line that a raw line reads as concerns a diverged key. *)
LEMMA MoreReproduces ==
    ASSUME RInv, NEW w \in Workers, AppendMore(w)
    PROVE  RInv'
<1>0. /\ TypeOK /\ Numbered(store, epoch) /\ PendingLogs /\ KeysOK
      /\ file \in Seq(Line) /\ epoch \in Nat /\ epoch + 1 \in Nat
      /\ \A i \in 1 .. Len(file) - 1 : file[i].cut \in {"none", "glued"}
      /\ pending \in [Workers -> Line \cup {NoLine}]
  BY DEF RInv, StateOK, TypeOK
<1>1. /\ up /\ up' = up /\ writer = w /\ writer' = writer /\ pending' = pending
      /\ store' = store /\ synced' = synced /\ serial' = serial /\ epoch' = epoch
      /\ acked' = acked
  BY DEF AppendMore
<1>2. PICK c \in Misreadings :
         LET line == [pending[w] EXCEPT !.cmd = c]
         IN  /\ file' = Written(file, line)
             /\ lost' = lost \cup {x.n : x \in Spoilt(file, line)}
             /\ diverged' = diverged \cup {x.cmd.key : x \in Spoilt(file, line)} \cup {c.key}
  BY DEF AppendMore
<1> DEFINE l == [pending[w] EXCEPT !.cmd = c]
           lines == Spoilt(file, l) \cup {l}
           t == Load(file, epoch + 1)
           u == Load(file', epoch + 1)
<1>3. pending[w] # NoLine /\ pending[w] \in Line /\ pending[w].n \in 1 .. serial
  BY <1>0, <1>1, AofAssumption DEF PendingLogs, Logs
<1>4. c \in Command /\ c.op # "SETTLE"
  BY AofAssumption
<1>5. l \in Line /\ l.cmd = c /\ Logs(l)
  BY <1>3, <1>4 DEF Line, Logs, Old
<1>6. /\ file' = Written(file, l) /\ lines \in SUBSET (Spoilt(file, l) \cup {l})
      /\ lost' \subseteq lost \cup {x.n : x \in lines}
      /\ diverged' = diverged \cup {x.cmd.key : x \in lines}
  <2>1. l.cmd = c
    BY <1>5
  <2> HIDE DEF l
  <2> QED
    BY <1>2, <2>1 DEF l
<1> HIDE DEF l, lines
<1>7. /\ file' \in Seq(Line) /\ Len(file) \in Nat /\ Len(file') \in Nat
      /\ Len(file) <= Len(file')
      /\ \A i \in 1 .. Len(file') - 1 : file'[i].cut \in {"none", "glued"}
      /\ \A i \in 1 .. Len(file') : Logs(file'[i])
      /\ lost' \subseteq 1 .. serial /\ diverged' \subseteq Keys /\ diverged \subseteq diverged'
      /\ \A x \in lines : x.cmd.key \in diverged'
  BY <1>5, <1>6, WriteKeepsState
<1>8. t \in Store /\ Numbered(t, epoch + 1)
  BY <1>0, LoadFacts
<1>9. u \in Store /\ Numbered(u, epoch + 1)
  BY <1>0, <1>7, LoadFacts
<1>10. Load(file', epoch' + 1) = u
  BY <1>1
<1>11. ASSUME NEW k \in Keys \ diverged' PROVE SameAt(u, t, k)
  <2>1. k \in Keys /\ k # l.cmd.key /\ k \notin {x.cmd.key : x \in Spoilt(file, l)}
    BY <1>6, <1>11 DEF lines
  <2>2. SameAt(Load(Written(file, l), epoch + 1), Dispatch(t, l, epoch + 1), k)
    BY <1>0, <1>5, <2>1, WrittenLoads
  <2>3. SameAt(Dispatch(t, l, epoch + 1), t, k)
    BY <1>0, <1>5, <1>8, <2>1, DispatchTouches
  <2> QED
    BY <1>6, <2>2, <2>3 DEF SameAt
<1> HIDE DEF t, u
<1>12. ASSUME NEW k \in Keys \ diverged' PROVE KeyOK(k)'
  <2>1. k \in Keys /\ KeyOK(k) /\ SameAt(u, t, k)
    BY <1>0, <1>1, <1>7, <1>11, <1>12 DEF KeysOK
  <2>2. \A v \in Workers : (Waits(v, k)' <=> Waits(v, k)) /\ pending'[v] = pending[v]
    BY <1>1 DEF Waits
  <2>3. /\ \A v, x \in Workers : Waits(v, k) /\ Waits(x, k) => v = x
        /\ (\A v \in Workers : ~Waits(v, k)) => SameAt(t, store, k)
        /\ \A v \in Workers : Waits(v, k) =>
              SameAt(Dispatch(t, pending[v], epoch + 1), store, k)
    BY <2>1 DEF KeyOK, t
  <2>4. ASSUME NEW v \in Workers, Waits(v, k)
        PROVE  SameAt(Dispatch(u, pending[v], epoch + 1), store, k)
    <3>1. pending[v] \in Line /\ Old(pending[v], epoch + 1)
      BY <1>0, <2>4 DEF PendingLogs, Logs, Waits
    <3>2. SameAt(Dispatch(u, pending[v], epoch + 1), Dispatch(t, pending[v], epoch + 1), k)
      BY <1>0, <1>8, <1>9, <2>1, <3>1, DispatchSame
    <3> QED
      BY <2>3, <2>4, <3>2 DEF SameAt
  <2>5. (\A v \in Workers : ~Waits(v, k)) => SameAt(u, store, k)
    BY <2>1, <2>3 DEF SameAt
  <2> QED
    BY <1>1, <1>10, <2>2, <2>3, <2>4, <2>5 DEF KeyOK
<1>13. TypeOK'
  <2>1. acked' \cup lost' \subseteq 1 .. serial
    BY <1>0, <1>1, <1>7 DEF TypeOK
  <2>2. synced' \in 0 .. Len(file')
    BY <1>0, <1>1, <1>7 DEF TypeOK
  <2> QED
    BY <1>0, <1>1, <1>7, <2>1, <2>2 DEF TypeOK
<1>14. FileLogs' /\ PendingLogs'
  BY <1>0, <1>1, <1>7 DEF FileLogs, PendingLogs, Logs
<1> QED
  BY <1>0, <1>1, <1>12, <1>13, <1>14 DEF RInv, StateOK, KeysOK

(* The answer touches neither the file's lines nor the tables. *)
LEMMA SyncReproduces ==
    ASSUME RInv, NEW w \in Workers, SyncLine(w) \/ SyncFails(w)
    PROVE  RInv'
<1>0. /\ TypeOK /\ Numbered(store, epoch) /\ PendingLogs /\ FileLogs /\ KeysOK
      /\ pending \in [Workers -> Line \cup {NoLine}] /\ Len(file) \in Nat
  BY DEF RInv, StateOK, TypeOK
<1>1. /\ up /\ up' = up /\ writer = w /\ writer' = Nobody /\ w # Nobody
      /\ file' = file /\ synced' \in {synced, Len(file)} /\ store' = store
      /\ serial' = serial /\ epoch' = epoch /\ diverged' = diverged
      /\ acked' = acked \cup {pending[w].n}
      /\ lost' \in {lost, lost \cup {pending[w].n}}
      /\ pending' = [pending EXCEPT ![w] = NoLine]
  BY AofAssumption DEF SyncLine, SyncFails, Answer
<1>2. pending[w] # NoLine /\ pending[w].n \in 1 .. serial
  BY <1>0, <1>1 DEF PendingLogs, Logs
<1>3. \A v \in Workers : pending'[v] # NoLine => pending'[v] = pending[v] /\ pending[v] # NoLine
  BY <1>0, <1>1
<1>4. TypeOK'
  <2>1. pending' \in [Workers -> Line \cup {NoLine}]
    BY <1>0, <1>1
  <2> QED
    BY <1>0, <1>1, <1>2, <2>1 DEF TypeOK
<1>5. FileLogs' /\ PendingLogs'
  BY <1>0, <1>1, <1>3 DEF FileLogs, PendingLogs, Logs
<1>6. \A v \in Workers : \A k : Waits(v, k)' <=> Waits(v, k)
  BY <1>0, <1>1, AofAssumption DEF Waits
<1>7. \A v \in Workers : \A k : Waits(v, k) => pending'[v] = pending[v]
  BY <1>0, <1>1 DEF Waits
<1>8. ASSUME NEW k \in Keys \ diverged PROVE KeyOK(k)'
  <2>1. KeyOK(k)
    BY <1>0, <1>1, <1>8 DEF KeysOK
  <2> QED
    BY <1>1, <1>6, <1>7, <2>1 DEF KeyOK
<1> QED
  BY <1>0, <1>1, <1>4, <1>5, <1>8 DEF RInv, StateOK, KeysOK

(* A file that is left by a power failure or by an orderly stop. *)
LogFile(f) ==
    /\ f \in Seq(Line)
    /\ \A i \in 1 .. Len(f) - 1 : f[i].cut \in {"none", "glued"}
    /\ \A i \in 1 .. Len(f) : Logs(f[i])

(* Whole lines up to the n-th. *)
LEMMA PrefixIsLogFile ==
    ASSUME RInv, NEW n \in 0 .. Len(file)
    PROVE  LogFile(Prefix(n))
<1>1. /\ file \in Seq(Line) /\ Len(file) \in Nat /\ FileLogs
      /\ \A i \in 1 .. Len(file) - 1 : file[i].cut \in {"none", "glued"}
  BY DEF RInv, StateOK, TypeOK
<1>2. /\ Prefix(n) \in Seq(Line) /\ Len(Prefix(n)) = n
      /\ \A i \in 1 .. n : Prefix(n)[i] = file[i]
  BY <1>1, FirstLines DEF Prefix
<1> QED
  BY <1>1, <1>2 DEF LogFile, FileLogs

(* The first n lines and a part of the next one. *)
LEMMA TornIsLogFile ==
    ASSUME RInv, NEW n \in 0 .. Len(file) - 1, NEW cut \in {"mid", "newline"}
    PROVE  LogFile(Torn(n, cut))
<1> DEFINE f == Torn(n, cut)
           g == Prefix(n)
           l == [file[n + 1] EXCEPT !.cut = cut]
<1>1. /\ file \in Seq(Line) /\ Len(file) \in Nat /\ FileLogs
      /\ \A i \in 1 .. Len(file) - 1 : file[i].cut \in {"none", "glued"}
  BY DEF RInv, StateOK, TypeOK
<1>2. n \in 0 .. Len(file) /\ n + 1 \in 1 .. Len(file) /\ n \in Nat
  BY <1>1
<1>3. g \in Seq(Line) /\ Len(g) = n /\ \A i \in 1 .. n : g[i] = file[i]
  BY <1>1, <1>2, FirstLines DEF Prefix
<1>4. file[n + 1] \in Line /\ Logs(file[n + 1])
  BY <1>1, <1>2 DEF FileLogs
<1>5. l \in Line /\ l.n = file[n + 1].n /\ l.cmd = file[n + 1].cmd
  BY <1>4 DEF Line
<1>6. Logs(l)
  BY <1>4, <1>5 DEF Logs, Old
<1>7. f = Append(g, l)
  BY DEF Torn
<1> HIDE DEF f, g, l
<1>8. /\ f \in Seq(Line) /\ Len(f) = n + 1 /\ f[n + 1] = l
      /\ \A i \in 1 .. n : f[i] = file[i]
  BY <1>2, <1>3, <1>5, <1>7
<1>9. \A i \in 1 .. Len(f) : Logs(f[i])
  BY <1>1, <1>2, <1>6, <1>8 DEF FileLogs
<1>10. LogFile(f)
  BY <1>1, <1>2, <1>8, <1>9 DEF LogFile
<1> QED
  BY <1>10 DEF f

(* The process ends: there is nothing in memory to compare with. *)
LEMMA StopReproduces ==
    ASSUME RInv, NEW f, Stopped(f), LogFile(f)
    PROVE  RInv'
<1>1. /\ ~up' /\ file' = f /\ synced' = Len(f) /\ store' = EmptyStore
      /\ pending' = [w \in Workers |-> NoLine] /\ writer' = Nobody
      /\ serial' = serial /\ epoch' = epoch /\ acked' = acked /\ lost' = lost
      /\ diverged' = diverged
  BY DEF Stopped
<1>2. Len(f) \in Nat /\ EmptyStore \in Store /\ Numbered(EmptyStore, epoch)
  BY EmptyIsStore DEF LogFile
<1>3. TypeOK'
  BY <1>1, <1>2 DEF RInv, StateOK, TypeOK, LogFile
<1>4. FileLogs' /\ PendingLogs'
  BY <1>1 DEF FileLogs, PendingLogs, LogFile, Logs
<1> QED
  BY <1>1, <1>2, <1>3, <1>4 DEF RInv, StateOK, KeysOK

(* The loader: what it has made of the file, the next one will make too. *)
LEMMA RestartReproduces ==
    ASSUME RInv, Restart
    PROVE  RInv'
<1>0. /\ TypeOK /\ FileLogs /\ PendingLogs
      /\ file \in Seq(Line) /\ epoch \in Nat /\ Len(file) \in Nat
  BY DEF RInv, StateOK, TypeOK
<1>1. /\ ~up /\ up' /\ epoch' = epoch + 1 /\ store' = Load(file, epoch + 1)
      /\ diverged' = {} /\ file' = file /\ synced' = synced /\ pending' = pending
      /\ writer' = writer /\ serial' = serial /\ acked' = acked /\ lost' = lost
  BY DEF Restart
<1>2. \A w \in Workers : pending[w] = NoLine
  BY <1>0, <1>1 DEF PendingLogs
<1>3. epoch + 1 \in Nat /\ epoch' + 1 \in Nat
  BY <1>0, <1>1
<1>4. store' \in Store /\ Numbered(store', epoch')
  BY <1>0, <1>1, <1>3, LoadFacts
<1>5. \A i \in 1 .. Len(file) : Old(file[i], epoch + 1) /\ Old(file[i], epoch' + 1)
  <2> TAKE i \in 1 .. Len(file)
  <2>1. file[i].cmd \in Command /\ Old(file[i], epoch + 1)
    <3>1. file[i] \in Line /\ Old(file[i], epoch + 1)
      BY <1>0 DEF FileLogs, Logs
    <3> QED
      BY <3>1 DEF Line
  <2>2. file[i].cmd.op = "SETTLE" => file[i].cmd.id[1] \in Nat
    BY <2>1, CommandCases DEF Id
  <2> QED
    BY <1>0, <1>1, <2>1, <2>2 DEF Old
<1>6. \A k \in Keys : SameAt(Load(file, epoch' + 1), Load(file, epoch + 1), k)
  <2> TAKE k \in Keys
  <2>1. SameAt(Load(file, epoch + 1), Load(file, epoch' + 1), k)
    BY <1>0, <1>3, <1>5, LoadSame
  <2> QED
    BY <2>1 DEF SameAt
<1>7. TypeOK'
  BY <1>0, <1>1, <1>3, <1>4 DEF TypeOK
<1>8. FileLogs' /\ PendingLogs'
  BY <1>0, <1>1, <1>2, <1>5 DEF FileLogs, PendingLogs, Logs
<1>9. KeysOK'
  BY <1>1, <1>2, <1>6 DEF KeysOK, KeyOK, Waits
<1> QED
  BY <1>4, <1>7, <1>8, <1>9 DEF RInv, StateOK

(* A new server has loaded nothing. *)
LEMMA ReproducesInit == Init => RInv
<1> SUFFICES ASSUME Init PROVE RInv
  OBVIOUS
<1>1. file = <<>> /\ file \in Seq(Line) /\ Len(file) = 0
  BY DEF Init
<1>2. store = EmptyStore /\ store \in Store /\ Numbered(store, epoch)
  BY EmptyIsStore DEF Init
<1>3. Load(file, epoch + 1) = store
  <2>1. epoch + 1 \in Nat
    BY DEF Init
  <2> QED
    BY <1>1, <1>2, <2>1, LoadFacts, ReplayEmpty
<1>4. TypeOK
  BY <1>1, <1>2 DEF Init, TypeOK
<1>5. FileLogs /\ PendingLogs
  BY <1>1 DEF Init, FileLogs, PendingLogs
<1>6. KeysOK
  BY <1>3 DEF Init, KeysOK, KeyOK, Waits, SameAt
<1> QED
  BY <1>2, <1>4, <1>5, <1>6 DEF RInv, StateOK

(* One case per action. *)
LEMMA ReproducesStep == RInv /\ [Next]_vars => RInv'
<1> SUFFICES ASSUME RInv, [Next]_vars PROVE RInv'
  OBVIOUS
<1>0. TypeOK /\ synced \in 0 .. Len(file) /\ Len(file) \in Nat /\ file \in Seq(Line)
  BY DEF RInv, StateOK, TypeOK
<1>1. ASSUME NEW w \in Workers, Handlers(w) PROVE RInv'
  BY <1>0, <1>1, HandlersHandle, HandleReproduces
<1>2. ASSUME NEW w \in Workers, AppendLine(w) PROVE RInv'
  BY <1>2, AppendReproduces
<1>3. ASSUME NEW w \in Workers, SyncLine(w) \/ SyncFails(w) PROVE RInv'
  BY <1>3, SyncReproduces
<1>m. ASSUME NEW w \in Workers, AppendMore(w) PROVE RInv'
  BY <1>m, MoreReproduces
<1>4. ASSUME NEW w \in Workers, AppendFails(w) PROVE RInv'
  BY <1>4, FailureReproduces
<1>5. CASE Fsync
  <2>1. /\ store' = store /\ file' = file /\ synced' = Len(file) /\ up' = up
        /\ pending' = pending /\ writer' = writer /\ serial' = serial /\ epoch' = epoch
        /\ acked' = acked /\ lost' = lost /\ diverged' = diverged
    BY <1>5 DEF Fsync
  <2>2. TypeOK'
    BY <1>0, <2>1 DEF TypeOK
  <2>3. FileLogs' /\ PendingLogs' /\ Numbered(store, epoch)'
    BY <2>1 DEF RInv, StateOK, FileLogs, PendingLogs, Logs
  <2>4. KeysOK'
    BY <2>1 DEF RInv, KeysOK, KeyOK, Waits
  <2> QED
    BY <2>2, <2>3, <2>4 DEF RInv, StateOK
<1>6. CASE Shutdown
  <2>1. file = Prefix(Len(file))
    BY <1>0, SubSeqFull DEF Prefix
  <2>2. LogFile(file)
    BY <1>0, <2>1, PrefixIsLogFile
  <2> QED
    BY <1>6, <2>2, StopReproduces DEF Shutdown
<1>7. CASE Crash
  <2>1. ASSUME NEW n \in synced .. Len(file), Stopped(Prefix(n)) PROVE RInv'
    <3>1. n \in 0 .. Len(file)
      BY <1>0
    <3> QED
      BY <2>1, <3>1, PrefixIsLogFile, StopReproduces
  <2>2. ASSUME NEW n \in synced .. Len(file) - 1, NEW cut \in {"mid", "newline"},
               Stopped(Torn(n, cut))
        PROVE  RInv'
    <3>1. n \in 0 .. Len(file) - 1
      BY <1>0
    <3> QED
      BY <2>2, <3>1, TornIsLogFile, StopReproduces
  <2> QED
    BY <1>7, <2>1, <2>2 DEF Crash
<1>8. CASE Restart
  BY <1>8, RestartReproduces
<1>9. CASE UNCHANGED vars
  <2>1. /\ store' = store /\ file' = file /\ synced' = synced /\ up' = up
        /\ pending' = pending /\ writer' = writer /\ serial' = serial /\ epoch' = epoch
        /\ acked' = acked /\ lost' = lost /\ diverged' = diverged
    BY <1>9 DEF vars
  <2>2. TypeOK' /\ FileLogs' /\ PendingLogs' /\ Numbered(store, epoch)'
    BY <2>1 DEF RInv, StateOK, TypeOK, FileLogs, PendingLogs, Logs
  <2>3. KeysOK'
    BY <2>1 DEF RInv, KeysOK, KeyOK, Waits
  <2> QED
    BY <2>2, <2>3 DEF RInv, StateOK
<1> QED
  BY <1>1, <1>2, <1>3, <1>m, <1>4, <1>5, <1>6, <1>7, <1>8, <1>9 DEF Next

(* The lines not in the file yet, each once. *)
LEMMA UnwrittenLines ==
    ASSUME TypeOK
    PROVE  /\ Unwritten \in Seq(Line)
           /\ \A i \in 1 .. Len(Unwritten) :
                 \E w \in Workers : pending[w] # NoLine /\ writer # w /\ Unwritten[i] = pending[w]
           /\ \A w \in Workers : pending[w] # NoLine /\ writer # w =>
                 \E i \in 1 .. Len(Unwritten) : Unwritten[i] = pending[w]
           /\ \A i, j \in 1 .. Len(Unwritten) : Unwritten[i] = Unwritten[j] => i = j
<1> DEFINE V == {v \in Workers : pending[v] # NoLine /\ writer # v}
           S == {pending[w] : w \in V}
           n == Cardinality(S)
           u == SetToSeq(S)
<1>1. pending \in [Workers -> Line \cup {NoLine}] /\ S \subseteq Line
  BY DEF TypeOK
<1>2. IsFiniteSet(S)
  <2>1. IsFiniteSet(V)
    BY AofAssumption, FS_Subset
  <2>2. [w \in V |-> pending[w]] \in Surjection(V, S)
    BY DEF Surjection
  <2> HIDE DEF V, S
  <2> QED
    BY <2>1, <2>2, FS_Surjection
<1>3. Unwritten = u
  BY DEF Unwritten
<1>4. \A x \in S : \E w \in Workers : pending[w] # NoLine /\ writer # w /\ x = pending[w]
  OBVIOUS
<1>5. \A w \in Workers : pending[w] # NoLine /\ writer # w => pending[w] \in S
  OBVIOUS
<1> HIDE DEF S
<1>6. n \in Nat /\ \E f : f \in Bijection(1 .. n, S)
  BY <1>2, FS_CardinalityType DEF ExistsBijection
<1>7. u \in [1 .. n -> S] /\ IsInjective(u)
  <2>1. \E f \in [1 .. n -> S] : IsInjective(f)
    BY <1>6 DEF Bijection, Injection
  <2> QED
    BY <2>1 DEF SetToSeq
<1>8. u \in Seq(Line) /\ Len(u) = n
  BY <1>1, <1>6, <1>7
<1>9. \A x \in S : \E i \in 1 .. n : u[i] = x
  <2>1. IsFiniteSet(1 .. n) /\ Cardinality(1 .. n) = n
    BY <1>6, FS_Interval
  <2>2. u \in Injection(1 .. n, S)
    BY <1>7 DEF Injection
  <2> DEFINE D == 1 .. n
  <2>3. Cardinality(D) = Cardinality(S) /\ u \in Injection(D, S)
    BY <2>1, <2>2
  <2> HIDE DEF D, u
  <2>4. u \in Surjection(D, S)
    BY <1>2, <2>3, FS_Injection
  <2> QED
    BY <2>4 DEF Surjection, D
<1> HIDE DEF u, n
<1>10. \A i, j \in 1 .. n : u[i] = u[j] => i = j
  BY <1>7 DEF IsInjective
<1> QED
  BY <1>3, <1>4, <1>5, <1>7, <1>8, <1>9, <1>10

(* A restart now, with the lines the workers still hold, finds the store. *)
LEMMA InvariantReproduces == RInv => LogReproducesStore
<1> SUFFICES ASSUME RInv, up, NEW k \in Keys \ diverged
             PROVE  SameAt(Recovered, store, k)
  BY DEF LogReproducesStore, SameAt
<1> DEFINE ep == epoch + 1
           t == Load(file, ep)
           u == Unwritten
<1>0. /\ TypeOK /\ PendingLogs /\ KeyOK(k) /\ k \in Keys
      /\ file \in Seq(Line) /\ epoch \in Nat /\ ep \in Nat
  BY DEF RInv, StateOK, KeysOK, TypeOK
<1>1. t \in Store /\ Numbered(t, ep)
  BY <1>0, LoadFacts
<1>2. Recovered = Replayed(t, u, ep)
  BY DEF Recovered, Replayed
<1>3. /\ u \in Seq(Line)
      /\ \A i \in 1 .. Len(u) :
            \E w \in Workers : pending[w] # NoLine /\ writer # w /\ u[i] = pending[w]
      /\ \A w \in Workers : pending[w] # NoLine /\ writer # w =>
            \E i \in 1 .. Len(u) : u[i] = pending[w]
      /\ \A i, j \in 1 .. Len(u) : u[i] = u[j] => i = j
  BY <1>0, UnwrittenLines
<1>4. /\ \A v, w \in Workers : Waits(v, k) /\ Waits(w, k) => v = w
      /\ (\A w \in Workers : ~Waits(w, k)) => SameAt(t, store, k)
      /\ \A w \in Workers : Waits(w, k) => SameAt(Dispatch(t, pending[w], ep), store, k)
  BY <1>0 DEF KeyOK
<1>5. \A i \in 1 .. Len(u) : Old(u[i], ep)
  BY <1>0, <1>3 DEF PendingLogs, Logs
<1> HIDE DEF ep, t, u
<1>6. /\ (\A i \in 1 .. Len(u) : u[i].cmd.key # k) => SameAt(Replayed(t, u, ep), t, k)
      /\ \A i \in 1 .. Len(u) :
            (\A j \in 1 .. Len(u) : u[j].cmd.key = k <=> j = i)
                => SameAt(Replayed(t, u, ep), Dispatch(t, u[i], ep), k)
  BY <1>0, <1>1, <1>3, <1>5, ReplayOne
<1>7. CASE \A w \in Workers : ~Waits(w, k)
  <2>1. \A i \in 1 .. Len(u) : u[i].cmd.key # k
    BY <1>3, <1>7 DEF Waits
  <2>2. SameAt(Replayed(t, u, ep), t, k)
    BY <1>6, <2>1
  <2> QED
    BY <1>2, <1>4, <1>7, <2>2 DEF SameAt
<1>8. ASSUME NEW w \in Workers, Waits(w, k) PROVE SameAt(Recovered, store, k)
  <2>1. PICK i \in 1 .. Len(u) : u[i] = pending[w]
    BY <1>3, <1>8 DEF Waits
  <2>2. ASSUME NEW j \in 1 .. Len(u) PROVE u[j].cmd.key = k <=> j = i
    <3>1. CASE j = i
      BY <1>8, <2>1, <3>1 DEF Waits
    <3>2. CASE u[j].cmd.key = k
      <4>1. PICK v \in Workers : pending[v] # NoLine /\ writer # v /\ u[j] = pending[v]
        BY <1>3
      <4>2. v = w
        BY <1>4, <1>8, <3>2, <4>1 DEF Waits
      <4> QED
        BY <1>3, <2>1, <3>2, <4>1, <4>2
    <3> QED
      BY <3>1, <3>2
  <2>3. SameAt(Replayed(t, u, ep), Dispatch(t, u[i], ep), k)
    BY <1>6, <2>2
  <2>4. SameAt(Dispatch(t, u[i], ep), store, k)
    BY <1>4, <1>8, <2>1
  <2> QED
    BY <1>2, <2>3, <2>4 DEF SameAt
<1> QED
  BY <1>7, <1>8

(***************************************************************************)
(* Handlers, appends, failed writes, power failures and restarts keep the  *)
(* invariant that ties the tables, the file and the lines the workers hold *)
(* together.                                                               *)
(***************************************************************************)
THEOREM Reproduces == Spec => []RInv
BY ReproducesInit, ReproducesStep, PTL DEF Spec

(***************************************************************************)
(* Type correctness of the append-only file and of the tables, live and    *)
(* replayed: a balance stays a 64-bit word, and a piece of a line is only  *)
(* ever the last thing in the file.                                        *)
(***************************************************************************)
THEOREM TypeCorrect == Spec => []TypeOK
<1>1. RInv => TypeOK
  BY DEF RInv, StateOK
<1> QED
  BY <1>1, Reproduces, PTL

(***************************************************************************)
(* The log reproduces the store: at every moment, replaying the file and   *)
(* the lines the workers are about to append yields, for every key that is *)
(* not known to have diverged, the entry and the idempotency record that   *)
(* are in memory.                                                          *)
(***************************************************************************)
THEOREM LogReproduces == Spec => []LogReproducesStore
BY InvariantReproduces, Reproduces, PTL
=============================================================================
