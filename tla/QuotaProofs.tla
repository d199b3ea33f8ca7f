----------------------------- MODULE QuotaProofs -----------------------------
(***************************************************************************)
(* For any number of pools, reservations, amounts and word size: the type  *)
(* invariant, the two ledger invariants and the safety of the sweep.       *)
(***************************************************************************)
EXTENDS QuotaStore, FiniteSetTheorems, WellFoundedInduction, TLAPS

(* Sums and readings of 64-bit words are 64-bit words. *)
LEMMA WordsStayWords ==
    /\ \A a, b \in 0 .. MaxU64 : AddU64(a, b) \in 0 .. MaxU64
    /\ \A t \in Nat, ttl \in 0 .. MaxU64 :
          AddU64(t, ttl) \in Nat /\ Deadline(t, ttl) \in Nat
    /\ \A n \in Number : Stoull(n) \in 0 .. MaxU64
BY WordAssumption DEF AddU64, Deadline, Stoull, Number, MinI64

(* Every key-value operation leaves an entry or none. *)
LEMMA OperationsLeaveEntries ==
    ASSUME NEW e \in Entry \cup {NoEntry}, NEW t \in Nat
    PROVE  /\ Lookup(e, t) \in Entry \cup {NoEntry}
           /\ \A v \in Writes, cond \in WriteCondition, ttl \in Ttls :
                 AfterSet(e, t, v, cond, ttl) \in Entry \cup {NoEntry}
           /\ \A ttl \in Ttls : AfterExpire(e, t, ttl) \in Entry \cup {NoEntry}
           /\ AfterPersist(e, t) \in Entry \cup {NoEntry}
           /\ \A delta \in Deltas, ttl \in Ttls :
                 AfterIncrBy(e, t, delta, ttl) \in Entry \cup {NoEntry}
<1>1. Lookup(e, t) \in Entry \cup {NoEntry}
  BY DEF Lookup
<1>2. ASSUME NEW v \in Writes, NEW cond \in WriteCondition, NEW ttl \in Ttls
      PROVE  AfterSet(e, t, v, cond, ttl) \in Entry \cup {NoEntry}
  <2>1. v \in Value /\ ttl \in 0 .. MaxU64
    BY QuotaAssumption
  <2>2. Deadline(t, ttl) \in Nat
    BY <2>1, WordsStayWords
  <2>3. [num |-> v.num, clean |-> v.clean, expire_at |-> Deadline(t, ttl)] \in Entry
    BY <2>1, <2>2 DEF Value, Entry
  <2>4. QED
    BY <1>1, <2>3 DEF AfterSet
<1>3. ASSUME NEW ttl \in Ttls
      PROVE  AfterExpire(e, t, ttl) \in Entry \cup {NoEntry}
  BY QuotaAssumption, WordsStayWords DEF AfterExpire, Live, Entry
<1>4. AfterPersist(e, t) \in Entry \cup {NoEntry}
  BY DEF AfterPersist, Live, Entry
<1>5. ASSUME NEW delta \in Deltas, NEW ttl \in Ttls
      PROVE  AfterIncrBy(e, t, delta, ttl) \in Entry \cup {NoEntry}
  <2>1. delta \in MinI64 .. MaxI64 /\ ttl \in 0 .. MaxU64
    BY QuotaAssumption
  <2>2. delta \in Number
    BY <2>1, WordAssumption DEF Number, MinI64
  <2>3. [num |-> delta, clean |-> TRUE, expire_at |-> Deadline(t, ttl)] \in Entry
    BY <2>1, <2>2, WordsStayWords DEF Entry
  <2>4. ASSUME Live(e, t), ~IncrFails(e, delta)
        PROVE  [e EXCEPT !.num = @ + delta] \in Entry
    <3>1. e \in Entry
      BY <2>4 DEF Live
    <3>2. e.num + delta \in Number
      BY <2>4, WordAssumption DEF IncrFails, Number, MinI64
    <3>3. QED
      BY <3>1, <3>2 DEF Entry
  <2>5. QED
    BY <2>3, <2>4 DEF AfterIncrBy
<1>6. QED
  BY <1>1, <1>2, <1>3, <1>4, <1>5

-----------------------------------------------------------------------------
(* The balance of a pool is a word, and so is the number written back. *)
LEMMA BalanceType ==
    ASSUME TypeOK, NEW k \in Keys
    PROVE  /\ Num(entries[k]) \in Number
           /\ Balance(k) \in 0 .. MaxU64
           /\ Num(entries[k]) >= 0 => Balance(k) = Num(entries[k])
<1>1. Num(entries[k]) \in Number
  BY WordAssumption DEF TypeOK, Num, Entry, Number, MinI64
<1>2. QED
  BY <1>1, WordsStayWords DEF Balance, Stoull, Number, MinI64

(* Writing a balance back changes one pool, and stores that balance. *)
LEMMA WriteBackEffect ==
    ASSUME TypeOK, NEW k \in Keys, NEW b \in 0 .. MaxU64, WriteBack(k, b)
    PROVE  /\ entries' \in [Keys -> Entry \cup {NoEntry}]
           /\ Num(entries'[k]) = b
           /\ \A j \in Keys \ {k} : entries'[j] = entries[j]
<1> DEFINE new == IF entries[k] = NoEntry
                  THEN [num |-> b, clean |-> TRUE, expire_at |-> 0]
                  ELSE [entries[k] EXCEPT !.num = b, !.clean = TRUE]
<1>1. b \in Number
  BY WordAssumption DEF Number, MinI64
<1>2. new \in Entry /\ new.num = b
  BY <1>1 DEF TypeOK, Entry
<1>3. entries' = [entries EXCEPT ![k] = new]
  BY DEF WriteBack
<1>4. new # NoEntry
  BY <1>2, NoEntryAssumption
<1> HIDE DEF new
<1>5. entries'[k] = new
  BY <1>3 DEF TypeOK
<1>6. QED
  BY <1>2, <1>3, <1>4, <1>5 DEF TypeOK, Num

-----------------------------------------------------------------------------
(* A Client step is one of four kinds. *)
LEMMA ClientCases ==
    ASSUME TypeOK, Client
    PROVE  \/ \E k \in Keys, e \in Entry \cup {NoEntry} : KvOperation(k, e)
           \/ \E k \in Keys, amount \in Amounts, ttl \in ReserveTtls :
                 ReserveQuota(k, amount, ttl)
           \/ \E id \in Ids, actual \in Actuals : CommitQuota(id, actual)
           \/ \E id \in Ids : CommitExpired(id)
           \/ \E id \in Ids : RollbackQuota(id)
<1>1. now \in Nat
  BY QuotaAssumption DEF TypeOK
<1>2. ASSUME NEW k \in Keys,
             \/ Get(k) \/ Del(k) \/ Persist(k)
             \/ \E ttl \in Ttls : Expire(k, ttl)
             \/ \E ttl \in Ttls, delta \in Deltas : IncrBy(k, delta, ttl)
             \/ \E ttl \in Ttls, v \in Writes, cond \in WriteCondition :
                   Set(k, v, cond, ttl)
             \/ \E amount \in Amounts : ReserveRefused(k, amount)
      PROVE  \E e \in Entry \cup {NoEntry} : KvOperation(k, e)
  <2>1. entries[k] \in Entry \cup {NoEntry}
    BY DEF TypeOK
  <2>2. QED
    BY <1>1, <1>2, <2>1, OperationsLeaveEntries
       DEF Get, Del, Persist, Expire, IncrBy, Set, ReserveRefused
<1>3. QED
  BY <1>2 DEF Client

-----------------------------------------------------------------------------
(* Every step leaves well-typed tables, clocks and books. *)
LEMMA TypeInductive == TypeOK /\ SweepInv /\ [Next]_vars => TypeOK'
<1> SUFFICES ASSUME TypeOK, SweepInv, [Next]_vars PROVE TypeOK'
  OBVIOUS
<1>1. ASSUME NEW k \in Keys, NEW e \in Entry \cup {NoEntry}, KvOperation(k, e)
      PROVE  TypeOK'
  <2>1. Num(e) \in Int /\ Num(entries[k]) \in Int
    BY WordAssumption DEF TypeOK, Num, Entry, Number, MinI64
  <2>2. QED
    BY <1>1, <2>1 DEF KvOperation, TypeOK
<1>2. ASSUME NEW k \in Keys, NEW amount \in Amounts, NEW ttl \in ReserveTtls,
             ReserveQuota(k, amount, ttl)
      PROVE  TypeOK'
  <2>1. amount \in 1 .. MaxU64 /\ ttl \in 0 .. MaxU64 /\ now \in Nat
    BY QuotaAssumption DEF TypeOK
  <2>2. Balance(k) >= amount
    BY <1>2, WordAssumption DEF ReserveQuota, CanReserve, Lookup, Balance, Num
  <2>3. Balance(k) - amount \in 0 .. MaxU64
    BY <2>1, <2>2, BalanceType, WordAssumption
  <2>4. entries' \in [Keys -> Entry \cup {NoEntry}]
    BY <1>2, <2>3, WriteBackEffect DEF ReserveQuota
  <2>5. [key |-> k, amount |-> amount, expire_at |-> AddU64(now, ttl)] \in Reservation
    BY <2>1, WordsStayWords DEF Reservation
  <2>6. reservations' \in [Ids -> Reservation \cup {NoReservation}] /\ seq' \in 0 .. MaxReservations
    BY <1>2, <2>5, QuotaAssumption DEF ReserveQuota, NewId, TypeOK, Ids
  <2>7. held' \in [Keys -> Int] /\ wrapped' \in [Keys -> BOOLEAN]
    BY <1>2, <2>1, WordAssumption DEF ReserveQuota, NoteWrap, TypeOK
  <2>8. QED
    BY <1>2, <2>4, <2>6, <2>7 DEF ReserveQuota, TypeOK
<1>3. ASSUME NEW id \in Ids, Outstanding(id)
      PROVE  /\ reservations[id].key \in Keys
             /\ reservations[id].amount \in 1 .. MaxU64
             /\ \A b \in 0 .. MaxU64 :
                   AddU64(Balance(reservations[id].key), b) \in 0 .. MaxU64
  BY <1>3, BalanceType, WordsStayWords DEF Outstanding, TypeOK, Reservation
<1>4. ASSUME NEW id \in Ids, Outstanding(id), Settle(id)
      PROVE  /\ reservations' \in [Ids -> Reservation \cup {NoReservation}]
             /\ held' \in [Keys -> Int]
  BY <1>3, <1>4, WordAssumption DEF Settle, TypeOK
<1>5. ASSUME NEW id \in Ids, NEW actual \in Actuals, CommitQuota(id, actual)
      PROVE  TypeOK'
  <2> DEFINE r == reservations[id]
             k == r.key
  <2>1. actual \in 0 .. MaxU64 /\ actual \in Nat
    BY QuotaAssumption, WordAssumption
  <2>2. k \in Keys /\ r.amount \in 1 .. MaxU64 /\ Balance(k) \in 0 .. MaxU64
    BY <1>3, <1>5, BalanceType DEF CommitQuota
  <2>3. /\ actual <= r.amount => r.amount - actual \in 0 .. MaxU64
        /\ Balance(k) >= actual - r.amount /\ actual > r.amount
              => Balance(k) - (actual - r.amount) \in 0 .. MaxU64
        /\ 0 \in 0 .. MaxU64
    BY <2>1, <2>2, WordAssumption
  <2>4. entries' \in [Keys -> Entry \cup {NoEntry}]
    <3>1. CASE actual <= r.amount
      BY <1>3, <1>5, <2>1, <2>2, <2>3, <3>1, WordAssumption, WriteBackEffect DEF CommitQuota, Refund
    <3>2. CASE actual > r.amount
      BY <1>5, <2>1, <2>2, <2>3, <3>2, WordAssumption, WriteBackEffect DEF CommitQuota
    <3>3. QED
      BY <2>1, <2>2, <3>1, <3>2, WordAssumption
  <2>5. consumed' \in [Keys -> Nat] /\ overdraft' \in [Keys -> Nat]
    BY <1>5, <2>1, <2>2, WordAssumption DEF CommitQuota, TypeOK
  <2>6. wrapped' \in [Keys -> BOOLEAN]
    BY <1>5 DEF CommitQuota, NoteWrap, TypeOK
  <2>7. QED
    BY <1>4, <1>5, <2>4, <2>5, <2>6 DEF CommitQuota, TypeOK
<1>6. ASSUME NEW id \in Ids, CommitExpired(id)
      PROVE  TypeOK'
  <2>1. entries' \in [Keys -> Entry \cup {NoEntry}]
    BY <1>3, <1>6, WordAssumption, WriteBackEffect DEF CommitExpired, Refund, TypeOK
  <2>2. wrapped' \in [Keys -> BOOLEAN] /\ late' \in [Keys -> BOOLEAN]
    BY <1>6 DEF CommitExpired, NoteWrap, TypeOK
  <2>3. QED
    BY <1>4, <1>6, <2>1, <2>2 DEF CommitExpired, TypeOK
<1>7. ASSUME NEW id \in Ids, RollbackQuota(id)
      PROVE  TypeOK'
  <2>1. entries' \in [Keys -> Entry \cup {NoEntry}]
    BY <1>3, <1>7, WordAssumption, WriteBackEffect DEF RollbackQuota, Refund, TypeOK
  <2>2. wrapped' \in [Keys -> BOOLEAN] /\ late' \in [Keys -> BOOLEAN]
    BY <1>7 DEF RollbackQuota, NoteWrap, TypeOK
  <2>3. QED
    BY <1>4, <1>7, <2>1, <2>2 DEF RollbackQuota, TypeOK
<1>8. CASE PurgeBegin
  BY <1>8, QuotaAssumption DEF PurgeBegin, TypeOK, books
<1>9. CASE PurgeLock
  <2>1. PICK gone \in Samples(ExpiredEntries(purgeAt), SampleLimit) :
          /\ entries' = [k \in Keys |-> IF k \in gone THEN NoEntry ELSE entries[k]]
          /\ granted' = [k \in Keys |->
                IF k \in gone THEN granted[k] - entries[k].num ELSE granted[k]]
    BY <1>9 DEF PurgeLock
  <2>2. \A k \in gone : k \in Keys /\ entries[k] \in Entry
    BY <2>1 DEF Samples, ExpiredEntries, TypeOK
  <2>3. \A k \in gone : entries[k].num \in Int
    BY <2>2, WordAssumption DEF Entry, Number, MinI64
  <2>4. entries' \in [Keys -> Entry \cup {NoEntry}] /\ granted' \in [Keys -> Int]
    BY <2>1, <2>3 DEF TypeOK
  <2>5. todo' \in SUBSET Ids
    BY <1>9 DEF PurgeLock, Samples, ExpiredReservations
  <2>6. QED
    BY <1>9, <2>4, <2>5 DEF PurgeLock, TypeOK
<1>10. ASSUME NEW id \in Ids, PurgeRefund(id)
       PROVE  TypeOK'
  <2>0. Outstanding(id)
    BY <1>10 DEF PurgeRefund, SweepInv, SweepTakesOnlyExpired
  <2>1. entries' \in [Keys -> Entry \cup {NoEntry}]
    BY <1>3, <1>10, <2>0, WordAssumption, WriteBackEffect DEF PurgeRefund, Refund, TypeOK
  <2>2. wrapped' \in [Keys -> BOOLEAN]
    BY <1>10 DEF PurgeRefund, NoteWrap, TypeOK
  <2>3. QED
    BY <1>4, <1>10, <2>0, <2>1, <2>2 DEF PurgeRefund, TypeOK
<1>11. CASE PurgeUnlock
  <2>1. purgeAt' \in -1 .. now'
    BY <1>11, QuotaAssumption DEF PurgeUnlock, NotPurging, TypeOK
  <2>2. locked' \in BOOLEAN
    BY <1>11 DEF PurgeUnlock
  <2>3. QED
    BY <1>11, <2>1, <2>2 DEF PurgeUnlock, TypeOK, books
<1>12. CASE Tick
  BY <1>12, QuotaAssumption DEF Tick, TypeOK, books
<1>13. CASE UNCHANGED vars
  BY <1>13 DEF vars, TypeOK
<1>14. CASE Client
  BY <1>1, <1>2, <1>5, <1>6, <1>7, <1>14, ClientCases
<1>15. QED
  <2>1. CASE Sweep
    BY <1>8, <1>9, <1>10, <1>11, <2>1 DEF Sweep
  <2>2. QED
    BY <1>12, <1>13, <1>14, <2>1 DEF Next

-----------------------------------------------------------------------------
(* The sweep's work list stays within the expired, unsettled reservations: *)
(* while it holds the mutex nobody else settles one.                       *)
LEMMA SweepInductive == TypeOK /\ SweepInv /\ [Next]_vars => SweepInv'
<1> SUFFICES ASSUME TypeOK, SweepInv, [Next]_vars PROVE SweepInv'
  OBVIOUS
<1> USE DEF SweepInv, SweepTakesOnlyExpired
<1>1. ASSUME ~locked, locked' = locked, todo' = todo
      PROVE  SweepInv'
  BY <1>1
<1>2. CASE Client
  BY <1>1, <1>2, ClientCases
     DEF KvOperation, ReserveQuota, CommitQuota, CommitExpired, RollbackQuota
<1>3. CASE PurgeBegin
  BY <1>3 DEF PurgeBegin, Outstanding
<1>4. CASE PurgeLock
  <2>1. \A id \in todo' : /\ id \in Ids
                          /\ Outstanding(id)
                          /\ IsExpired(reservations[id], purgeAt)
    BY <1>4 DEF PurgeLock, Samples, ExpiredReservations
  <2>2. \A id \in todo' : IsExpired(reservations[id], now)
    BY <2>1, QuotaAssumption DEF IsExpired, TypeOK, Outstanding, Reservation
  <2>3. QED
    BY <1>4, <2>1, <2>2 DEF PurgeLock, Outstanding
<1>5. ASSUME NEW id \in Ids, PurgeRefund(id)
      PROVE  SweepInv'
  <2>1. \A j \in todo' : j \in todo /\ reservations'[j] = reservations[j]
    BY <1>5 DEF PurgeRefund, Settle, TypeOK
  <2>2. QED
    BY <1>5, <2>1 DEF PurgeRefund, Outstanding
<1>6. CASE PurgeUnlock
  BY <1>6 DEF PurgeUnlock
<1>7. CASE Tick
  <2>1. \A id \in todo : Outstanding(id)' /\ IsExpired(reservations'[id], now')
    BY <1>7, QuotaAssumption DEF Tick, Outstanding, IsExpired, TypeOK, Reservation
  <2>2. QED
    BY <1>7, <2>1 DEF Tick
<1>8. CASE UNCHANGED vars
  BY <1>8 DEF vars, Outstanding
<1>9. QED
  <2>1. CASE Sweep
    BY <1>3, <1>4, <1>5, <1>6, <2>1 DEF Sweep
  <2>2. QED
    BY <1>2, <1>7, <1>8, <2>1 DEF Next

-----------------------------------------------------------------------------
(* What is missing from the books of a pool. *)
Missing(k) == granted[k] + overdraft[k] - Accounted(k)

(* The quantities of the ledger are integers. *)
LEMMA LedgerTypes ==
    TypeOK => \A k \in Keys :
                 /\ granted[k] \in Int /\ overdraft[k] \in Int
                 /\ held[k] \in Int /\ consumed[k] \in Int
                 /\ Num(entries[k]) \in Int
                 /\ Accounted(k) \in Int
                 /\ Missing(k) \in Int
<1> SUFFICES ASSUME TypeOK, NEW k \in Keys
             PROVE  /\ granted[k] \in Int /\ overdraft[k] \in Int
                    /\ held[k] \in Int /\ consumed[k] \in Int
                    /\ Num(entries[k]) \in Int
                    /\ Accounted(k) \in Int
                    /\ Missing(k) \in Int
  OBVIOUS
<1>1. Num(entries[k]) \in Int
  BY BalanceType, WordAssumption DEF Number, MinI64
<1>2. QED
  BY <1>1 DEF TypeOK, Missing, Accounted

(* The ledger in terms of what is missing. *)
LEMMA LedgerAsMissing ==
    TypeOK =>
        /\ NoOverGrant <=> \A k \in Keys : ~wrapped[k] => Missing(k) >= 0
        /\ Conservation <=>
              \A k \in Keys : ~wrapped[k] /\ ~late[k] => Missing(k) = 0
<1> SUFFICES ASSUME TypeOK
             PROVE  /\ NoOverGrant <=> \A k \in Keys : ~wrapped[k] => Missing(k) >= 0
                    /\ Conservation <=>
                          \A k \in Keys : ~wrapped[k] /\ ~late[k] => Missing(k) = 0
  OBVIOUS
<1>1. \A k \in Keys :
         /\ Accounted(k) <= granted[k] + overdraft[k] <=> Missing(k) >= 0
         /\ Accounted(k) = granted[k] + overdraft[k] <=> Missing(k) = 0
  <2> SUFFICES ASSUME NEW k \in Keys
               PROVE  /\ Accounted(k) <= granted[k] + overdraft[k] <=> Missing(k) >= 0
                      /\ Accounted(k) = granted[k] + overdraft[k] <=> Missing(k) = 0
    OBVIOUS
  <2>1. granted[k] \in Int /\ overdraft[k] \in Int /\ Accounted(k) \in Int
    BY LedgerTypes
  <2>2. QED
    BY <2>1 DEF Missing
<1>2. QED
  BY <1>1 DEF NoOverGrant, Conservation

(* The same two facts about the state after a step. *)
LEMMA LedgerTypesNext ==
    TypeOK' => (\A k \in Keys :
                   /\ granted[k] \in Int /\ overdraft[k] \in Int
                   /\ held[k] \in Int /\ consumed[k] \in Int
                   /\ Num(entries[k]) \in Int
                   /\ Accounted(k) \in Int
                   /\ Missing(k) \in Int)'
BY LedgerTypes, PTL

(* The ledger in terms of what is missing, in the state after a step. *)
LEMMA LedgerAsMissingNext ==
    TypeOK' =>
        /\ NoOverGrant' <=> (\A k \in Keys : ~wrapped[k] => Missing(k) >= 0)'
        /\ Conservation' <=>
              (\A k \in Keys : ~wrapped[k] /\ ~late[k] => Missing(k) = 0)'
BY LedgerAsMissing, PTL

(* A step on one pool keeps the ledger if it loses nothing there, or loses *)
(* something and says so.                                                  *)
LEMMA OnePoolStep ==
    ASSUME TypeOK, TypeOK', NoOverGrant, Conservation, NEW k \in Keys,
           \A j \in Keys \ {k} :
              /\ Missing(j)' = Missing(j)
              /\ wrapped'[j] = wrapped[j]
              /\ late'[j] = late[j],
           wrapped[k] => wrapped'[k],
           late[k] => late'[k],
           ~wrapped'[k] => Missing(k)' >= Missing(k),
           ~wrapped'[k] /\ ~late'[k] => Missing(k)' = Missing(k)
    PROVE  NoOverGrant' /\ Conservation'
<1>1. \A j \in Keys : ~wrapped[j] => Missing(j) >= 0
  BY LedgerAsMissing
<1>2. \A j \in Keys : ~wrapped[j] /\ ~late[j] => Missing(j) = 0
  BY LedgerAsMissing
<1>3. \A j \in Keys : Missing(j) \in Int /\ Missing(j)' \in Int
  BY LedgerTypes, LedgerTypesNext
<1>4. \A j \in Keys : ~wrapped'[j] => Missing(j)' >= 0
  BY <1>1, <1>3
<1>5. \A j \in Keys : ~wrapped'[j] /\ ~late'[j] => Missing(j)' = 0
  BY <1>2
<1>6. QED
  BY <1>4, <1>5, LedgerAsMissingNext

(* Returning an amount to a pool adds it to the stored number, or wraps. *)
LEMMA RefundEffect ==
    ASSUME TypeOK, NEW k \in Keys, NEW a \in 0 .. MaxU64,
           Refund(k, a), ~RefundWraps(k, a)
    PROVE  Num(entries'[k]) = Num(entries[k]) + a
<1>1. Num(entries[k]) >= 0 /\ Balance(k) + a <= MaxU64
  BY BalanceType, WordAssumption DEF RefundWraps, Number, MinI64
<1>2. AddU64(Balance(k), a) = Num(entries[k]) + a
  BY <1>1, BalanceType, WordAssumption DEF AddU64
<1>3. AddU64(Balance(k), a) \in 0 .. MaxU64
  BY BalanceType, WordsStayWords
<1>4. QED
  BY <1>2, <1>3, WriteBackEffect DEF Refund

(* A refund leaves the other pools alone. *)
LEMMA RefundElsewhere ==
    ASSUME TypeOK, NEW k \in Keys, NEW a \in 0 .. MaxU64, Refund(k, a)
    PROVE  \A j \in Keys \ {k} : entries'[j] = entries[j]
BY BalanceType, WordsStayWords, WriteBackEffect DEF Refund

(* A cancelled reservation that is refunded in full leaves no gap. *)
LEMMA CancelKeepsLedger ==
    ASSUME TypeOK, TypeOK', NoOverGrant, Conservation,
           NEW id \in Ids, Outstanding(id), Settle(id),
           NEW k \in Keys, k = reservations[id].key,
           NEW a \in 0 .. MaxU64, a = reservations[id].amount,
           Refund(k, a),
           NoteWrap(k, RefundWraps(k, a)),
           UNCHANGED <<granted, consumed, overdraft, late>>
    PROVE  NoOverGrant' /\ Conservation'
<1>1. held'[k] = held[k] - a /\ \A j \in Keys \ {k} : held'[j] = held[j]
  BY DEF Settle, TypeOK
<1>2. /\ \A j \in Keys \ {k} : entries'[j] = entries[j] /\ wrapped'[j] = wrapped[j]
      /\ wrapped[k] => wrapped'[k]
      /\ ~wrapped'[k] => ~RefundWraps(k, a)
  BY RefundElsewhere DEF NoteWrap, TypeOK
<1>3. \A j \in Keys \ {k} : Missing(j)' = Missing(j)
  BY <1>1, <1>2 DEF Missing, Accounted
<1>4. ASSUME ~wrapped'[k] PROVE Missing(k)' = Missing(k)
  <2>1. Num(entries'[k]) = Num(entries[k]) + a
    BY <1>2, <1>4, RefundEffect
  <2>2. /\ granted[k] \in Int /\ overdraft[k] \in Int /\ held[k] \in Int
        /\ consumed[k] \in Int /\ Num(entries[k]) \in Int /\ a \in Int
    BY LedgerTypes, WordAssumption
  <2>3. QED
    BY <1>1, <2>1, <2>2 DEF Missing, Accounted
<1>5. Missing(k) \in Int
  BY LedgerTypes
<1>6. ~wrapped'[k] => Missing(k)' >= Missing(k)
  BY <1>4, <1>5
<1>7. QED
  BY <1>2, <1>3, <1>4, <1>6, OnePoolStep

(* A reservation that vanishes without refund is noted as late. *)
LEMMA LateCancelIsNoted ==
    ASSUME TypeOK, TypeOK', NoOverGrant, Conservation,
           NEW id \in Ids, Outstanding(id), Settle(id),
           NEW k \in Keys, k = reservations[id].key,
           late' = [late EXCEPT ![k] = TRUE],
           UNCHANGED <<entries, wrapped, granted, consumed, overdraft>>
    PROVE  NoOverGrant' /\ Conservation'
<1>1. PICK a \in 1 .. MaxU64 : a = reservations[id].amount
  BY DEF Outstanding, TypeOK, Reservation
<1>2. held'[k] = held[k] - a /\ \A j \in Keys \ {k} : held'[j] = held[j]
  BY <1>1 DEF Settle, TypeOK
<1>3. late'[k] /\ \A j \in Keys \ {k} : late'[j] = late[j] /\ Missing(j)' = Missing(j)
  BY <1>2 DEF Missing, Accounted, TypeOK
<1>4. /\ granted[k] \in Int /\ overdraft[k] \in Int /\ held[k] \in Int
      /\ consumed[k] \in Int /\ Num(entries[k]) \in Int /\ a \in Nat
  BY LedgerTypes, WordAssumption
<1>5. Missing(k)' >= Missing(k)
  BY <1>2, <1>4 DEF Missing, Accounted
<1>6. QED
  BY <1>3, <1>5, OnePoolStep

-----------------------------------------------------------------------------
(* No step breaks the ledger: one case per operation of the store. *)
LEMMA LedgerInductive ==
    IInv /\ TypeOK' /\ [Next]_vars => NoOverGrant' /\ Conservation'
<1> SUFFICES ASSUME TypeOK, SweepInv, NoOverGrant, Conservation, TypeOK', [Next]_vars
             PROVE  NoOverGrant' /\ Conservation'
  BY DEF IInv
<1>1. ASSUME NEW id \in Ids, Outstanding(id)
      PROVE  \E k \in Keys, a \in 0 .. MaxU64 :
                /\ k = reservations[id].key
                /\ a = reservations[id].amount /\ a > 0
  BY <1>1, WordAssumption DEF Outstanding, TypeOK, Reservation
<1>2. ASSUME NEW k \in Keys, NEW e \in Entry \cup {NoEntry}, KvOperation(k, e)
      PROVE  NoOverGrant' /\ Conservation'
  <2>1. entries'[k] = e /\ granted'[k] = granted[k] + Num(e) - Num(entries[k])
    BY <1>2 DEF KvOperation, TypeOK
  <2>2. \A j \in Keys \ {k} : Missing(j)' = Missing(j)
    BY <1>2 DEF KvOperation, TypeOK, Missing, Accounted
  <2>3. /\ granted[k] \in Int /\ overdraft[k] \in Int /\ held[k] \in Int
        /\ consumed[k] \in Int /\ Num(entries[k]) \in Int
    BY LedgerTypes
  <2>4. Num(e) \in Int
    BY WordAssumption DEF Num, Entry, Number, MinI64
  <2>5. Missing(k)' = Missing(k)
    BY <1>2, <2>1, <2>3, <2>4 DEF KvOperation, Missing, Accounted
  <2>6. Missing(k) \in Int /\ wrapped' = wrapped /\ late' = late
    BY <1>2, LedgerTypes DEF KvOperation
  <2>7. QED
    BY <2>2, <2>5, <2>6, OnePoolStep
<1>3. ASSUME NEW k \in Keys, NEW a \in Amounts, NEW ttl \in ReserveTtls,
             ReserveQuota(k, a, ttl)
      PROVE  NoOverGrant' /\ Conservation'
  <2>1. a \in 1 .. MaxU64 /\ Balance(k) >= a /\ Balance(k) \in 0 .. MaxU64
    BY <1>3, QuotaAssumption, BalanceType DEF ReserveQuota, CanReserve, Lookup, Balance, Num
  <2>2. Balance(k) - a \in 0 .. MaxU64
    BY <2>1, WordAssumption
  <2>3. /\ Num(entries'[k]) = Balance(k) - a
        /\ \A j \in Keys \ {k} : entries'[j] = entries[j]
    BY <1>3, <2>2, WriteBackEffect DEF ReserveQuota
  <2>4. held'[k] = held[k] + a /\ \A j \in Keys \ {k} : held'[j] = held[j]
    BY <1>3 DEF ReserveQuota, TypeOK
  <2>5. /\ \A j \in Keys \ {k} : wrapped'[j] = wrapped[j]
        /\ wrapped[k] => wrapped'[k]
        /\ ~wrapped'[k] => ~(Num(entries[k]) < 0)
    BY <1>3 DEF ReserveQuota, NoteWrap, TypeOK
  <2>6. \A j \in Keys \ {k} : Missing(j)' = Missing(j)
    BY <1>3, <2>3, <2>4 DEF ReserveQuota, Missing, Accounted
  <2>7. /\ granted[k] \in Int /\ overdraft[k] \in Int /\ held[k] \in Int
        /\ consumed[k] \in Int /\ Num(entries[k]) \in Int /\ a \in Int
    BY <2>1, LedgerTypes, WordAssumption
  <2>8. ASSUME ~wrapped'[k] PROVE Missing(k)' = Missing(k)
    <3>1. Num(entries'[k]) = Num(entries[k]) - a
      BY <2>3, <2>5, <2>7, <2>8, BalanceType
    <3>2. QED
      BY <1>3, <2>4, <2>7, <3>1 DEF ReserveQuota, Missing, Accounted
  <2>9. Missing(k) \in Int /\ late' = late
    BY <1>3, LedgerTypes DEF ReserveQuota
  <2>10. ~wrapped'[k] => Missing(k)' >= Missing(k)
    BY <2>8, <2>9
  <2>11. QED
    BY <2>5, <2>6, <2>8, <2>9, <2>10, OnePoolStep
<1>4. ASSUME NEW id \in Ids, NEW actual \in Actuals, CommitQuota(id, actual)
      PROVE  NoOverGrant' /\ Conservation'
  <2>1. PICK k \in Keys, a \in 0 .. MaxU64 :
           k = reservations[id].key /\ a = reservations[id].amount /\ a > 0
    BY <1>1, <1>4 DEF CommitQuota
  <2>2. actual \in 0 .. MaxU64 /\ Balance(k) \in 0 .. MaxU64
    BY QuotaAssumption, BalanceType
  <2>3. /\ actual <= a => a - actual \in 0 .. MaxU64
        /\ actual > a /\ Balance(k) >= actual - a
              => Balance(k) - (actual - a) \in 0 .. MaxU64
        /\ 0 \in 0 .. MaxU64
        /\ actual <= a \/ actual > a
    BY <2>1, <2>2, WordAssumption
  <2>4. /\ Settle(id)
        /\ consumed' = [consumed EXCEPT ![k] = @ + actual]
        /\ UNCHANGED <<granted, late>>
        /\ \/ /\ actual <= a
              /\ Refund(k, a - actual)
              /\ NoteWrap(k, RefundWraps(k, a - actual))
              /\ UNCHANGED overdraft
           \/ /\ actual > a
              /\ Balance(k) >= actual - a
              /\ WriteBack(k, Balance(k) - (actual - a))
              /\ NoteWrap(k, Num(entries[k]) < 0)
              /\ UNCHANGED overdraft
           \/ /\ actual > a
              /\ Balance(k) < actual - a
              /\ WriteBack(k, 0)
              /\ overdraft' = [overdraft EXCEPT ![k] = @ + (actual - a) - Balance(k)]
              /\ NoteWrap(k, Num(entries[k]) < 0)
    BY <1>4, <2>1 DEF CommitQuota
  <2>5. /\ held'[k] = held[k] - a
        /\ consumed'[k] = consumed[k] + actual
        /\ \A j \in Keys \ {k} : held'[j] = held[j] /\ consumed'[j] = consumed[j]
    BY <2>1, <2>4 DEF Settle, TypeOK
  <2>6. \A j \in Keys \ {k} : entries'[j] = entries[j]
    BY <2>3, <2>4, RefundElsewhere, WriteBackEffect
  <2>7. /\ wrapped[k] => wrapped'[k]
        /\ \A j \in Keys \ {k} : overdraft'[j] = overdraft[j] /\ wrapped'[j] = wrapped[j]
    BY <2>4 DEF NoteWrap, TypeOK
  <2>8. \A j \in Keys \ {k} : Missing(j)' = Missing(j)
    BY <2>4, <2>5, <2>6, <2>7 DEF Missing, Accounted
  <2>9. /\ granted[k] \in Int /\ overdraft[k] \in Int /\ held[k] \in Int
        /\ consumed[k] \in Int /\ Num(entries[k]) \in Int
        /\ a \in Int /\ actual \in Int
    BY <2>1, <2>2, LedgerTypes, WordAssumption
  <2>10. ASSUME ~wrapped'[k]
         PROVE  Num(entries'[k]) - overdraft'[k]
                   = Num(entries[k]) - overdraft[k] + a - actual
    <3>1. CASE actual <= a
      <4>1. Refund(k, a - actual) /\ ~RefundWraps(k, a - actual) /\ overdraft' = overdraft
        <5>1. ~(actual > a)
          BY <2>9, <3>1
        <5>2. QED
          BY <2>4, <2>10, <5>1 DEF NoteWrap, TypeOK
      <4>2. Num(entries'[k]) = Num(entries[k]) + (a - actual)
        BY <2>3, <3>1, <4>1, RefundEffect
      <4>3. QED
        BY <2>9, <4>1, <4>2
    <3>2. CASE actual > a
      <4>1. ~(actual <= a)
        BY <2>9, <3>2
      <4>2. NoteWrap(k, Num(entries[k]) < 0)
        BY <2>4, <4>1
      <4>3. ~(Num(entries[k]) < 0)
        BY <2>10, <4>2 DEF NoteWrap, TypeOK
      <4>4. Balance(k) = Num(entries[k])
        BY <2>9, <4>3, BalanceType
      <4>5. CASE Balance(k) >= actual - a
        <5>1. Num(entries'[k]) = Balance(k) - (actual - a) /\ overdraft' = overdraft
          BY <2>2, <2>3, <2>4, <2>9, <3>2, <4>1, <4>5, WriteBackEffect, WordAssumption
        <5>2. QED
          BY <2>9, <4>4, <5>1
      <4>6. CASE ~(Balance(k) >= actual - a)
        <5>1. WriteBack(k, 0) /\ overdraft' = [overdraft EXCEPT ![k] = @ + (actual - a) - Balance(k)]
          BY <2>4, <4>1, <4>6
        <5>2. Num(entries'[k]) = 0 /\ overdraft'[k] = overdraft[k] + (actual - a) - Balance(k)
          BY <2>3, <5>1, WriteBackEffect DEF TypeOK
        <5>3. QED
          BY <2>9, <4>4, <5>2
      <4>7. QED
        BY <4>5, <4>6
    <3>3. QED
      BY <2>3, <3>1, <3>2
  <2>11. overdraft'[k] \in Int /\ Num(entries'[k]) \in Int
    BY LedgerTypesNext
  <2>12. ASSUME ~wrapped'[k] PROVE Missing(k)' = Missing(k)
    BY <2>4, <2>5, <2>9, <2>10, <2>11, <2>12 DEF Missing, Accounted
  <2>13. ~wrapped'[k] => Missing(k)' >= Missing(k)
    BY <2>12, LedgerTypes
  <2>14. QED
    BY <2>4, <2>7, <2>8, <2>12, <2>13, OnePoolStep
<1>5. ASSUME NEW id \in Ids, CommitExpired(id)
      PROVE  NoOverGrant' /\ Conservation'
  <2>1. PICK k \in Keys, a \in 0 .. MaxU64 :
           k = reservations[id].key /\ a = reservations[id].amount /\ a > 0
    BY <1>1, <1>5 DEF CommitExpired
  <2>2. CASE entries[k] # NoEntry
    BY <1>5, <2>1, <2>2, CancelKeepsLedger DEF CommitExpired
  <2>3. CASE entries[k] = NoEntry
    BY <1>5, <2>1, <2>3, LateCancelIsNoted DEF CommitExpired
  <2>4. QED
    BY <2>2, <2>3
<1>6. ASSUME NEW id \in Ids, RollbackQuota(id)
      PROVE  NoOverGrant' /\ Conservation'
  <2>1. PICK k \in Keys, a \in 0 .. MaxU64 :
           k = reservations[id].key /\ a = reservations[id].amount /\ a > 0
    BY <1>1, <1>6 DEF RollbackQuota
  <2>2. CASE ~IsExpired(reservations[id], now)
    BY <1>6, <2>1, <2>2, CancelKeepsLedger DEF RollbackQuota
  <2>3. CASE IsExpired(reservations[id], now)
    BY <1>6, <2>1, <2>3, LateCancelIsNoted DEF RollbackQuota
  <2>4. QED
    BY <2>2, <2>3
<1>7. ASSUME NEW id \in Ids, PurgeRefund(id)
      PROVE  NoOverGrant' /\ Conservation'
  <2>1. Outstanding(id)
    BY <1>7 DEF PurgeRefund, SweepInv, SweepTakesOnlyExpired
  <2>2. PICK k \in Keys, a \in 0 .. MaxU64 :
           k = reservations[id].key /\ a = reservations[id].amount /\ a > 0
    BY <1>1, <2>1
  <2>3. QED
    BY <1>7, <2>1, <2>2, CancelKeepsLedger DEF PurgeRefund
<1>8. ASSUME wrapped' = wrapped, late' = late,
             \A j \in Keys : Missing(j)' = Missing(j)
      PROVE  NoOverGrant' /\ Conservation'
  <2>1. /\ \A j \in Keys : ~wrapped[j] => Missing(j) >= 0
        /\ \A j \in Keys : ~wrapped[j] /\ ~late[j] => Missing(j) = 0
    BY LedgerAsMissing
  <2>2. /\ \A j \in Keys : ~wrapped'[j] => Missing(j)' >= 0
        /\ \A j \in Keys : ~wrapped'[j] /\ ~late'[j] => Missing(j)' = 0
    BY <1>8, <2>1
  <2>3. QED
    BY <2>2, LedgerAsMissingNext
<1>9. CASE PurgeLock
  <2>1. PICK gone \in Samples(ExpiredEntries(purgeAt), SampleLimit) :
          /\ entries' = [k \in Keys |-> IF k \in gone THEN NoEntry ELSE entries[k]]
          /\ granted' = [k \in Keys |->
                IF k \in gone THEN granted[k] - entries[k].num ELSE granted[k]]
    BY <1>9 DEF PurgeLock
  <2>2. \A k \in gone : k \in Keys /\ entries[k] # NoEntry
    BY <2>1 DEF Samples, ExpiredEntries
  <2>3. ASSUME NEW j \in Keys PROVE Missing(j)' = Missing(j)
    <3>1. /\ granted[j] \in Int /\ overdraft[j] \in Int /\ held[j] \in Int
          /\ consumed[j] \in Int /\ Num(entries[j]) \in Int
      BY LedgerTypes
    <3>2. CASE j \in gone
      <4>1. Num(entries'[j]) = 0 /\ granted'[j] = granted[j] - Num(entries[j])
        BY <2>1, <2>2, <3>2 DEF Num
      <4>2. QED
        BY <1>9, <3>1, <4>1 DEF PurgeLock, Missing, Accounted
    <3>3. CASE j \notin gone
      <4>1. entries'[j] = entries[j] /\ granted'[j] = granted[j]
        BY <2>1, <3>3
      <4>2. QED
        BY <1>9, <4>1 DEF PurgeLock, Missing, Accounted
    <3>4. QED
      BY <3>2, <3>3
  <2>4. QED
    BY <1>8, <1>9, <2>3 DEF PurgeLock
<1>10. ASSUME UNCHANGED <<entries, granted, held, consumed, overdraft, late, wrapped>>
       PROVE  NoOverGrant' /\ Conservation'
  BY <1>8, <1>10 DEF Missing, Accounted
<1>11. CASE Client
  BY <1>2, <1>3, <1>4, <1>5, <1>6, <1>11, ClientCases
<1>12. CASE Sweep
  BY <1>7, <1>9, <1>10, <1>12 DEF Sweep, PurgeBegin, PurgeUnlock, books
<1>13. QED
  BY <1>10, <1>11, <1>12 DEF Next, Tick, books, vars

-----------------------------------------------------------------------------
(* The initial books are empty and balanced, and no sweep is under way. *)
LEMMA InitEstablishes == Init => IInv
<1> SUFFICES ASSUME Init PROVE IInv
  OBVIOUS
<1>1. TypeOK
  <2>1. /\ seq \in 0 .. MaxReservations
        /\ now \in 0 .. MaxClock
        /\ purgeAt \in -1 .. now
        /\ granted \in [Keys -> Int]
        /\ held \in [Keys -> Int]
        /\ consumed \in [Keys -> Nat]
        /\ overdraft \in [Keys -> Nat]
    BY QuotaAssumption DEF Init, NotPurging
  <2>2. /\ entries \in [Keys -> Entry \cup {NoEntry}]
        /\ reservations \in [Ids -> Reservation \cup {NoReservation}]
        /\ locked \in BOOLEAN
        /\ todo \in SUBSET Ids
        /\ late \in [Keys -> BOOLEAN]
        /\ wrapped \in [Keys -> BOOLEAN]
    BY DEF Init
  <2>3. QED
    BY <2>1, <2>2 DEF TypeOK
<1>2. SweepInv
  BY DEF Init, SweepInv, SweepTakesOnlyExpired
<1>3. \A k \in Keys : Accounted(k) = 0 /\ granted[k] + overdraft[k] = 0
  BY DEF Init, Accounted, Num
<1>4. NoOverGrant /\ Conservation
  BY <1>3 DEF NoOverGrant, Conservation
<1>5. QED
  BY <1>1, <1>2, <1>4 DEF IInv

(* No step of a client, of the sweep or of the clock breaks the invariant. *)
LEMMA StepPreserves == IInv /\ [Next]_vars => IInv'
<1> SUFFICES ASSUME IInv, [Next]_vars PROVE IInv'
  OBVIOUS
<1>1. TypeOK' /\ SweepInv'
  BY TypeInductive, SweepInductive DEF IInv
<1>2. NoOverGrant' /\ Conservation'
  BY <1>1, LedgerInductive
<1>3. QED
  BY <1>1, <1>2 DEF IInv

(***************************************************************************)
(* The inductive invariant holds in every reachable state.                 *)
(***************************************************************************)
THEOREM Invariance == Spec => []IInv
BY InitEstablishes, StepPreserves, PTL DEF Spec

(***************************************************************************)
(* The store, its sweep and the auditor's books are always well typed: in  *)
(* particular every balance the quota code writes back fits a 64-bit word. *)
(***************************************************************************)
THEOREM TypeCorrect == Spec => []TypeOK
<1>1. IInv => TypeOK
  BY DEF IInv
<1>2. QED
  BY Invariance, <1>1, PTL

(***************************************************************************)
(* No order of reserve, commit, rollback, sweep and writes to the pool     *)
(* hands out more quota than was put in.                                   *)
(***************************************************************************)
THEOREM NothingOverGranted == Spec => []NoOverGrant
<1>1. IInv => NoOverGrant
  BY DEF IInv
<1>2. QED
  BY Invariance, <1>1, PTL

(***************************************************************************)
(* No quota is lost unless a client settles a reservation too late.        *)
(***************************************************************************)
THEOREM NothingLost == Spec => []Conservation
<1>1. IInv => Conservation
  BY DEF IInv
<1>2. QED
  BY Invariance, <1>1, PTL

(***************************************************************************)
(* PurgeExpired never rolls back a reservation that is still in time or    *)
(* that somebody else has settled.                                         *)
(***************************************************************************)
THEOREM SweepNeverEarly == Spec => []SweepTakesOnlyExpired
<1>1. IInv => SweepTakesOnlyExpired
  BY DEF IInv, SweepInv
<1>2. QED
  BY Invariance, <1>1, PTL

-----------------------------------------------------------------------------
(* Sums of amounts.  MapThenSumSet is a recursive function over the        *)
(* subsets of a set; what it computes is shown by induction, stated with   *)
(* sets instead of predicates.                                             *)

(* Induction over the natural numbers, with a set for the predicate. *)
LEMMA NatSetInduction ==
    ASSUME NEW P, 0 \in P, \A n \in Nat : n \in P => n + 1 \in P
    PROVE  \A n \in Nat : n \in P
<1> DEFINE below == {p \in Nat \X Nat : p[1] < p[2]}
           bad == Nat \ P
<1>1. IsWellFoundedOn(below, Nat)
  BY NatLessThanWellFounded DEF OpToRel
<1> SUFFICES ASSUME bad # {} PROVE FALSE
  OBVIOUS
<1>2. bad \subseteq Nat
  OBVIOUS
<1> HIDE DEF below, bad
<1>3. PICK m \in bad : \A n \in bad : ~(<<n, m>> \in below)
  BY <1>1, <1>2, WFMin
<1>4. m \in Nat /\ m # 0 /\ m \notin P
  BY <1>3, <1>2 DEF bad
<1>5. m - 1 \in Nat /\ <<m - 1, m>> \in below
  BY <1>4 DEF below
<1>6. m - 1 \in P
  BY <1>3, <1>5 DEF bad
<1>7. (m - 1) + 1 \in P
  BY <1>5, <1>6
<1> QED
  BY <1>4, <1>7

(* Induction over the subsets of a finite set, one element at a time. *)
LEMMA SubsetInduction ==
    ASSUME NEW S, IsFiniteSet(S), NEW P,
           \A s \in SUBSET S : (\A x \in s : s \ {x} \in P) => s \in P
    PROVE  \A s \in SUBSET S : s \in P
<1> DEFINE Q == {n \in Nat : \A s \in SUBSET S : Cardinality(s) <= n => s \in P}
<1>0. \A s \in SUBSET S : IsFiniteSet(s) /\ Cardinality(s) \in Nat
  BY FS_Subset, FS_CardinalityType
<1>1. 0 \in Q
  <2> SUFFICES ASSUME NEW s \in SUBSET S, Cardinality(s) <= 0 PROVE s \in P
    OBVIOUS
  <2>1. s = {}
    BY <1>0, FS_EmptySet
  <2> QED
    BY <2>1
<1>2. ASSUME NEW n \in Nat, n \in Q PROVE n + 1 \in Q
  <2> SUFFICES ASSUME NEW s \in SUBSET S, Cardinality(s) <= n + 1 PROVE s \in P
    OBVIOUS
  <2>1. ASSUME NEW x \in s PROVE s \ {x} \in P
    <3>1. Cardinality(s \ {x}) = Cardinality(s) - 1
      BY <1>0, FS_RemoveElement
    <3>2. Cardinality(s \ {x}) <= n /\ s \ {x} \in SUBSET S
      BY <3>1, <1>0
    <3> QED
      BY <1>2, <3>2
  <2> QED
    BY <2>1
<1> HIDE DEF Q
<1>3. \A n \in Nat : n \in Q
  BY <1>1, <1>2, NatSetInduction
<1> TAKE s \in SUBSET S
<1>4. Cardinality(s) \in Q
  BY <1>0, <1>3
<1> QED
  BY <1>4, <1>0 DEF Q

(* What MapThenSumSet picks of a set, and what it makes of the sum of the rest. *)
Pick(s) == CHOOSE x \in s : TRUE

Term(r, g, s) == IF s = {} THEN 0 ELSE r[Pick(s)].amount + g[s \ {Pick(s)}]

(* g adds up the amounts of the reservations r in every subset of S. *)
Sums(g, r, S) == g = [s \in SUBSET S |-> Term(r, g, s)]

Total(r, S) == MapThenSumSet(LAMBDA i : r[i].amount, S)

(* A set that is not empty has an element to pick. *)
LEMMA PickIn == ASSUME NEW s, s # {} PROVE Pick(s) \in s
BY DEF Pick

(* There is a function that adds the amounts up. *)
LEMMA SumExists ==
    ASSUME NEW S, IsFiniteSet(S), NEW r
    PROVE  \E g : Sums(g, r, S)
<1> DEFINE Q == {n \in Nat : \E g : \A s \in SUBSET S :
                    Cardinality(s) <= n => g[s] = Term(r, g, s)}
<1>0. \A s \in SUBSET S : IsFiniteSet(s) /\ Cardinality(s) \in Nat
  BY FS_Subset, FS_CardinalityType
<1>1. 0 \in Q
  <2> DEFINE g == [s \in SUBSET S |-> 0]
  <2>1. ASSUME NEW s \in SUBSET S, Cardinality(s) <= 0 PROVE g[s] = Term(r, g, s)
    <3>1. s = {}
      BY <1>0, <2>1, FS_EmptySet
    <3> QED
      BY <3>1 DEF Term
  <2> HIDE DEF g
  <2> QED
    BY <2>1
<1>2. ASSUME NEW n \in Nat, n \in Q PROVE n + 1 \in Q
  <2>1. PICK g : \A s \in SUBSET S : Cardinality(s) <= n => g[s] = Term(r, g, s)
    BY <1>2
  <2> DEFINE h == [s \in SUBSET S |-> Term(r, g, s)]
  <2>2. ASSUME NEW s \in SUBSET S, Cardinality(s) <= n + 1 PROVE h[s] = Term(r, h, s)
    <3>1. CASE s = {}
      BY <3>1 DEF Term
    <3>2. CASE s # {}
      <4> DEFINE t == s \ {Pick(s)}
      <4>1. Cardinality(t) = Cardinality(s) - 1
        BY <1>0, <3>2, PickIn, FS_RemoveElement
      <4>2. t \in SUBSET S /\ Cardinality(t) <= n
        BY <4>1, <2>2, <1>0
      <4>3. h[t] = g[t]
        BY <4>2, <2>1
      <4> HIDE DEF t
      <4>4. Term(r, h, s) = r[Pick(s)].amount + h[t] /\ Term(r, g, s) = r[Pick(s)].amount + g[t]
        BY <3>2 DEF Term, t
      <4> QED
        BY <4>3, <4>4
    <3> QED
      BY <3>1, <3>2
  <2> HIDE DEF h
  <2> QED
    BY <2>2
<1> HIDE DEF Q
<1>3. \A n \in Nat : n \in Q
  BY <1>1, <1>2, NatSetInduction
<1>4. Cardinality(S) \in Q
  BY <1>0, <1>3
<1>5. PICK g : \A s \in SUBSET S : Cardinality(s) <= Cardinality(S) => g[s] = Term(r, g, s)
  BY <1>4 DEF Q
<1>6. \A s \in SUBSET S : g[s] = Term(r, g, s)
  BY <1>5, FS_Subset
<1> DEFINE h == [s \in SUBSET S |-> Term(r, g, s)]
<1>7. ASSUME NEW s \in SUBSET S PROVE Term(r, g, s) = Term(r, h, s)
  <2>1. CASE s = {}
    BY <2>1 DEF Term
  <2>2. CASE s # {}
    <3>1. s \ {Pick(s)} \in SUBSET S
      OBVIOUS
    <3>2. h[s \ {Pick(s)}] = g[s \ {Pick(s)}]
      BY <3>1, <1>6
    <3> HIDE DEF h
    <3> QED
      BY <3>2, <2>2 DEF Term
  <2> QED
    BY <2>1, <2>2
<1>8. h = [s \in SUBSET S |-> Term(r, h, s)]
  BY <1>7
<1> HIDE DEF h
<1> QED
  BY <1>8 DEF Sums

(* Total is the value of such a function. *)
LEMMA TotalIs ==
    ASSUME NEW S, IsFiniteSet(S), NEW r
    PROVE  \E g : Sums(g, r, S) /\ Total(r, S) = g[S]
<1> DEFINE g == CHOOSE g : Sums(g, r, S)
<1>1. Sums(g, r, S)
  BY SumExists
<1>2. Total(r, S) = g[S]
  BY DEF Total, MapThenSumSet, MapThenFoldSet, Term, Pick, Sums
<1> HIDE DEF g
<1> QED
  BY <1>1, <1>2

(* Two such functions agree where the amounts do. *)
LEMMA SumsAgree ==
    ASSUME NEW S, IsFiniteSet(S), NEW T \in SUBSET S, NEW q, NEW r,
           \A i \in T : q[i] = r[i],
           NEW f, Sums(f, q, S), NEW g, Sums(g, r, T)
    PROVE  f[T] = g[T]
<1> DEFINE P == {s \in SUBSET T : f[s] = g[s]}
<1>1. IsFiniteSet(T)
  BY FS_Subset
<1>2. ASSUME NEW s \in SUBSET T, \A x \in s : s \ {x} \in P PROVE f[s] = g[s]
  <2>1. f[s] = Term(q, f, s) /\ g[s] = Term(r, g, s)
    BY DEF Sums
  <2>2. CASE s = {}
    BY <2>1, <2>2 DEF Term
  <2>3. CASE s # {}
    <3>1. Pick(s) \in s
      BY <2>3, PickIn
    <3>2. f[s \ {Pick(s)}] = g[s \ {Pick(s)}] /\ q[Pick(s)] = r[Pick(s)]
      BY <3>1, <1>2
    <3> QED
      BY <2>1, <2>3, <3>2 DEF Term
  <2> QED
    BY <2>2, <2>3
<1>3. \A s \in SUBSET T : (\A x \in s : s \ {x} \in P) => s \in P
  BY <1>2
<1> HIDE DEF P
<1>4. \A s \in SUBSET T : s \in P
  BY <1>1, <1>3, SubsetInduction
<1> QED
  BY <1>4 DEF P

(* The order in which the elements are picked does not matter. *)
LEMMA AnyOrder ==
    ASSUME NEW S, IsFiniteSet(S), NEW r, \A i \in S : r[i].amount \in Int,
           NEW g, Sums(g, r, S)
    PROVE  /\ g[S] \in Int
           /\ \A x \in S : g[S] = r[x].amount + g[S \ {x}]
<1> DEFINE N == {s \in SUBSET S : g[s] \in Int}
           P == {s \in SUBSET S : \A x \in s : g[s] = r[x].amount + g[s \ {x}]}
<1>0. \A s \in SUBSET S : g[s] = Term(r, g, s)
  BY DEF Sums
<1>1. ASSUME NEW s \in SUBSET S, \A x \in s : s \ {x} \in N PROVE s \in N
  <2>1. CASE s = {}
    <3>1. g[s] = 0
      BY <1>0, <2>1 DEF Term
    <3> QED
      BY <3>1
  <2>2. CASE s # {}
    <3>1. Pick(s) \in s
      BY <2>2, PickIn
    <3>2. r[Pick(s)].amount \in Int /\ g[s \ {Pick(s)}] \in Int
      BY <3>1, <1>1
    <3>3. g[s] = r[Pick(s)].amount + g[s \ {Pick(s)}]
      BY <1>0, <2>2 DEF Term
    <3> QED
      BY <3>2, <3>3
  <2> QED
    BY <2>1, <2>2
<1>2. \A s \in SUBSET S : g[s] \in Int
  <2> HIDE DEF N
  <2>1. \A s \in SUBSET S : s \in N
    BY <1>1, SubsetInduction
  <2> QED
    BY <2>1 DEF N
<1>3. ASSUME NEW s \in SUBSET S, \A x \in s : s \ {x} \in P PROVE s \in P
  <2> SUFFICES ASSUME NEW x \in s PROVE g[s] = r[x].amount + g[s \ {x}]
    OBVIOUS
  <2>1. PICK c \in s : g[s] = r[c].amount + g[s \ {c}]
    BY <1>0, PickIn DEF Term
  <2>2. CASE x = c
    BY <2>1, <2>2
  <2>3. CASE x # c
    <3>1. g[s \ {c}] = r[x].amount + g[(s \ {c}) \ {x}]
      BY <1>3, <2>3
    <3>2. g[s \ {x}] = r[c].amount + g[(s \ {x}) \ {c}]
      BY <1>3, <2>3
    <3>3. (s \ {c}) \ {x} = (s \ {x}) \ {c} /\ (s \ {c}) \ {x} \in SUBSET S
      OBVIOUS
    <3>4. g[(s \ {c}) \ {x}] \in Int /\ r[x].amount \in Int /\ r[c].amount \in Int
      BY <3>3, <1>2
    <3> DEFINE u == g[(s \ {c}) \ {x}]
               a == r[x].amount
               b == r[c].amount
               v == g[s \ {c}]
               w == g[s \ {x}]
    <3>5. g[s] = b + v /\ v = a + u /\ w = b + u /\ a \in Int /\ b \in Int /\ u \in Int
      BY <2>1, <3>1, <3>2, <3>3, <3>4
    <3> HIDE DEF P, u, a, b, v, w
    <3>6. g[s] = a + w
      BY <3>5
    <3> QED
      BY <3>6 DEF a, w
  <2> QED
    BY <2>2, <2>3
<1> HIDE DEF P
<1>4. \A s \in SUBSET S : s \in P
  BY <1>3, SubsetInduction
<1> QED
  BY <1>2, <1>4 DEF P

(* The sum of a set with one element taken out. *)
LEMMA TotalWithout ==
    ASSUME NEW S, IsFiniteSet(S), NEW r, \A i \in S : r[i].amount \in Int, NEW x \in S
    PROVE  /\ Total(r, S) \in Int
           /\ Total(r, S) = r[x].amount + Total(r, S \ {x})
<1>1. IsFiniteSet(S \ {x})
  BY FS_RemoveElement
<1>2. PICK f : Sums(f, r, S) /\ Total(r, S) = f[S]
  BY TotalIs
<1>3. PICK g : Sums(g, r, S \ {x}) /\ Total(r, S \ {x}) = g[S \ {x}]
  BY <1>1, TotalIs
<1>4. f[S \ {x}] = g[S \ {x}]
  <2>1. S \ {x} \in SUBSET S
    OBVIOUS
  <2> QED
    BY <1>2, <1>3, <2>1, SumsAgree
<1>5. f[S] \in Int /\ f[S] = r[x].amount + f[S \ {x}]
  BY <1>2, AnyOrder
<1> QED
  BY <1>2, <1>3, <1>4, <1>5

(* Sums with the same terms are the same. *)
LEMMA TotalSame ==
    ASSUME NEW S, IsFiniteSet(S), NEW q, NEW r, \A i \in S : q[i] = r[i]
    PROVE  Total(q, S) = Total(r, S)
<1>1. PICK f : Sums(f, q, S) /\ Total(q, S) = f[S]
  BY TotalIs
<1>2. PICK g : Sums(g, r, S) /\ Total(r, S) = g[S]
  BY TotalIs
<1>3. S \in SUBSET S
  OBVIOUS
<1> QED
  BY <1>1, <1>2, <1>3, SumsAgree

(* The sum of nothing. *)
LEMMA TotalEmpty == ASSUME NEW r PROVE Total(r, {}) = 0
<1>1. PICK g : Sums(g, r, {}) /\ Total(r, {}) = g[{}]
  BY FS_EmptySet, TotalIs
<1> QED
  BY <1>1 DEF Term, Sums

-----------------------------------------------------------------------------
(* The held amounts and the table of reservations. *)

(* The ids of the unsettled reservations of pool k in the table r. *)
Of(r, k) == {id \in Ids : r[id] # NoReservation /\ r[id].key = k}

(* The ids of a table are finitely many, and their amounts are numbers. *)
LEMMA TableIsFinite ==
    ASSUME TypeOK, NEW k \in Keys
    PROVE  /\ IsFiniteSet(Of(reservations, k))
           /\ \A id \in Of(reservations, k) : reservations[id].amount \in Int
<1>1. IsFiniteSet(Ids)
  BY FS_Interval, QuotaAssumption DEF Ids
<1>2. Of(reservations, k) \in SUBSET Ids
  BY DEF Of
<1>3. IsFiniteSet(Of(reservations, k))
  BY <1>1, <1>2, FS_Subset
<1>4. \A id \in Of(reservations, k) : reservations[id].amount \in Int
  BY WordAssumption DEF Of, TypeOK, Reservation
<1> QED
  BY <1>3, <1>4

(* The books of every pool agree with the table. *)
LEMMA HeldAsTotal ==
    HeldIsSum <=> \A k \in Keys : held[k] = Total(reservations, Of(reservations, k))
BY DEF HeldIsSum, Total, Of, Outstanding

(* The same in the next state. *)
LEMMA HeldAsTotalNext ==
    HeldIsSum' <=> \A k \in Keys : held'[k] = Total(reservations', Of(reservations', k))
BY DEF HeldIsSum, Total, Of, Outstanding, MapThenSumSet, MapThenFoldSet

(* Settling a reservation takes its amount out of both. *)
LEMMA SettleKeepsHeld ==
    ASSUME TypeOK, TypeOK', HeldInv, NEW id \in Ids, Outstanding(id), Settle(id), seq' = seq
    PROVE  HeldInv'
<1>1. \A i \in Ids : Outstanding(i)' => Outstanding(i)
  BY DEF Settle, Outstanding, TypeOK
<1>2. ASSUME NEW k \in Keys
      PROVE  held'[k] = Total(reservations', Of(reservations', k))
  <2> DEFINE before == Of(reservations, k)
             after == Of(reservations', k)
  <2>1. held[k] = Total(reservations, before)
    BY HeldAsTotal DEF HeldInv
  <2>2. \A i \in after : reservations'[i] = reservations[i]
    BY DEF Settle, TypeOK, Of
  <2>3. IsFiniteSet(before) /\ \A i \in before : reservations[i].amount \in Int
    BY TableIsFinite
  <2>4. after = before \ {id}
    BY DEF Settle, TypeOK, Of
  <2>5. IsFiniteSet(after)
    BY <2>3, <2>4, FS_RemoveElement
  <2>6. Total(reservations', after) = Total(reservations, after)
    BY <2>2, <2>5, TotalSame
  <2>7. CASE k = reservations[id].key
    <3>1. id \in before
      BY <2>7 DEF Of, Outstanding
    <3>2. Total(reservations, before) = reservations[id].amount + Total(reservations, after)
      BY <2>3, <2>4, <3>1, TotalWithout
    <3>3. held'[k] = held[k] - reservations[id].amount
      BY <2>7 DEF Settle, TypeOK
    <3>4. reservations[id].amount \in Int /\ Total(reservations', after) \in Int
      <4>1. PICK g : Sums(g, reservations', after) /\ Total(reservations', after) = g[after]
        BY <2>5, TotalIs
      <4>2. \A i \in after : reservations'[i].amount \in Int
        BY <2>2, <2>3, <2>4
      <4> QED
        BY <2>3, <2>5, <3>1, <4>1, <4>2, AnyOrder
    <3> QED
      BY <2>1, <2>6, <3>2, <3>3, <3>4
  <2>8. CASE k # reservations[id].key
    <3>1. after = before
      BY <2>4, <2>8 DEF Of
    <3>2. held'[k] = held[k]
      BY <2>8 DEF Settle, TypeOK
    <3> QED
      BY <2>1, <2>6, <3>1, <3>2
  <2> QED
    BY <2>7, <2>8
<1>3. HeldIsSum'
  BY <1>2, HeldAsTotalNext
<1> QED
  BY <1>1, <1>3 DEF HeldInv

(* A new reservation adds its amount to both. *)
LEMMA ReserveKeepsHeld ==
    ASSUME TypeOK, TypeOK', HeldInv, NEW p \in Keys, NEW amount \in Amounts,
           NEW ttl \in ReserveTtls, ReserveQuota(p, amount, ttl)
    PROVE  HeldInv'
<1> DEFINE id == seq + 1
<1>0. id \in Ids /\ seq' = id
  BY QuotaAssumption DEF ReserveQuota, TypeOK, Ids
<1>1. \A i \in Ids : i <= seq => i # id
  BY DEF TypeOK, Ids
<1> HIDE DEF id
<1>2. /\ reservations[id] = NoReservation
      /\ reservations'[id] # NoReservation
      /\ reservations'[id].key = p /\ reservations'[id].amount = amount
      /\ \A i \in Ids : i # id => reservations'[i] = reservations[i]
  <2>1. reservations[id] = NoReservation
    BY <1>0, <1>1 DEF HeldInv, Outstanding
  <2>2. reservations' = [reservations EXCEPT ![id] =
            [key |-> p, amount |-> amount, expire_at |-> AddU64(now, ttl)]]
    BY DEF ReserveQuota, NewId, id
  <2>3. [key |-> p, amount |-> amount, expire_at |-> AddU64(now, ttl)] \in Reservation
    <3>1. now \in Nat /\ amount \in 1 .. MaxU64 /\ ttl \in 0 .. MaxU64
      BY QuotaAssumption DEF TypeOK
    <3> QED
      BY <3>1, WordsStayWords DEF Reservation
  <2> QED
    BY <1>0, <2>1, <2>2, <2>3, QuotaAssumption DEF TypeOK
<1>3. \A i \in Ids : Outstanding(i)' => i <= seq'
  <2> TAKE i \in Ids
  <2>1. CASE i = id
    BY <2>1, <1>0 DEF Ids
  <2>2. CASE i # id
    BY <2>2, <1>0, <1>2 DEF HeldInv, Outstanding, TypeOK, Ids, id
  <2> QED
    BY <2>1, <2>2
<1>4. ASSUME NEW k \in Keys
      PROVE  held'[k] = Total(reservations', Of(reservations', k))
  <2> DEFINE before == Of(reservations, k)
             after == Of(reservations', k)
  <2>1. held[k] = Total(reservations, before)
    BY HeldAsTotal DEF HeldInv
  <2>2. \A i \in before : reservations'[i] = reservations[i]
    BY <1>2 DEF Of
  <2>3. IsFiniteSet(before) /\ \A i \in before : reservations[i].amount \in Int
    BY TableIsFinite
  <2>4. Total(reservations', before) = Total(reservations, before)
    BY <2>2, <2>3, TotalSame
  <2>5. CASE k = p
    <3>1. after = before \cup {id} /\ id \notin before
      BY <1>0, <1>2, <2>5 DEF Of
    <3>2. IsFiniteSet(after)
      BY <2>3, <3>1, FS_AddElement
    <3>3. amount \in Int
      BY QuotaAssumption, WordAssumption
    <3>4. \A i \in after : reservations'[i].amount \in Int
      BY <1>2, <2>2, <2>3, <3>1, <3>3
    <3>5. after \ {id} = before /\ id \in after
      BY <3>1
    <3>6. /\ Total(reservations', after) = amount + Total(reservations', before)
      BY <1>2, <3>2, <3>4, <3>5, TotalWithout
    <3>7. held'[k] = held[k] + amount /\ held[k] \in Int
      BY <2>5 DEF ReserveQuota, TypeOK
    <3> QED
      BY <2>1, <2>4, <3>3, <3>6, <3>7
  <2>6. CASE k # p
    <3>1. after = before
      BY <1>0, <1>2, <2>6 DEF Of
    <3>2. held'[k] = held[k]
      BY <2>6 DEF ReserveQuota, TypeOK
    <3> QED
      BY <2>1, <2>4, <3>1, <3>2
  <2> QED
    BY <2>5, <2>6
<1>5. HeldIsSum'
  BY <1>4, HeldAsTotalNext
<1> QED
  BY <1>3, <1>5 DEF HeldInv

(* The amounts in the table and the held amounts start at nothing. *)
LEMMA HeldInit == Init => HeldInv
<1> SUFFICES ASSUME Init PROVE HeldInv
  OBVIOUS
<1>1. ASSUME NEW k \in Keys PROVE held[k] = Total(reservations, Of(reservations, k))
  <2>1. Of(reservations, k) = {} /\ held[k] = 0
    BY DEF Init, Of
  <2> QED
    BY <2>1, TotalEmpty
<1>2. HeldIsSum
  BY <1>1, HeldAsTotal
<1> QED
  BY <1>2 DEF HeldInv, Init, Outstanding

(* Every step moves an amount in both or in neither. *)
LEMMA HeldInductive ==
    TypeOK /\ TypeOK' /\ SweepInv /\ HeldInv /\ [Next]_vars => HeldInv'
<1> SUFFICES ASSUME TypeOK, TypeOK', SweepInv, HeldInv, [Next]_vars PROVE HeldInv'
  OBVIOUS
<1>1. ASSUME reservations' = reservations, held' = held, seq' = seq
      PROVE  HeldInv'
  <2>1. HeldIsSum'
    BY <1>1, HeldAsTotal, HeldAsTotalNext DEF HeldInv
  <2> QED
    BY <1>1, <2>1 DEF HeldInv, Outstanding
<1>2. CASE Client
  <2>1. ASSUME NEW k \in Keys, NEW e \in Entry \cup {NoEntry}, KvOperation(k, e)
        PROVE  HeldInv'
    BY <1>1, <2>1 DEF KvOperation
  <2>2. ASSUME NEW k \in Keys, NEW amount \in Amounts, NEW ttl \in ReserveTtls,
               ReserveQuota(k, amount, ttl)
        PROVE  HeldInv'
    BY <2>2, ReserveKeepsHeld
  <2>3. ASSUME NEW id \in Ids, NEW actual \in Actuals, CommitQuota(id, actual)
        PROVE  HeldInv'
    BY <2>3, SettleKeepsHeld DEF CommitQuota
  <2>4. ASSUME NEW id \in Ids, CommitExpired(id) PROVE HeldInv'
    BY <2>4, SettleKeepsHeld DEF CommitExpired
  <2>5. ASSUME NEW id \in Ids, RollbackQuota(id) PROVE HeldInv'
    BY <2>5, SettleKeepsHeld DEF RollbackQuota
  <2> QED
    BY <1>2, <2>1, <2>2, <2>3, <2>4, <2>5, ClientCases
<1>3. CASE Sweep
  <2>1. ASSUME NEW id \in Ids, PurgeRefund(id) PROVE HeldInv'
    <3>1. Outstanding(id)
      BY <2>1 DEF PurgeRefund, SweepInv, SweepTakesOnlyExpired
    <3> QED
      BY <2>1, <3>1, SettleKeepsHeld DEF PurgeRefund
  <2> QED
    BY <1>1, <1>3, <2>1 DEF Sweep, PurgeBegin, PurgeLock, PurgeUnlock, books
<1>4. CASE Tick \/ UNCHANGED vars
  BY <1>1, <1>4 DEF Tick, vars, books
<1> QED
  BY <1>2, <1>3, <1>4 DEF Next

(***************************************************************************)
(* The held amount of a pool is the sum of its unsettled reservations, for *)
(* any number of pools and reservations: RESERVE enters each amount once,  *)
(* and COMMIT, ROLLBACK and the sweep between them take it out once.       *)
(***************************************************************************)
THEOREM HeldMatchesTable == Spec => []HeldIsSum
<1>1. IInv /\ HeldInv /\ [Next]_vars => HeldInv'
  BY StepPreserves, HeldInductive DEF IInv
<1>2. HeldInv => HeldIsSum
  BY DEF HeldInv
<1> QED
  BY HeldInit, Invariance, <1>1, <1>2, PTL DEF Spec
=============================================================================
