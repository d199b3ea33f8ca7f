-------------------------- MODULE RateLimiterProofs --------------------------
(***************************************************************************)
(* The sliding window counter, for every set of limits, window lengths and *)
(* costs, whatever the double arithmetic makes of a count and a weight,    *)
(* and any number of requests, ticks and sweeps.                           *)
(*                                                                         *)
(* The counts a request is judged by are those of the rolled record; what  *)
(* makes the properties inductive is a statement about the record as it is *)
(* stored, between requests: it may lie any number of windows behind, or   *)
(* be gone, and then nothing has been admitted since.                      *)
(***************************************************************************)
EXTENDS RateLimiter, WellFoundedInduction, TLAPS

-----------------------------------------------------------------------------
(* Arithmetic. *)

(* A clock reading is its window's start plus the time elapsed in it. *)
LEMMA Division ==
    ASSUME NEW t \in Nat, NEW w \in Nat \ {0}
    PROVE  /\ t \div w \in Nat
           /\ t % w \in 0 .. w - 1
           /\ t = w * (t \div w) + (t % w)
OBVIOUS

(* Every window number is at most the clock reading. *)
LEMMA DivisionBound ==
    ASSUME NEW t \in Nat, NEW w \in Nat \ {0}
    PROVE  t \div w <= t
OBVIOUS

(* From the start of the m-th window on, the window number is at least m. *)
LEMMA WindowReached ==
    ASSUME NEW t \in Nat, NEW w \in Nat \ {0}, NEW m \in Nat, t >= m * w
    PROVE  t \div w >= m
OBVIOUS

(* One tick stays in the window or starts the next one. *)
LEMMA WindowAfterTick ==
    ASSUME NEW t \in Nat, NEW w \in Nat \ {0}
    PROVE  \/ (t + 1) \div w = t \div w /\ (t + 1) % w = (t % w) + 1
           \/ (t + 1) \div w = t \div w + 1 /\ (t + 1) % w = 0
OBVIOUS

(* The weighted previous count is at most that count, and never grows. *)
LEMMA WeightBound ==
    ASSUME NEW n \in Nat, NEW w \in Nat \ {0}, NEW e \in 0 .. w
    PROVE  /\ (n * (w - e)) \div w \in Nat
           /\ (n * (w - e)) \div w <= n
OBVIOUS

(* The weight of the previous window falls while the window lasts. *)
LEMMA WeightFalls ==
    ASSUME NEW n \in Nat, NEW w \in Nat \ {0}, NEW e \in 0 .. w - 1
    PROVE  (n * (w - (e + 1))) \div w <= (n * (w - e)) \div w
OBVIOUS

(* At the start of a window all of the previous one counts. *)
LEMMA FullWeight ==
    ASSUME NEW n \in Nat, NEW w \in Nat \ {0}
    PROVE  (n * (w - 0)) \div w = n
OBVIOUS

(* A product that is a word is not touched by the wrap-around. *)
LEMMA WordProduct ==
    ASSUME NEW a \in Nat, NEW b \in Nat
    PROVE  /\ MulU64(a, b) \in 0 .. MaxU64
           /\ a * b <= MaxU64 => MulU64(a, b) = a * b
<1>1. MaxU64 + 1 \in Nat \ {0} /\ MaxU64 \in Nat /\ a * b \in Nat
  BY WordAssumption
<1> DEFINE n == a * b
           m == MaxU64 + 1
<1>2. n % m \in 0 .. m - 1 /\ (n < m => n % m = n)
  <2> HIDE DEF n, m
  <2> QED
    BY <1>1 DEF n, m
<1> QED
  BY <1>1, <1>2 DEF MulU64

(* If the deadline is a word now, it was in every earlier window. *)
LEMMA EarlierDeadline ==
    ASSUME NEW a \in Nat, NEW b \in Nat, NEW w \in Nat, a <= b, (b + 2) * w <= MaxU64
    PROVE  (a + 2) * w <= MaxU64
<1>1. PICK d \in Nat : b = a + d
  <2>1. b - a \in Nat /\ b = a + (b - a)
    OBVIOUS
  <2> QED
    BY <2>1
<1>2. (b + 2) * w = (a + 2) * w + d * w /\ d * w \in Nat /\ (a + 2) * w \in Nat
  BY <1>1
<1> QED
  BY <1>2, WordAssumption

-----------------------------------------------------------------------------
(* The constants. *)

(* Windows have a length. *)
LEMMA WindowPositive == \A w \in Windows : w \in Nat \ {0}
BY RateAssumption, WordAssumption

(* Limits are positive words. *)
LEMMA LimitNatural == \A l \in Limits : l \in Nat \ {0} /\ l <= MaxU64
BY RateAssumption, WordAssumption

(* Limits is a non-empty set of words, so one of them is the largest: the   *)
(* limit that leaves least room below MaxU64.                              *)
LEMMA LargestLimit ==
    /\ Largest \in Limits
    /\ \A l \in Limits : l <= Largest
<1> DEFINE below == {p \in Nat \X Nat : p[1] < p[2]}
           rooms == {MaxU64 - l : l \in Limits}
<1>1. IsWellFoundedOn(below, Nat)
  BY NatLessThanWellFounded DEF OpToRel
<1>2. rooms \subseteq Nat /\ rooms # {}
  <2>1. \A l \in Limits : MaxU64 - l \in Nat
    BY LimitNatural, WordAssumption
  <2>2. PICK l \in Limits : TRUE
    BY RateAssumption
  <2>3. MaxU64 - l \in rooms
    BY <2>2
  <2> QED
    BY <2>1, <2>3
<1> HIDE DEF below, rooms
<1>3. PICK m \in rooms : \A n \in rooms : ~(<<n, m>> \in below)
  BY <1>1, <1>2, WFMin
<1>4. \A n \in rooms : m <= n
  <2> SUFFICES ASSUME NEW n \in rooms, ~(m <= n) PROVE FALSE
    OBVIOUS
  <2>1. m \in Nat /\ n \in Nat /\ n < m
    BY <1>2
  <2>2. <<n, m>> \in below
    BY <2>1 DEF below
  <2> QED
    BY <1>3, <2>2
<1>5. PICK x \in Limits : m = MaxU64 - x
  BY DEF rooms
<1>6. \A y \in Limits : x >= y
  <2> TAKE y \in Limits
  <2>1. MaxU64 - y \in rooms
    BY DEF rooms
  <2> QED
    BY <2>1, <1>4, <1>5, LimitNatural, WordAssumption
<1>7. \E z \in Limits : \A y \in Limits : z >= y
  BY <1>6
<1>8. Largest \in Limits /\ \A y \in Limits : Largest >= y
  BY <1>7 DEF Largest, Max
<1> QED
  BY <1>8, LimitNatural

(* The largest limit is positive. *)
LEMMA LargestNatural == Largest \in Nat \ {0}
BY LargestLimit, LimitNatural

(* What is charged is a positive word. *)
LEMMA ChargeNatural ==
    ASSUME NEW cost \in Costs
    PROVE  Charge(cost) \in Nat \ {0}
<1>1. cost \in Nat
  BY RateAssumption, WordAssumption
<1> QED
  BY <1>1 DEF Charge

-----------------------------------------------------------------------------
(* The operators. *)

(* The computed estimate is at least the current count, is zero if both    *)
(* counts are, and leaves room for a cost.                                 *)
LEMMA EstimateBounds ==
    ASSUME NEW r \in Record, NEW e \in 0 .. r.window - 1
    PROVE  /\ Estimate(r, e) = Product(r.prev, e, r.window) + r.cur
           /\ Product(r.prev, e, r.window) \in Nat
           /\ r.prev = 0 => Product(r.prev, e, r.window) = 0
           /\ \A cost \in Costs : Estimate(r, e) + Charge(cost) <= MaxU64
<1>1. /\ r.prev \in 0 .. Largest /\ r.cur \in 0 .. Largest /\ r.window \in Windows
      /\ Largest \in Nat
  BY LargestNatural DEF Record
<1>2. /\ Product(r.prev, e, r.window) \in Nat
      /\ r.prev = 0 => Product(r.prev, e, r.window) = 0
      /\ \A cost \in Costs :
            Product(r.prev, e, r.window) + Largest + Charge(cost) <= MaxU64
  BY <1>1, RateAssumption
<1>3. ASSUME NEW cost \in Costs PROVE Estimate(r, e) + Charge(cost) <= MaxU64
  BY <1>1, <1>2, ChargeNatural, WordAssumption DEF Estimate
<1> QED
  BY <1>2, <1>3 DEF Estimate

(* A request is admitted exactly when the estimate and its cost fit the    *)
(* limit: the sum of the code's check never wraps around.                  *)
LEMMA AdmitsExactly ==
    ASSUME NEW r \in Record, NEW t \in Nat, NEW limit \in Limits, NEW cost \in Costs
    PROVE  Admits(r, t, limit, cost) <=>
               Estimate(r, t % r.window) + Charge(cost) <= limit
<1>1. t % r.window \in 0 .. r.window - 1
  BY WindowPositive, Division DEF Record
<1>2. /\ Estimate(r, t % r.window) + Charge(cost) <= MaxU64
      /\ Estimate(r, t % r.window) \in Nat
  <2>1. r.cur \in Nat
    BY LargestNatural DEF Record
  <2> QED
    BY <1>1, <2>1, EstimateBounds
<1>3. Charge(cost) \in Nat
  BY ChargeNatural
<1> QED
  BY <1>2, <1>3, WordAssumption DEF Admits, AddU64

(* A new record is one. *)
LEMMA FreshType ==
    ASSUME NEW t \in Nat, NEW w \in Windows
    PROVE  Fresh(t, w) \in Record
<1>1. w \in Nat /\ t \div w \in Nat
  BY WindowPositive, Division
<1>2. MulU64(t \div w + 2, w) \in 0 .. MaxU64
  <2>1. t \div w + 2 \in Nat
    BY <1>1
  <2> QED
    BY <1>1, <2>1, WordProduct
<1> QED
  BY <1>1, <1>2, LargestNatural DEF Fresh, Record

(* What a request finds: a record of its own window length, in the current *)
(* window whenever the stored one is not ahead of it.                      *)
LEMMA RolledFacts ==
    ASSUME NEW r \in Record \cup {NoRecord}, NEW t \in Nat, NEW w \in Windows,
           r # NoRecord =>
               /\ r.window = w => r.idx <= t \div w
               /\ r.expire_at = MulU64(r.idx + 2, r.window)
    PROVE  /\ Rolled(r, t, w) \in Record
           /\ Rolled(r, t, w).window = w
           /\ Rolled(r, t, w).idx = t \div w
           /\ Rolled(r, t, w).expire_at = MulU64(t \div w + 2, w)
           /\ \/ /\ Rolled(r, t, w) = r
                 /\ r # NoRecord /\ r.window = w /\ r.idx = t \div w
              \/ /\ Rolled(r, t, w).cur = 0
                 /\ Rolled(r, t, w).prev = r.cur
                 /\ r # NoRecord /\ r.window = w /\ r.idx = t \div w - 1
              \/ /\ Rolled(r, t, w).cur = 0
                 /\ Rolled(r, t, w).prev = 0
                 /\ r # NoRecord /\ r.window = w /\ ~Wraps(t, w) => r.idx < t \div w - 1
<1> DEFINE i == t \div w
<1>1. Fresh(t, w) \in Record /\ i \in Nat
  BY FreshType, WindowPositive, Division
<1>2. /\ Fresh(t, w).window = w /\ Fresh(t, w).idx = i
      /\ Fresh(t, w).expire_at = MulU64(i + 2, w)
      /\ Fresh(t, w).cur = 0 /\ Fresh(t, w).prev = 0
  BY DEF Fresh
<1>3. CASE r = NoRecord
  BY <1>1, <1>2, <1>3 DEF Rolled
<1>4. CASE r # NoRecord /\ r.window # w
  BY <1>1, <1>2, <1>4 DEF Rolled
<1>5. CASE r # NoRecord /\ r.window = w /\ IsExpired(r, t)
  <2>1. r.idx \in Nat /\ w \in Nat \ {0} /\ r.idx <= i
    BY <1>5, WindowPositive DEF Record
  <2>2. ~Wraps(t, w) => r.idx < i - 1
    <3> SUFFICES ASSUME ~Wraps(t, w) PROVE r.idx < i - 1
      OBVIOUS
    <3>1. (i + 2) * w <= MaxU64
      BY <1>1, <2>1, WordAssumption DEF Wraps
    <3>2. r.expire_at = (r.idx + 2) * w
      <4>1. (r.idx + 2) * w <= MaxU64
        BY <1>1, <2>1, <3>1, EarlierDeadline
      <4>2. r.idx + 2 \in Nat
        BY <2>1
      <4>3. MulU64(r.idx + 2, w) = (r.idx + 2) * w
        BY <2>1, <4>1, <4>2, WordProduct
      <4> QED
        BY <1>5, <4>3
    <3>3. t >= (r.idx + 2) * w
      BY <1>5, <3>2 DEF IsExpired
    <3>4. i >= r.idx + 2
      BY <2>1, <3>3, WindowReached
    <3> QED
      BY <1>1, <2>1, <3>4
  <2> QED
    BY <1>1, <1>2, <1>5, <2>2 DEF Rolled
<1>6. CASE r # NoRecord /\ r.window = w /\ ~IsExpired(r, t)
  <2>1. r \in Record /\ r.idx \in Nat /\ r.idx <= i
    BY <1>6 DEF Record
  <2>2. CASE i = r.idx
    BY <1>1, <1>6, <2>1, <2>2 DEF Rolled
  <2>3. CASE i = r.idx + 1
    <3>1. Rolled(r, t, w) = [Fresh(t, w) EXCEPT !.prev = r.cur]
      BY <1>6, <2>1, <2>3 DEF Rolled
    <3>2. r.cur \in 0 .. Largest
      BY <2>1 DEF Record
    <3> QED
      BY <1>1, <1>2, <1>6, <2>1, <2>3, <3>1, <3>2 DEF Record
  <2>4. CASE i > r.idx + 1
    <3>1. Rolled(r, t, w) = Fresh(t, w)
      BY <1>1, <1>6, <2>1, <2>4 DEF Rolled
    <3> QED
      BY <1>1, <1>2, <1>6, <2>1, <2>4, <3>1
  <2> QED
    BY <1>1, <2>1, <2>2, <2>3, <2>4
<1> QED
  BY <1>3, <1>4, <1>5, <1>6

-----------------------------------------------------------------------------
(* The inductive invariant. *)

(* The stored record is never ahead of the clock, and its deadline is the  *)
(* end of the window after its own, if that is a word.                     *)
RecordBehind ==
    record # NoRecord =>
        /\ record.window \in used
        /\ record.idx <= now \div record.window
        /\ record.expire_at = MulU64(record.idx + 2, record.window)

(* While one window length is used, the record is the log's last entry and *)
(* the one before it, and a key without a record has admitted nothing in   *)
(* the current and the previous window.                                    *)
RecordIsHistory ==
    \A w \in Windows :
        used \subseteq {w} /\ ~Wraps(now, w) =>
            IF record = NoRecord
            THEN \A i \in 0 .. MaxClock : i >= now \div w - 1 => log[i] = 0
            ELSE /\ record.cur = AdmittedIn(record.idx)
                 /\ record.prev = AdmittedIn(record.idx - 1)
                 /\ \A i \in 0 .. MaxClock : i > record.idx => log[i] = 0

IInv ==
    /\ TypeOK
    /\ RecordBehind
    /\ RecordIsHistory
    /\ FormulaBoundsAdmission

(* The stored record satisfies what RolledFacts asks, now and later. *)
LEMMA StoredRecord ==
    ASSUME TypeOK, RecordBehind, NEW w \in Windows, NEW t \in Nat,
           t \div w >= now \div w
    PROVE  /\ record \in Record \cup {NoRecord}
           /\ record # NoRecord =>
                 /\ record.window = w => record.idx <= t \div w
                 /\ record.expire_at = MulU64(record.idx + 2, record.window)
<1>1. record # NoRecord => record.idx \in Nat
  BY DEF TypeOK, Record
<1>2. now \in Nat /\ w \in Nat \ {0}
  BY WindowPositive, RateAssumption DEF TypeOK
<1>3. now \div w \in Nat /\ t \div w \in Nat
  BY <1>2, Division
<1> QED
  BY <1>1, <1>3 DEF TypeOK, RecordBehind

(* The number of the current window is a place of the log. *)
LEMMA WindowInLog ==
    ASSUME TypeOK, NEW w \in Windows
    PROVE  /\ now \in Nat /\ w \in Nat \ {0}
           /\ now \div w \in 0 .. MaxClock
           /\ now % w \in 0 .. w - 1
<1>1. now \in 0 .. MaxClock /\ MaxClock \in Nat /\ w \in Nat \ {0}
  BY WindowPositive, RateAssumption DEF TypeOK
<1>2. now \in Nat
  BY <1>1
<1>3. now \div w \in Nat /\ now % w \in 0 .. w - 1 /\ now \div w <= now
  BY <1>1, <1>2, Division, DivisionBound
<1> QED
  BY <1>1, <1>3

(* What a request is judged by: the rolled record is of the current window *)
(* and holds what the log says of it and of the one before.                *)
LEMMA RolledNow ==
    ASSUME TypeOK, RecordBehind, RecordIsHistory, NEW w \in Windows
    PROVE  LET r == Rolled(record, now, w)
               i == now \div w
           IN  /\ r \in Record /\ r.window = w /\ r.idx = i
               /\ r.expire_at = MulU64(i + 2, w)
               /\ used \subseteq {w} /\ ~Wraps(now, w) =>
                     /\ r.cur = AdmittedIn(i)
                     /\ r.prev = AdmittedIn(i - 1)
                     /\ \A j \in 0 .. MaxClock : j > i => log[j] = 0
<1> DEFINE r == Rolled(record, now, w)
           i == now \div w
<1>1. /\ now \in Nat /\ w \in Nat \ {0} /\ i \in 0 .. MaxClock
      /\ MaxClock \in Nat /\ log \in [0 .. MaxClock -> Nat]
  BY WindowInLog, RateAssumption DEF TypeOK
<1>2. /\ record \in Record \cup {NoRecord}
      /\ record # NoRecord =>
            /\ record.window = w => record.idx <= i
            /\ record.expire_at = MulU64(record.idx + 2, record.window)
  <2>1. i >= i
    BY <1>1
  <2> QED
    BY <1>1, <2>1, StoredRecord
<1>3. /\ r \in Record /\ r.window = w /\ r.idx = i
      /\ r.expire_at = MulU64(i + 2, w)
      /\ \/ r = record /\ record # NoRecord /\ record.window = w /\ record.idx = i
         \/ /\ r.cur = 0 /\ r.prev = record.cur
            /\ record # NoRecord /\ record.window = w /\ record.idx = i - 1
         \/ /\ r.cur = 0 /\ r.prev = 0
            /\ record # NoRecord /\ record.window = w /\ ~Wraps(now, w) => record.idx < i - 1
  <2> HIDE DEF i
  <2>1. now \in Nat
    BY <1>1
  <2> QED
    BY <1>2, <2>1, RolledFacts DEF i
<1> HIDE DEF r, i
<1>4. ASSUME used \subseteq {w}, ~Wraps(now, w)
      PROVE  /\ r.cur = AdmittedIn(i)
             /\ r.prev = AdmittedIn(i - 1)
             /\ \A j \in 0 .. MaxClock : j > i => log[j] = 0
  <2>1. record # NoRecord => record.window = w
    BY <1>4 DEF RecordBehind
  <2>2. record # NoRecord => record.idx \in Nat
    BY <1>2 DEF Record
  <2>3. IF record = NoRecord
        THEN \A j \in 0 .. MaxClock : j >= i - 1 => log[j] = 0
        ELSE /\ record.cur = AdmittedIn(record.idx)
             /\ record.prev = AdmittedIn(record.idx - 1)
             /\ \A j \in 0 .. MaxClock : j > record.idx => log[j] = 0
    BY <1>4 DEF RecordIsHistory, i
  <2>4. CASE r = record /\ record # NoRecord /\ record.idx = i
    BY <2>3, <2>4
  <2>5. CASE /\ r.cur = 0 /\ r.prev = record.cur
             /\ record # NoRecord /\ record.idx = i - 1
    BY <1>1, <2>2, <2>3, <2>5 DEF AdmittedIn
  <2>6. CASE /\ r.cur = 0 /\ r.prev = 0
             /\ record # NoRecord => record.idx < i - 1
    <3>1. \A j \in 0 .. MaxClock : j >= i - 1 => log[j] = 0
      BY <1>1, <2>2, <2>3, <2>6
    <3> QED
      BY <1>1, <2>6, <3>1 DEF AdmittedIn
  <2> QED
    BY <1>3, <1>4, <2>1, <2>4, <2>5, <2>6
<1> QED
  BY <1>3, <1>4 DEF r, i

(* What the stored record says is what its rolled form counts. *)
LEMMA CountsFollow ==
    ASSUME TypeOK, RecordBehind, RecordIsHistory
    PROVE  CountsAreTrue
BY RolledNow DEF CountsAreTrue

(* What one request does to the rolled record and to the log. *)
LEMMA RequestEffect ==
    ASSUME TypeOK, RecordBehind, RecordIsHistory,
           NEW limit \in Limits, NEW w \in Windows, NEW cost \in Costs,
           RateLimit(limit, w, cost)
    PROVE  LET r == Rolled(record, now, w)
               e == now % w
           IN  \E taken \in Nat :
                  /\ record' = [r EXCEPT !.cur = r.cur + taken]
                  /\ record' \in Record
                  /\ used' = used \cup {w}
                  /\ log' = IF used \subseteq {w} /\ ~Wraps(now, w)
                            THEN [log EXCEPT ![now \div w] = @ + taken] ELSE NoLog
                  /\ now' = now /\ purgeAt' = purgeAt
                  /\ taken > 0 =>
                        Formula(r.prev, r.cur, e, w) + taken
                          <= Largest + Shortfall(r.prev, e, w)
<1> DEFINE r == Rolled(record, now, w)
           e == now % w
           taken == IF Admits(r, now, limit, cost) THEN Charge(cost) ELSE 0
<1>1. r \in Record /\ r.window = w
  BY RolledNow
<1>2. /\ record' = [r EXCEPT !.cur = AddU64(r.cur, taken)]
      /\ used' = used \cup {w}
      /\ log' = IF used \subseteq {w} /\ ~Wraps(now, w)
                THEN [log EXCEPT ![now \div w] = @ + taken] ELSE NoLog
      /\ now' = now /\ purgeAt' = purgeAt
  BY <1>1 DEF RateLimit, Record
<1>3. now \in Nat /\ w \in Nat \ {0} /\ e \in 0 .. w - 1
  BY WindowInLog
<1>4. Charge(cost) \in Nat \ {0}
  BY ChargeNatural
<1>5. r.cur \in 0 .. Largest /\ r.prev \in 0 .. Largest /\ Largest \in Nat
  BY <1>1, LargestNatural DEF Record
<1>6. Estimate(r, e) = Product(r.prev, e, w) + r.cur /\ Product(r.prev, e, w) \in Nat
  BY <1>1, <1>3, EstimateBounds
<1>w. Weighted(r.prev, e, w) \in Nat
  <2>1. e \in 0 .. w /\ r.prev \in Nat
    BY <1>3, <1>5
  <2> QED
    BY <1>3, <2>1, WeightBound DEF Weighted
<1>7. limit \in Nat /\ limit <= Largest
  BY LargestLimit, LimitNatural
<1>8. Admits(r, now, limit, cost) => Estimate(r, e) + Charge(cost) <= limit
  BY <1>1, <1>3, AdmitsExactly
<1> HIDE DEF r, e
<1>9. /\ taken \in Nat /\ r.cur + taken \in 0 .. Largest
      /\ taken > 0 => Formula(r.prev, r.cur, e, w) + taken <= Largest + Shortfall(r.prev, e, w)
  BY <1>4, <1>5, <1>6, <1>7, <1>8, <1>w DEF Formula, Shortfall
<1> HIDE DEF taken
<1>10. AddU64(r.cur, taken) = r.cur + taken
  <2>1. Largest <= MaxU64
    BY LargestLimit, LimitNatural
  <2> QED
    BY <1>5, <1>9, <2>1, WordAssumption DEF AddU64
<1>11. record' \in Record
  BY <1>1, <1>2, <1>9, <1>10 DEF Record
<1> QED
  BY <1>2, <1>9, <1>10, <1>11 DEF r, e

(* RATE_LIMIT, admitted or refused. *)
LEMMA RequestPreserves ==
    ASSUME IInv, NEW limit \in Limits, NEW w \in Windows, NEW cost \in Costs,
           RateLimit(limit, w, cost)
    PROVE  IInv'
<1> DEFINE r == Rolled(record, now, w)
<1>0. PICK i \in 0 .. MaxClock, e \in 0 .. w - 1 : i = now \div w /\ e = now % w
  BY WindowInLog DEF IInv
<1>1. PICK taken \in Nat :
          /\ record' = [r EXCEPT !.cur = r.cur + taken]
          /\ record' \in Record
          /\ used' = used \cup {w}
          /\ log' = IF used \subseteq {w} /\ ~Wraps(now, w)
                    THEN [log EXCEPT ![i] = @ + taken] ELSE NoLog
          /\ now' = now /\ purgeAt' = purgeAt
          /\ taken > 0 => Formula(r.prev, r.cur, e, w) + taken
                             <= Largest + Shortfall(r.prev, e, w)
  BY <1>0, RequestEffect DEF IInv
<1>2. /\ r \in Record /\ r.window = w /\ r.idx = i
      /\ r.expire_at = MulU64(i + 2, w)
      /\ used \subseteq {w} /\ ~Wraps(now, w) =>
            /\ r.cur = AdmittedIn(i) /\ r.prev = AdmittedIn(i - 1)
            /\ \A j \in 0 .. MaxClock : j > i => log[j] = 0
  BY <1>0, RolledNow DEF IInv
<1>3. /\ now \in Nat /\ w \in Nat \ {0} /\ i \in 0 .. MaxClock
      /\ e \in 0 .. w - 1 /\ MaxClock \in Nat
      /\ log \in [0 .. MaxClock -> Nat]
  BY <1>0, WindowInLog, RateAssumption DEF IInv, TypeOK
<1>4. /\ record' # NoRecord
      /\ record'.window = w /\ record'.idx = i
      /\ record'.expire_at = MulU64(i + 2, w)
      /\ record'.prev = r.prev /\ record'.cur = r.cur + taken
  BY <1>1, <1>2, RateAssumption DEF Record
<1>5. r.cur \in Nat /\ r.prev \in Nat
  BY <1>2, LargestNatural DEF Record
<1> HIDE DEF r
<1>6. TypeOK'
  <2>1. log' \in [0 .. MaxClock -> Nat]
    BY <1>1, <1>3 DEF NoLog
  <2> QED
    BY <1>1, <2>1 DEF IInv, TypeOK
<1>7. RecordBehind'
  <2>1. (now \div w)' = i /\ i <= i
    BY <1>0, <1>1, <1>3
  <2> QED
    BY <1>1, <1>4, <2>1 DEF RecordBehind
<1>8. ASSUME NEW v \in Windows, (used \subseteq {v})', ~Wraps(now, v)
      PROVE  /\ v = w /\ used \subseteq {w}
             /\ AdmittedIn(i)' = r.cur + taken
             /\ AdmittedIn(i - 1)' = r.prev
             /\ \A j \in 0 .. MaxClock : j > i => log'[j] = 0
  <2>1. v = w /\ used \subseteq {w}
    BY <1>1, <1>8
  <2>2. log' = [log EXCEPT ![i] = log[i] + taken]
    BY <1>1, <1>8, <2>1
  <2>3. /\ log'[i] = log[i] + taken
        /\ \A j \in 0 .. MaxClock : j # i => log'[j] = log[j]
    BY <2>2, <1>3
  <2>4. AdmittedIn(i)' = log'[i] /\ AdmittedIn(i) = log[i]
    BY <1>3 DEF AdmittedIn
  <2>5. AdmittedIn(i - 1)' = AdmittedIn(i - 1)
    BY <1>3, <2>3 DEF AdmittedIn
  <2> QED
    BY <1>2, <1>3, <1>8, <2>1, <2>3, <2>4, <2>5
<1>9. RecordIsHistory'
  <2> SUFFICES ASSUME NEW v \in Windows, (used \subseteq {v})', ~Wraps(now, v)
               PROVE  /\ record'.cur = AdmittedIn(record.idx)'
                      /\ record'.prev = AdmittedIn(record.idx - 1)'
                      /\ \A j \in 0 .. MaxClock : j > record'.idx => log'[j] = 0
    BY <1>1, <1>4 DEF RecordIsHistory
  <2> QED
    BY <1>4, <1>8 DEF AdmittedIn
<1>10. FormulaBoundsAdmission'
  <2> SUFFICES ASSUME NEW v \in Windows, (used \subseteq {v})', ~Wraps(now, v)
               PROVE  LET p == AdmittedIn(i - 1)'
                      IN  \E d \in 0 .. e :
                             Formula(p, AdmittedIn(i)', e, w) <= Largest + Shortfall(p, d, w)
    BY <1>0, <1>1, <1>8 DEF FormulaBoundsAdmission, AdmittedIn
  <2>1. /\ used \subseteq {w} /\ ~Wraps(now, w)
        /\ AdmittedIn(i)' = r.cur + taken
        /\ AdmittedIn(i - 1)' = r.prev
    BY <1>8
  <2>2. \E d \in 0 .. e : Formula(r.prev, r.cur, e, w) <= Largest + Shortfall(r.prev, d, w)
    BY <1>0, <2>1, <1>2 DEF IInv, FormulaBoundsAdmission
  <2>3. Weighted(r.prev, e, w) \in Nat
    <3>1. e \in 0 .. w
      BY <1>3
    <3> QED
      BY <1>3, <1>5, <3>1, WeightBound DEF Weighted
  <2>4. /\ Formula(r.prev, r.cur + taken, e, w) = Formula(r.prev, r.cur, e, w) + taken
        /\ Formula(r.prev, r.cur, e, w) \in Nat
    BY <1>5, <2>3 DEF Formula
  <2>5. \E d \in 0 .. e : Formula(r.prev, r.cur + taken, e, w) <= Largest + Shortfall(r.prev, d, w)
    <3>1. CASE taken = 0
      <4>1. Formula(r.prev, r.cur + taken, e, w) = Formula(r.prev, r.cur, e, w)
        BY <2>4, <3>1
      <4> QED
        BY <2>2, <4>1
    <3>2. CASE taken > 0
      <4>1. e \in 0 .. e
        BY <1>3
      <4> QED
        BY <1>1, <2>4, <3>2, <4>1
    <3> QED
      BY <3>1, <3>2
  <2> QED
    BY <2>1, <2>5
<1> QED
  BY <1>6, <1>7, <1>9, <1>10 DEF IInv

(* A tick may end the window, and the record is then one more behind. *)
LEMMA TickPreserves ==
    ASSUME IInv, Tick
    PROVE  IInv'
<1>1. /\ now \in Nat /\ MaxClock \in Nat /\ now < MaxClock
      /\ now' = now + 1 /\ record' = record /\ purgeAt' = purgeAt
      /\ log' = log /\ used' = used
      /\ log \in [0 .. MaxClock -> Nat]
  BY RateAssumption DEF IInv, TypeOK, Tick
<1>2. TypeOK'
  BY <1>1 DEF IInv, TypeOK
<1>3. ASSUME NEW w \in Windows
      PROVE  /\ w \in Nat \ {0}
             /\ now \div w \in 0 .. MaxClock /\ now % w \in 0 .. w - 1
             /\ now' \div w \in 0 .. MaxClock
             /\ \/ now' \div w = now \div w /\ now' % w = (now % w) + 1
                \/ now' \div w = now \div w + 1 /\ now' % w = 0
  <2>1. w \in Nat \ {0} /\ now \div w \in 0 .. MaxClock /\ now % w \in 0 .. w - 1
    BY WindowInLog DEF IInv
  <2>2. now' \div w \in Nat /\ now' \div w <= now' /\ now' <= MaxClock
    <3>1. now' \in Nat /\ now' <= MaxClock
      BY <1>1
    <3> QED
      BY <2>1, <3>1, Division, DivisionBound
  <2>3. \/ now' \div w = now \div w /\ now' % w = (now % w) + 1
        \/ now' \div w = now \div w + 1 /\ now' % w = 0
    BY <1>1, <2>1, WindowAfterTick
  <2>4. now' \div w \in 0 .. MaxClock
    BY <1>1, <2>2
  <2> QED
    BY <2>1, <2>3, <2>4
<1>w. ASSUME NEW w \in Windows, ~Wraps(now', w) PROVE ~Wraps(now, w)
  <2>1. /\ w \in Nat /\ now \div w \in Nat /\ now' \div w \in Nat
        /\ now \div w <= now' \div w
    BY <1>3
  <2>2. (now' \div w + 2) * w <= MaxU64
    BY <1>w, <2>1, WordAssumption DEF Wraps
  <2>3. (now \div w + 2) * w <= MaxU64
    BY <2>1, <2>2, EarlierDeadline
  <2> QED
    BY <2>1, <2>3, WordAssumption DEF Wraps
<1>4. RecordBehind'
  <2> SUFFICES ASSUME record # NoRecord
               PROVE  record.idx <= now' \div record.window
    BY <1>1 DEF IInv, RecordBehind
  <2>1. record.window \in Windows /\ record.idx \in Nat
    BY DEF IInv, TypeOK, Record
  <2>2. record.idx <= now \div record.window
    BY DEF IInv, RecordBehind
  <2> QED
    BY <2>1, <2>2, <1>3
<1>5. RecordIsHistory'
  <2> SUFFICES ASSUME NEW w \in Windows, used \subseteq {w}, ~Wraps(now, w), record = NoRecord,
                      NEW j \in 0 .. MaxClock, j >= now' \div w - 1
               PROVE  log[j] = 0
    BY <1>1, <1>w DEF IInv, RecordIsHistory, AdmittedIn
  <2>1. j >= now \div w - 1
    BY <1>3
  <2> QED
    BY <2>1 DEF IInv, RecordIsHistory
<1>6. FormulaBoundsAdmission'
  <2> SUFFICES ASSUME NEW w \in Windows, used \subseteq {w}, ~Wraps(now, w)
               PROVE  LET p == AdmittedIn(now' \div w - 1)
                      IN  \E d \in 0 .. now' % w :
                             Formula(p, AdmittedIn(now' \div w), now' % w, w)
                                 <= Largest + Shortfall(p, d, w)
    BY <1>1, <1>w DEF FormulaBoundsAdmission, AdmittedIn
  <2>1. PICK i \in 0 .. MaxClock, e \in 0 .. w - 1 : i = now \div w /\ e = now % w
    BY <1>3
  <2>2. /\ AdmittedIn(i) \in Nat /\ AdmittedIn(i - 1) \in Nat
    BY <1>1 DEF AdmittedIn
  <2>3. \E d \in 0 .. e : Formula(AdmittedIn(i - 1), AdmittedIn(i), e, w)
                              <= Largest + Shortfall(AdmittedIn(i - 1), d, w)
    BY <2>1 DEF IInv, FormulaBoundsAdmission
  <2>4. CASE now' \div w = i /\ now' % w = e + 1
    <3> DEFINE p == AdmittedIn(i - 1)
    <3>1. PICK d \in 0 .. e : Formula(p, AdmittedIn(i), e, w) <= Largest + Shortfall(p, d, w)
      BY <2>3
    <3>2. /\ Weighted(p, e + 1, w) <= Weighted(p, e, w)
          /\ Weighted(p, e, w) \in Nat /\ Weighted(p, e + 1, w) \in Nat
      <4>1. e \in 0 .. w /\ e + 1 \in 0 .. w /\ w \in Nat \ {0}
        BY <1>3
      <4> QED
        BY <2>2, <4>1, WeightBound, WeightFalls DEF Weighted
    <3>3. p \in 0 .. Largest /\ d \in 0 .. w - 1 /\ w \in Nat \ {0} /\ d \in 0 .. e + 1
      <4>1. Rolled(record, now, w) \in Record /\ Rolled(record, now, w).prev = p
        BY <2>1, RolledNow DEF IInv
      <4>2. p \in 0 .. Largest
        BY <4>1 DEF Record
      <4> QED
        BY <1>3, <4>2
    <3>4. Shortfall(p, d, w) \in Nat
      <4>1. Product(p, d, w) \in Nat
        BY <3>3, RateAssumption
      <4>2. Weighted(p, d, w) \in Nat
        <5>1. d \in 0 .. w
          BY <3>3
        <5> QED
          BY <2>2, <3>3, <5>1, WeightBound DEF Weighted
      <4> QED
        BY <4>1, <4>2 DEF Shortfall
    <3> HIDE DEF p
    <3>5. Formula(p, AdmittedIn(i), e + 1, w) <= Largest + Shortfall(p, d, w)
      BY <2>2, <3>1, <3>2, <3>4, LargestNatural DEF Formula
    <3> QED
      BY <2>4, <3>3, <3>5 DEF p
  <2>5. CASE now' \div w = i + 1 /\ now' % w = 0
    <3>1. /\ Rolled(record, now, w) \in Record
          /\ Rolled(record, now, w).cur = AdmittedIn(i)
          /\ \A j \in 0 .. MaxClock : j > i => log[j] = 0
      BY <2>1, RolledNow DEF IInv
    <3>2. AdmittedIn(i) \in 0 .. Largest
      BY <3>1 DEF Record
    <3>3. AdmittedIn(i + 1) = 0
      BY <1>3, <2>5, <3>1 DEF AdmittedIn
    <3>4. Weighted(AdmittedIn(i), 0, w) = AdmittedIn(i)
      BY <1>3, <2>2, FullWeight DEF Weighted
    <3>5. Formula(AdmittedIn(i), 0, 0, w) = AdmittedIn(i)
      BY <2>2, <3>4 DEF Formula
    <3>6. Shortfall(AdmittedIn(i), 0, w) \in Nat
      <4>1. Product(AdmittedIn(i), 0, w) \in Nat
        <5>1. 0 \in 0 .. w - 1
          BY <1>3
        <5> QED
          BY <3>2, <5>1, RateAssumption
      <4> QED
        BY <2>2, <3>4, <4>1 DEF Shortfall
    <3>7. (i + 1) - 1 = i /\ 0 \in 0 .. 0
      OBVIOUS
    <3>8. Formula(AdmittedIn(i), AdmittedIn(i + 1), 0, w)
            <= Largest + Shortfall(AdmittedIn(i), 0, w)
      BY <2>2, <3>2, <3>3, <3>5, <3>6, LargestNatural
    <3> QED
      BY <2>5, <3>7, <3>8
  <2> QED
    BY <1>3, <2>1, <2>4, <2>5
<1> QED
  BY <1>2, <1>4, <1>5, <1>6 DEF IInv

(* A sweep only erases a record whose two windows have passed: it is judged *)
(* by a clock reading that is not ahead of the clock.                       *)
LEMMA SweepPreserves ==
    ASSUME IInv, PurgeShard
    PROVE  IInv'
<1>1. /\ purgeAt' = -1 /\ now' = now /\ log' = log /\ used' = used
      /\ now \in Nat /\ purgeAt \in Nat /\ purgeAt <= now
  BY DEF IInv, TypeOK, PurgeShard, NotPurging
<1>2. CASE record' = record
  BY <1>1, <1>2 DEF IInv, TypeOK, RecordBehind, RecordIsHistory, AdmittedIn,
                    FormulaBoundsAdmission
<1>3. CASE record # NoRecord /\ IsExpired(record, purgeAt) /\ record' = NoRecord
  <2>1. TypeOK' /\ RecordBehind' /\ FormulaBoundsAdmission'
    BY <1>1, <1>3 DEF IInv, TypeOK, RecordBehind, AdmittedIn, FormulaBoundsAdmission
  <2>2. RecordIsHistory'
    <3> SUFFICES ASSUME NEW w \in Windows, used \subseteq {w}, ~Wraps(now, w),
                        NEW j \in 0 .. MaxClock, j >= now \div w - 1
                 PROVE  log[j] = 0
      BY <1>1, <1>3 DEF RecordIsHistory
    <3>0. /\ record.window = w /\ record.idx \in Nat /\ record.idx <= now \div w
          /\ record.expire_at = MulU64(record.idx + 2, w)
      BY <1>3 DEF IInv, TypeOK, RecordBehind, Record
    <3>1. record.window = w /\ record.idx \in Nat /\ record.expire_at = (record.idx + 2) * w
      <4>1. w \in Nat \ {0} /\ now \div w \in Nat
        BY <1>1, WindowPositive, Division
      <4>2. (now \div w + 2) * w <= MaxU64
        BY <4>1, WordAssumption DEF Wraps
      <4>3. (record.idx + 2) * w <= MaxU64
        BY <3>0, <4>1, <4>2, EarlierDeadline
      <4>4. record.idx + 2 \in Nat
        BY <3>0
      <4>5. MulU64(record.idx + 2, w) = (record.idx + 2) * w
        BY <4>1, <4>3, <4>4, WordProduct
      <4> QED
        BY <3>0, <4>5
    <3>2. now >= (record.idx + 2) * w
      BY <1>1, <1>3, <3>1, WindowPositive DEF IsExpired
    <3>3. now \div w >= record.idx + 2 /\ now \div w \in Nat
      <4>1. w \in Nat \ {0} /\ record.idx + 2 \in Nat
        BY <3>1, WindowPositive
      <4> QED
        BY <1>1, <3>2, <4>1, WindowReached, Division
    <3>4. j > record.idx
      BY <3>1, <3>3
    <3> QED
      BY <1>3, <3>4 DEF IInv, RecordIsHistory
  <2> QED
    BY <2>1, <2>2 DEF IInv
<1> QED
  BY <1>2, <1>3 DEF PurgeShard

(* Nothing has been admitted and there is no record. *)
LEMMA InitInvariant == Init => IInv
<1> SUFFICES ASSUME Init PROVE IInv
  OBVIOUS
<1>1. TypeOK
  BY RateAssumption DEF Init, TypeOK, NoLog, NotPurging
<1>2. RecordBehind
  BY DEF Init, RecordBehind
<1>3. RecordIsHistory
  BY DEF Init, RecordIsHistory, NoLog
<1>4. FormulaBoundsAdmission
  <2> SUFFICES ASSUME NEW w \in Windows
               PROVE  LET p == AdmittedIn(now \div w - 1)
                      IN  \E d \in 0 .. now % w :
                             Formula(p, AdmittedIn(now \div w), now % w, w)
                                 <= Largest + Shortfall(p, d, w)
    BY DEF FormulaBoundsAdmission
  <2>1. /\ w \in Nat \ {0} /\ now % w \in 0 .. w - 1
        /\ now \div w \in 0 .. MaxClock /\ now \div w = 0
    BY <1>1, WindowInLog DEF Init
  <2>2. AdmittedIn(now \div w) = 0 /\ AdmittedIn(now \div w - 1) = 0
    BY <2>1 DEF Init, NoLog, AdmittedIn
  <2>3. Weighted(0, now % w, w) = 0 /\ Weighted(0, 0, w) = 0
    BY <2>1 DEF Weighted
  <2>4. Shortfall(0, 0, w) = 0
    <3>1. 0 \in 0 .. Largest /\ 0 \in 0 .. w - 1
      BY <2>1, LargestNatural
    <3>2. Product(0, 0, w) = 0
      BY <3>1, RateAssumption
    <3> QED
      BY <2>3, <3>2 DEF Shortfall
  <2>5. Formula(0, 0, now % w, w) = 0 /\ 0 \in 0 .. now % w
    BY <2>1, <2>3 DEF Formula
  <2> QED
    BY <2>2, <2>4, <2>5, LargestNatural
<1> QED
  BY <1>1, <1>2, <1>3, <1>4 DEF IInv

(* One case per action. *)
LEMMA StepInvariant == IInv /\ [Next]_vars => IInv'
<1> SUFFICES ASSUME IInv, [Next]_vars PROVE IInv'
  OBVIOUS
<1>1. ASSUME NEW limit \in Limits, NEW w \in Windows, NEW cost \in Costs,
             HandleRateLimitCheck(limit, w, cost)
      PROVE  IInv'
  BY <1>1, RequestPreserves DEF HandleRateLimitCheck
<1>2. CASE Tick
  BY <1>2, TickPreserves
<1>3. CASE PurgeBegin
  <2>1. TypeOK'
    BY <1>3 DEF IInv, TypeOK, PurgeBegin
  <2> QED
    BY <1>3, <2>1 DEF PurgeBegin, IInv, RecordBehind, RecordIsHistory, AdmittedIn,
                      FormulaBoundsAdmission
<1>4. CASE PurgeShard
  BY <1>4, SweepPreserves
<1>5. CASE UNCHANGED vars
  BY <1>5 DEF vars, IInv, TypeOK, RecordBehind, RecordIsHistory, AdmittedIn,
              FormulaBoundsAdmission
<1> QED
  BY <1>1, <1>2, <1>3, <1>4, <1>5 DEF Next

(***************************************************************************)
(* RATE_LIMIT, the clock and the sweep keep the inductive invariant.       *)
(***************************************************************************)
THEOREM Invariance == Spec => []IInv
BY InitInvariant, StepInvariant, PTL DEF Spec

(***************************************************************************)
(* Neither count of a stored record ever exceeds the largest limit that    *)
(* RateLimit was asked for.                                                *)
(***************************************************************************)
THEOREM TypeCorrect == Spec => []TypeOK
<1>1. IInv => TypeOK
  BY DEF IInv
<1> QED
  BY <1>1, Invariance, PTL

(***************************************************************************)
(* The counters never forget: rolling, expiry and the sweep leave RateLimit *)
(* the two counts that were really admitted, as long as the key is used     *)
(* with one window length and the deadline of its record is a 64-bit word.  *)
(***************************************************************************)
THEOREM CountersNeverForget == Spec => []CountsAreTrue
<1>1. IInv => CountsAreTrue
  BY CountsFollow DEF IInv
<1> QED
  BY <1>1, Invariance, PTL

(***************************************************************************)
(* What RateLimit really admitted stays within the largest limit by the    *)
(* README's formula, but for what the product of doubles fell short of the *)
(* exact one in this window, as long as the deadline is a 64-bit word.     *)
(***************************************************************************)
THEOREM AdmissionBounded == Spec => []FormulaBoundsAdmission
<1>1. IInv => FormulaBoundsAdmission
  BY DEF IInv
<1> QED
  BY <1>1, Invariance, PTL

-----------------------------------------------------------------------------
(* Retry-After. *)

(* The header is rounded up to seconds, never down. *)
LEMMA HeaderIsEnough ==
    ASSUME NEW ms \in Nat, ms + MsPerSecond - 1 <= MaxU64
    PROVE  HeaderWait(ms) \in Nat /\ HeaderWait(ms) >= ms
<1> DEFINE s == MsPerSecond
           n == ms + s - 1
<1>1. s \in Nat \ {0} /\ n \in Nat
  BY RateAssumption, WordAssumption
<1>2. n = s * (n \div s) + (n % s) /\ n % s \in 0 .. s - 1 /\ n \div s \in Nat
  BY <1>1, Division
<1>3. (n \div s) * s = s * (n \div s) /\ s * (n \div s) \in Nat
  BY <1>1, <1>2
<1>4. HeaderWait(ms) = (n \div s) * s
  <2>1. ms + (s - 1) = n
    BY <1>1
  <2>2. AddU64(ms, s - 1) = n
    BY <1>1, <2>1, WordAssumption DEF AddU64
  <2> QED
    BY <2>2 DEF HeaderWait
<1> HIDE DEF n, s
<1>5. s * (n \div s) >= n - (s - 1)
  BY <1>1, <1>2, <1>3
<1> QED
  BY <1>1, <1>3, <1>4, <1>5 DEF n, s

(* Either wait, in milliseconds or by the header, ends the window. *)
LEMMA WaitEndsWindow ==
    ASSUME NEW t \in Nat, NEW w \in Nat \ {0}, NEW d,
           \/ d = RetryAfter(t, w)
           \/ d = HeaderWait(RetryAfter(t, w)) /\ w + MsPerSecond - 1 <= MaxU64
    PROVE  /\ t + d \in Nat
           /\ (t + d) \div w >= t \div w + 1
<1>1. /\ t \div w \in Nat /\ t % w \in 0 .. w - 1
      /\ t = w * (t \div w) + (t % w)
  BY Division
<1>2. RetryAfter(t, w) \in Nat
  BY <1>1 DEF RetryAfter
<1>3. d \in Nat /\ d >= w - (t % w)
  <2>1. w + MsPerSecond - 1 <= MaxU64 => RetryAfter(t, w) + MsPerSecond - 1 <= MaxU64
    BY <1>1, RateAssumption, WordAssumption DEF RetryAfter
  <2> QED
    BY <1>1, <1>2, <2>1, HeaderIsEnough DEF RetryAfter
<1>4. w * (t \div w) + w = (t \div w + 1) * w
  BY <1>1
<1>5. t + d >= (t \div w + 1) * w
  BY <1>1, <1>3, <1>4
<1> QED
  BY <1>1, <1>3, <1>5, WindowReached

(* Once a window has ended the current count is gone; once a second has,   *)
(* so is the previous one, and a record without counts admits any cost     *)
(* within the limit.                                                       *)
LEMMA TwoWaits ==
    ASSUME TypeOK, RecordBehind, NEW w \in Windows, NEW first \in Nat, NEW second \in Nat,
           first \div w >= now \div w + 1, second \div w >= first \div w + 1,
           NEW limit \in Limits, NEW cost \in Costs, Charge(cost) <= limit
    PROVE  Admits(Rolled(Rolled(record, first, w), second, w), second, limit, cost)
<1> DEFINE r == Rolled(record, first, w)
           q == Rolled(r, second, w)
<1>1. /\ w \in Nat \ {0} /\ now \div w \in Nat
      /\ first \div w \in Nat /\ second \div w \in Nat /\ second % w \in 0 .. w - 1
  BY WindowInLog, Division
<1>2. /\ record \in Record \cup {NoRecord}
      /\ record # NoRecord =>
            /\ record.window = w => record.idx <= first \div w
            /\ record.expire_at = MulU64(record.idx + 2, record.window)
  <2>1. first \div w >= now \div w
    BY <1>1
  <2> QED
    BY <2>1, StoredRecord
<1>3. record # NoRecord /\ record.window = w => record.idx # first \div w
  <2> SUFFICES ASSUME record # NoRecord, record.window = w
               PROVE  record.idx # first \div w
    OBVIOUS
  <2>1. record.idx <= now \div w /\ record.idx \in Nat
    BY DEF TypeOK, RecordBehind, Record
  <2> QED
    BY <1>1, <2>1
<1>4. /\ r \in Record /\ r.window = w /\ r.idx = first \div w
      /\ r.expire_at = MulU64(first \div w + 2, w)
      /\ r.cur = 0
  BY <1>2, <1>3, RolledFacts
<1>5. r # NoRecord
  BY <1>4, RateAssumption
<1> HIDE DEF r
<1>6. r.idx < second \div w
  BY <1>1, <1>4
<1>7. r \in Record \cup {NoRecord} /\ r.expire_at = MulU64(r.idx + 2, r.window)
      /\ r.idx <= second \div w
  BY <1>1, <1>4
<1>8. /\ q \in Record /\ q.window = w /\ q.cur = 0 /\ q.prev = 0
  <2>1. r.idx # second \div w
    BY <1>1, <1>4
  <2> QED
    BY <1>4, <1>7, <2>1, RolledFacts
<1> HIDE DEF q
<1>9. Estimate(q, second % w) = 0
  <2>1. second % w \in 0 .. q.window - 1
    BY <1>1, <1>8
  <2> QED
    BY <1>8, <2>1, EstimateBounds
<1>10. Admits(q, second, limit, cost) <=> 0 + Charge(cost) <= limit
  BY <1>8, <1>9, AdmitsExactly
<1>11. Admits(q, second, limit, cost)
  BY <1>10, ChargeNatural
<1> QED
  BY <1>11 DEF q, r

(***************************************************************************)
(* A client that keeps the Retry-After it is told, in milliseconds or by   *)
(* HandleRateLimitCheck's header, and has the key to itself, is admitted   *)
(* after two waits at most, unless rounding the header up wraps around.    *)
(***************************************************************************)
THEOREM RetryAfterIsKept == Spec => []SecondRetrySucceeds
<1>1. TypeOK /\ RecordBehind => SecondRetrySucceeds
  <2> SUFFICES ASSUME TypeOK, RecordBehind,
                      NEW limit \in Limits, NEW w \in Windows, NEW cost \in Costs,
                      NEW header \in BOOLEAN, Charge(cost) <= limit,
                      header => w + MsPerSecond - 1 <= MaxU64,
                      NEW first, NEW second,
                      first = now + IF header THEN HeaderWait(RetryAfter(now, w))
                                    ELSE RetryAfter(now, w),
                      second = first + IF header THEN HeaderWait(RetryAfter(first, w))
                                       ELSE RetryAfter(first, w)
               PROVE  Admits(Rolled(Rolled(record, first, w), second, w),
                             second, limit, cost)
    BY DEF SecondRetrySucceeds
  <2>1. now \in Nat /\ w \in Nat \ {0}
    BY WindowInLog
  <2>2. first \in Nat /\ first \div w >= now \div w + 1
    BY <2>1, WaitEndsWindow
  <2>3. second \in Nat /\ second \div w >= first \div w + 1
    BY <2>1, <2>2, WaitEndsWindow
  <2> QED
    BY <2>2, <2>3, TwoWaits
<1>2. IInv => TypeOK /\ RecordBehind
  BY DEF IInv
<1> QED
  BY <1>1, <1>2, Invariance, PTL
=============================================================================
