----------------------------- MODULE RateLimiter -----------------------------
(***************************************************************************)
(* GK.RATE_LIMIT: the sliding window counter of MemoryStore for one key.   *)
(*                                                                         *)
(* A record keeps the cost admitted in the current and in the previous     *)
(* window, and is forgotten when neither matters any more: lazily by the   *)
(* next request, or by the background sweep, which works from a clock it   *)
(* read earlier.  Requests run under the shard's mutex, one step each.     *)
(*                                                                         *)
(* The weight of the previous window is a double, and its product with a   *)
(* count is truncated: where the exact product is an integer the computed  *)
(* one may fall just short of it, and counts above 2^53 lose low digits,   *)
(* in both directions.  Product is what the machine computes.              *)
(***************************************************************************)
EXTENDS Words, FiniteSetsExt

CONSTANTS
    Limits,       \* limits clients ask for (RATE_LIMIT refuses 0)
    Windows,      \* window lengths clients ask for (RATE_LIMIT refuses 0)
    Costs,        \* costs clients ask for, 0 for the default
    Product(_, _, _),   \* the product of a count and a weight, as computed
    MsPerSecond,  \* 1000 in the code
    MaxClock,     \* bound on the clock
    NoRecord      \* what Find returns for a key that is not there

Largest == Max(Limits)

(* No count ever exceeds the largest limit. *)
Record == [idx : Nat, cur : 0 .. Largest, prev : 0 .. Largest,
           window : Windows, expire_at : 0 .. MaxU64]

Charge(cost) == IF cost = 0 THEN 1 ELSE cost

ASSUME RateAssumption ==
    /\ Limits # {} /\ Limits \subseteq 1 .. MaxU64
    /\ Windows \subseteq 1 .. MaxU64
    /\ Costs \subseteq 0 .. MaxU64
    /\ \A prev \in 0 .. Largest, window \in Windows : \A elapsed \in 0 .. window - 1 :
          /\ Product(prev, elapsed, window) \in Nat
          /\ prev = 0 => Product(prev, elapsed, window) = 0
          /\ \A cost \in Costs :
                Product(prev, elapsed, window) + Largest + Charge(cost) <= MaxU64
    /\ MsPerSecond \in 1 .. MaxU64
    /\ MaxClock \in Nat
    /\ NoRecord \notin Record

VARIABLES
    record,    \* StorageShard::rate_limits of the key
    now,       \* the steady clock
    purgeAt,   \* the clock reading of the sweep under way, or NotPurging
    used,      \* history: the window lengths used for the key
    log        \* history: log[i] is the cost admitted in the i-th window,
               \* kept as long as the key is used with one window length
               \* whose deadlines are words

vars == <<record, now, purgeAt, log, used>>

NotPurging == -1

NoLog == [i \in 0 .. MaxClock |-> 0]

Init ==
    /\ record = NoRecord
    /\ now = 0
    /\ purgeAt = NotPurging
    /\ log = NoLog
    /\ used = {}

(* Mutant: a record is forgotten when its own window ends. *)
Fresh_ForgetsEarly(t, window) ==
    [idx |-> t \div window, cur |-> 0, prev |-> 0, window |-> window,
     expire_at |-> MulU64(t \div window + 1, window)]

Fresh(t, window) ==
    [idx |-> t \div window, cur |-> 0, prev |-> 0, window |-> window,
     expire_at |-> MulU64(t \div window + 2, window)]

(***************************************************************************)
(* The deadline of a record made at t is past the largest word, as it is   *)
(* for windows of 2^63 ms and more: the product wraps around, and the      *)
(* record may be forgotten while it still counts.                          *)
(***************************************************************************)
Wraps(t, window) == (t \div window + 2) * window > MaxU64

(* Mutant: a new window starts without the count of the last one. *)
Rolled_DropsPrevious(r, t, window) ==
    IF r = NoRecord \/ IsExpired(r, t) \/ r.window # window \/ t \div window > r.idx
    THEN Fresh(t, window) ELSE r

(* The record brought up to the current window. *)
Rolled(r, t, window) ==
    IF r = NoRecord \/ IsExpired(r, t) \/ r.window # window
    THEN Fresh(t, window)
    ELSE LET diff == t \div window - r.idx
         IN  IF diff = 1 THEN [Fresh(t, window) EXCEPT !.prev = r.cur]
             ELSE IF diff > 1 THEN Fresh(t, window)
             ELSE r

(* The weighted sum of the two counts, as computed. *)
Estimate(r, elapsed) == Product(r.prev, elapsed, r.window) + r.cur

(* Mutant: the request is checked without its own cost. *)
Admits_WithoutCost(r, t, limit, cost) == Estimate(r, t % r.window) <= limit

Admits(r, t, limit, cost) ==
    AddU64(Estimate(r, t % r.window), Charge(cost)) <= limit

RateLimit(limit, window, cost) ==
    LET r     == Rolled(record, now, window)
        taken == IF Admits(r, now, limit, cost) THEN Charge(cost) ELSE 0
    IN  /\ record' = [r EXCEPT !.cur = AddU64(@, taken)]
        /\ used' = used \cup {window}
        /\ log' = IF used \subseteq {window} /\ ~Wraps(now, window)
                  THEN [log EXCEPT ![now \div window] = @ + taken] ELSE NoLog
        /\ UNCHANGED <<now, purgeAt>>

(* The HTTP handler refuses a limit or a window of 0; so does the store. *)
HandleRateLimitCheck(limit, window, cost) ==
    /\ limit > 0
    /\ window > 0
    /\ RateLimit(limit, window, cost)

(* Mutant: the time since the window began. *)
RetryAfter_Elapsed(t, window) == IF t % window = 0 THEN 1 ELSE t % window

(* What a refused client is told to wait, in milliseconds. *)
RetryAfter(t, window) == window - (t % window)

(* The Retry-After header, in seconds, as a client turns it into a wait. *)
HeaderWait(ms) == (AddU64(ms, MsPerSecond - 1) \div MsPerSecond) * MsPerSecond

Tick ==
    /\ now < MaxClock
    /\ now' = now + 1
    /\ UNCHANGED <<record, purgeAt, log, used>>

PurgeBegin ==
    /\ purgeAt = NotPurging
    /\ purgeAt' = now
    /\ UNCHANGED <<record, now, log, used>>

(* The sweep erases an expired record unless its sample is full. *)
PurgeShard ==
    /\ purgeAt # NotPurging
    /\ purgeAt' = NotPurging
    /\ \/ /\ record # NoRecord
          /\ IsExpired(record, purgeAt)
          /\ record' = NoRecord
       \/ UNCHANGED record
    /\ UNCHANGED <<now, log, used>>

Next ==
    \/ \E limit \in Limits, window \in Windows, cost \in Costs :
          HandleRateLimitCheck(limit, window, cost)
    \/ Tick \/ PurgeBegin \/ PurgeShard

Spec == Init /\ [][Next]_vars

-----------------------------------------------------------------------------
(***************************************************************************)
(* Neither count of a record ever exceeds the largest limit asked for: a   *)
(* request is admitted only together with its own cost.                    *)
(***************************************************************************)
TypeOK ==
    /\ record \in Record \cup {NoRecord}
    /\ now \in 0 .. MaxClock
    /\ purgeAt \in -1 .. now
    /\ log \in [0 .. MaxClock -> Nat]
    /\ used \in SUBSET Windows

AdmittedIn(i) == IF i < 0 THEN 0 ELSE log[i]

(***************************************************************************)
(* The counters never forget: as long as the key is used with one window   *)
(* length, the two counts a request is judged by are exactly the cost      *)
(* admitted in the current and in the previous window, whether the record  *)
(* was rolled forward, expired, swept away or made anew in the meantime.   *)
(* The only exception are windows so long that the deadline wraps around.  *)
(***************************************************************************)
CountsAreTrue ==
    \A window \in Windows :
        used \subseteq {window} /\ ~Wraps(now, window) =>
            LET r == Rolled(record, now, window)
                i == now \div window
            IN  /\ r.cur = AdmittedIn(i)
                /\ r.prev = AdmittedIn(i - 1)

(***************************************************************************)
(* Retry-After keeps its promise the second time.  One wait may not be     *)
(* enough: at the start of the next window all of the present count still  *)
(* weighs.  But a client that has the key to itself from now on, and waits *)
(* as it is told, in milliseconds or by the header, is admitted after two  *)
(* waits at most, whatever it finds in the record.  The only exception is  *)
(* the header when rounding it up wraps around.                            *)
(***************************************************************************)
SecondRetrySucceeds ==
    \A limit \in Limits, window \in Windows, cost \in Costs, header \in BOOLEAN :
        LET wait(t) == IF header THEN HeaderWait(RetryAfter(t, window))
                       ELSE RetryAfter(t, window)
            first   == now + wait(now)
            second  == first + wait(first)
            r       == Rolled(record, first, window)
        IN  Charge(cost) <= limit /\ (header => window + MsPerSecond - 1 <= MaxU64) =>
                \/ Admits(r, first, limit, cost)
                \/ Admits(Rolled(r, second, window), second, limit, cost)

(* What the previous count is worth by the formula, and the whole of it. *)
Weighted(prev, elapsed, window) == (prev * (window - elapsed)) \div window

Formula(prev, cur, elapsed, window) == Weighted(prev, elapsed, window) + cur

(* How much less of the previous count was computed than the formula has. *)
Shortfall(prev, elapsed, window) ==
    IF Product(prev, elapsed, window) < Weighted(prev, elapsed, window)
    THEN Weighted(prev, elapsed, window) - Product(prev, elapsed, window) ELSE 0

(***************************************************************************)
(* The README's formula bounds what is admitted: N_prev * weight + N_curr, *)
(* over what was really admitted, stays within the limit.  At the boundary *)
(* the weight is 1, so that the last window and the first instant of the   *)
(* next one share one limit.  The double arithmetic of the code costs no   *)
(* more than the product fell short of the exact one at some instant of    *)
(* the window so far: nothing, or one unit as for 5 * (1.0 - 4.0 / 5.0),   *)
(* unless counts come near 2^53.  Windows whose deadline wraps around are  *)
(* the only exception.                                                     *)
(***************************************************************************)
FormulaBoundsAdmission ==
    \A window \in Windows :
        used \subseteq {window} /\ ~Wraps(now, window) =>
            LET i    == now \div window
                prev == AdmittedIn(i - 1)
            IN  \E elapsed \in 0 .. now % window :
                   Formula(prev, AdmittedIn(i), now % window, window)
                       <= Largest + Shortfall(prev, elapsed, window)
=============================================================================
