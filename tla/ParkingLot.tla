----------------------------- MODULE ParkingLot ------------------------------
(***************************************************************************)
(* ParkingLot: requests that wait for another request with the same        *)
(* idempotency key leave a callback under the key, and are called when the *)
(* result is broadcast or when their time is up.                           *)
(*                                                                         *)
(* BroadcastAndUnpark and PurgeTimeout take the waiters off the lists      *)
(* under the mutex and call them after they have released it, one by one:  *)
(* between two callbacks other threads, and the callbacks themselves,      *)
(* park, cancel, broadcast and purge.  A callback that throws ends the     *)
(* loop that called it.                                                    *)
(*                                                                         *)
(* A list is kept as the set of its waiters, which their numbers tell      *)
(* apart: the order of the lists decides only which waiter of a batch is   *)
(* called next, and that is left open.                                     *)
(***************************************************************************)
EXTENDS Integers

CONSTANTS
    Keys,         \* idempotency keys
    Ids,          \* waiter ids; 0 is not a valid one
    Callers,      \* threads that broadcast or purge
    Timeouts,     \* values of timeout_at_ms, 0 for none
    MaxClock,     \* bound on the clock
    MaxParks      \* bound on the registrations

ASSUME ParkingLotAssumption ==
    /\ Ids \subseteq Nat
    /\ Timeouts \subseteq 0 .. MaxClock
    /\ {MaxClock, MaxParks} \subseteq Nat

VARIABLES
    waiters,    \* waiters_: the list of each key that has one
    batch,      \* the waiters each thread has yet to call
    now,        \* the time the caller of PurgeTimeout reads
    parked,     \* registrations so far; each has its number
    called,     \* history: how often each registration was called
    cancelled,  \* history: registrations Cancel took off a list
    dropped     \* history: registrations lost to Clear or to a callback that threw

lotVars == <<waiters, batch, now, parked, called, cancelled, dropped>>

Waiter == [n : 1 .. MaxParks, waiter_id : Ids, timeout_at_ms : Timeouts]

Numbers(list) == {w.n : w \in list}

NoWaiters == [k \in {} |-> {}]

Without(k) == [j \in DOMAIN waiters \ {k} |-> waiters[j]]

With(k, list) == [j \in DOMAIN waiters \cup {k} |-> IF j = k THEN list ELSE waiters[j]]

ListOf(k) == IF k \in DOMAIN waiters THEN waiters[k] ELSE {}

LotInit ==
    /\ waiters = NoWaiters
    /\ batch = [t \in Callers |-> {}]
    /\ now = 0
    /\ parked = 0
    /\ called = [n \in 1 .. MaxParks |-> 0]
    /\ cancelled = {}
    /\ dropped = {}

IsParked(k, id) == \E w \in ListOf(k) : w.waiter_id = id

Park(k, id, timeout) ==
    /\ id # 0
    /\ ~IsParked(k, id)
    /\ parked < MaxParks
    /\ parked' = parked + 1
    /\ waiters' = With(k, ListOf(k) \cup {[n |-> parked + 1, waiter_id |-> id,
                                           timeout_at_ms |-> timeout]})
    /\ UNCHANGED <<batch, now, called, cancelled, dropped>>

(* Mutant: the waiters are called off the list and stay on it. *)
BroadcastAndUnpark_Keeps(t, k) ==
    /\ batch[t] = {}
    /\ k \in DOMAIN waiters
    /\ batch' = [batch EXCEPT ![t] = waiters[k]]
    /\ UNCHANGED <<waiters, now, parked, called, cancelled, dropped>>

(* The thread takes the list of the key; it calls the waiters later. *)
BroadcastAndUnpark(t, k) ==
    /\ batch[t] = {}
    /\ k \in DOMAIN waiters
    /\ batch' = [batch EXCEPT ![t] = waiters[k]]
    /\ waiters' = Without(k)
    /\ UNCHANGED <<now, parked, called, cancelled, dropped>>

TimedOut(w) == w.timeout_at_ms > 0 /\ now >= w.timeout_at_ms

Late(k) == {w \in waiters[k] : TimedOut(w)}

OnTime(k) == {w \in waiters[k] : ~TimedOut(w)}

PurgeTimeout(t) ==
    LET late == UNION {Late(k) : k \in DOMAIN waiters}
    IN  /\ batch[t] = {}
        /\ late # {}
        /\ batch' = [batch EXCEPT ![t] = late]
        /\ waiters' = [k \in {j \in DOMAIN waiters : OnTime(j) # {}} |-> OnTime(k)]
        /\ UNCHANGED <<now, parked, called, cancelled, dropped>>

(* Mutant: the loop erases what it has called and steps over the next one. *)
CallNext_Skips(t) ==
    /\ \E v, w \in batch[t] :
          /\ called' = [called EXCEPT ![w.n] = @ + 1]
          /\ batch' = [batch EXCEPT ![t] = @ \ {v, w}]
    /\ UNCHANGED <<waiters, now, parked, cancelled, dropped>>

(* The thread calls the next waiter of its batch. *)
CallNext(t) ==
    /\ \E w \in batch[t] :
          /\ called' = [called EXCEPT ![w.n] = @ + 1]
          /\ batch' = [batch EXCEPT ![t] = @ \ {w}]
    /\ UNCHANGED <<waiters, now, parked, cancelled, dropped>>

(* The callback throws, and the exception leaves the loop. *)
CallThrows(t) ==
    /\ \E w \in batch[t] :
          /\ called' = [called EXCEPT ![w.n] = @ + 1]
          /\ dropped' = dropped \cup Numbers(batch[t] \ {w})
    /\ batch' = [batch EXCEPT ![t] = {}]
    /\ UNCHANGED <<waiters, now, parked, cancelled>>

Cancel(k, id) ==
    /\ k \in DOMAIN waiters
    /\ \E w \in waiters[k] :
          /\ w.waiter_id = id
          /\ waiters' = IF waiters[k] = {w} THEN Without(k) ELSE With(k, waiters[k] \ {w})
          /\ cancelled' = cancelled \cup {w.n}
    /\ UNCHANGED <<batch, now, parked, called, dropped>>

(* Clear drops every waiter without a call. *)
Clear ==
    /\ waiters # NoWaiters
    /\ waiters' = NoWaiters
    /\ dropped' = dropped \cup UNION {Numbers(waiters[k]) : k \in DOMAIN waiters}
    /\ UNCHANGED <<batch, now, parked, called, cancelled>>

Tick ==
    /\ now < MaxClock
    /\ now' = now + 1
    /\ UNCHANGED <<waiters, batch, parked, called, cancelled, dropped>>

LotNext ==
    \/ \E k \in Keys, id \in Ids :
          Cancel(k, id) \/ \E timeout \in Timeouts : Park(k, id, timeout)
    \/ \E t \in Callers :
          \/ \E k \in Keys : BroadcastAndUnpark(t, k)
          \/ PurgeTimeout(t) \/ CallNext(t) \/ CallThrows(t)
    \/ Clear \/ Tick

(***************************************************************************)
(* A thread that is in the loop over its batch goes on.  Nothing else is   *)
(* fair: no code of the repository calls PurgeTimeout but the tests.       *)
(***************************************************************************)
LotFairness == \A t \in Callers : WF_lotVars(CallNext(t))

LotSpec == LotInit /\ [][LotNext]_lotVars /\ LotFairness

-----------------------------------------------------------------------------
(* A key is in the map only while somebody waits, and nobody waits twice. *)
ListsOK ==
    /\ DOMAIN waiters \subseteq Keys
    /\ \A k \in DOMAIN waiters :
          /\ waiters[k] \in (SUBSET Waiter) \ {{}}
          /\ \A v, w \in waiters[k] : v.waiter_id = w.waiter_id => v = w
    /\ batch \in [Callers -> SUBSET Waiter]

Waiting == UNION {Numbers(waiters[k]) : k \in DOMAIN waiters}

Taken == UNION {Numbers(batch[t]) : t \in Callers}

Called == {n \in 1 .. MaxParks : called[n] > 0}

(***************************************************************************)
(* Whatever threads do between the callbacks of a broadcast or a purge,    *)
(* the lists stay well formed, no waiter is called twice, a waiter whose   *)
(* Cancel succeeded is never called, and every registration has exactly    *)
(* one fate: it waits, it is about to be called, it was called, it was     *)
(* cancelled, or it was dropped by Clear or by a callback that threw.      *)
(***************************************************************************)
OneFate ==
    LET fates == <<Waiting, Taken, Called, cancelled, dropped>>
    IN  /\ ListsOK
        /\ \A n \in Called : called[n] = 1
        /\ Waiting \cup Taken \cup Called \cup cancelled \cup dropped = 1 .. parked
        /\ \A i, j \in 1 .. 5 : i # j => fates[i] \cap fates[j] = {}

(***************************************************************************)
(* A waiter that a broadcast or a purge took off its list is called,       *)
(* whatever other threads and the callbacks themselves park, cancel, take  *)
(* or clear meanwhile; it is dropped only if a callback before it throws.  *)
(* A waiter nobody takes waits on, its timeout passed or not.              *)
(***************************************************************************)
TakenAreCalled ==
    \A n \in 1 .. MaxParks : n \in Taken ~> n \in Called \cup dropped
=============================================================================
