------------------------------- MODULE TtlMap --------------------------------
(***************************************************************************)
(* What the key-value API promises: a map in which a key vanishes at the   *)
(* very instant its deadline arrives, and deadlines are exact numbers.     *)
(*                                                                         *)
(* What has vanished leaves remains, which are reclaimed at any moment.    *)
(* One answer shows them: DEL of a vanished key says that it deleted       *)
(* something as long as the remains are there, and not afterwards.         *)
(***************************************************************************)
EXTENDS Integers

CONSTANTS
    Keys,      \* the keys clients use
    Writes,    \* the values they write
    Ttls,      \* the times to live they ask for, 0 for none
    Deltas,    \* the increments they ask for
    MinCount,  \* a counter stays within MinCount .. MaxCount
    MaxCount,
    NoEntry    \* no value under a key

VARIABLES
    visible,   \* visible[k]: the value and deadline of k, or NoEntry
    clock,
    remains,   \* keys that vanished and whose remains are not reclaimed yet
    reply      \* the answer to the last request

vars == <<visible, clock, remains, reply>>

Answer(op, k, ok, val) ==
    reply' = [op |-> op, key |-> k, ok |-> ok, val |-> val]

(* A request for a key reclaims its remains. *)
Touch(k) ==
    /\ remains' = remains \ {k}
    /\ UNCHANGED clock

DeadlineIn(ttl) == IF ttl = 0 THEN 0 ELSE clock + ttl

Init ==
    /\ visible = [k \in Keys |-> NoEntry]
    /\ clock = 0
    /\ remains = {}
    /\ reply = [op |-> "none", ok |-> TRUE, val |-> 0]

(* Time passes: exactly the keys whose deadline has come vanish. *)
Advance ==
    LET due == {k \in Keys : visible[k] # NoEntry /\ visible[k].expire_at = clock + 1}
    IN  /\ clock' = clock + 1
        /\ visible' = [k \in Keys |-> IF k \in due THEN NoEntry ELSE visible[k]]
        /\ remains' = remains \cup due
        /\ UNCHANGED reply

(* Remains are reclaimed, by whom and when is left open. *)
Reclaim ==
    /\ \E gone \in SUBSET remains : remains' = remains \ gone
    /\ UNCHANGED <<visible, clock, reply>>

Put(k, v, ttl) ==
    visible' = [visible EXCEPT ![k] =
        [num |-> v.num, clean |-> v.clean, expire_at |-> DeadlineIn(ttl)]]

Set(k, v, cond, ttl) ==
    LET allowed == CASE cond = "Always"    -> TRUE
                     [] cond = "IfAbsent"  -> visible[k] = NoEntry
                     [] cond = "IfPresent" -> visible[k] # NoEntry
    IN  /\ Answer("set", k, allowed, 0)
        /\ IF allowed THEN Put(k, v, ttl) ELSE UNCHANGED visible
        /\ Touch(k)

Get(k) ==
    /\ Answer("get", k, visible[k] # NoEntry,
              IF visible[k] = NoEntry THEN 0 ELSE visible[k].num)
    /\ UNCHANGED visible
    /\ Touch(k)

(* The answer counts the remains of a key as the key. *)
Del(k) ==
    /\ Answer("del", k, visible[k] # NoEntry \/ k \in remains, 0)
    /\ visible' = [visible EXCEPT ![k] = NoEntry]
    /\ Touch(k)

Expire(k, ttl) ==
    /\ Answer("expire", k, visible[k] # NoEntry, 0)
    /\ visible' = [visible EXCEPT ![k] =
          IF @ = NoEntry \/ ttl = 0 THEN NoEntry
          ELSE [@ EXCEPT !.expire_at = clock + ttl]]
    /\ Touch(k)

Persist(k) ==
    /\ Answer("persist", k,
              visible[k] # NoEntry /\ visible[k].expire_at # 0, 0)
    /\ visible' = [visible EXCEPT ![k] =
          IF @ = NoEntry THEN NoEntry ELSE [@ EXCEPT !.expire_at = 0]]
    /\ Touch(k)

Pttl(k) ==
    /\ Answer("pttl", k, TRUE,
              IF visible[k] = NoEntry THEN -2
              ELSE IF visible[k].expire_at = 0 THEN -1
              ELSE visible[k].expire_at - clock)
    /\ UNCHANGED visible
    /\ Touch(k)

(* A counter starts at the first increment and then keeps its deadline. *)
IncrBy(k, delta, ttl) ==
    /\ \/ /\ visible[k] = NoEntry
          /\ Put(k, [num |-> delta, clean |-> TRUE], ttl)
          /\ Answer("incr", k, TRUE, delta)
       \/ /\ visible[k] # NoEntry
          /\ visible[k].clean
          /\ visible[k].num <= MaxCount
          /\ visible[k].num + delta \in MinCount .. MaxCount
          /\ visible' = [visible EXCEPT ![k].num = @ + delta]
          /\ Answer("incr", k, TRUE, visible[k].num + delta)
       \/ /\ visible[k] # NoEntry
          /\ \/ ~visible[k].clean
             \/ visible[k].num > MaxCount
             \/ visible[k].num + delta \notin MinCount .. MaxCount
          /\ Answer("incr", k, FALSE, 0)
          /\ UNCHANGED visible
    /\ Touch(k)

Next ==
    \/ Advance
    \/ Reclaim
    \/ \E k \in Keys :
          \/ Get(k) \/ Del(k) \/ Persist(k) \/ Pttl(k)
          \/ \E ttl \in Ttls : Expire(k, ttl)
          \/ \E ttl \in Ttls, delta \in Deltas : IncrBy(k, delta, ttl)
          \/ \E ttl \in Ttls, v \in Writes,
                cond \in {"Always", "IfAbsent", "IfPresent"} :
                Set(k, v, cond, ttl)

Spec == Init /\ [][Next]_vars
=============================================================================
