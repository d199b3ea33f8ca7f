----------------------------- MODULE Idempotency -----------------------------
(***************************************************************************)
(* The idempotency records of one shard, and the clients that use them to  *)
(* run a request once.                                                     *)
(*                                                                         *)
(* A record is claimed by IDEM_BEGIN, which hands out an owner token, and  *)
(* is settled by IDEM_COMPLETE or IDEM_FAIL with that token.  Each of them *)
(* is one step under the shard's mutex; between its own steps a client     *)
(* runs its request handler, may be arbitrarily slow, may crash, and may   *)
(* lose a message in either direction.                                     *)
(*                                                                         *)
(* There are two kinds of clients.  Middleware is the one the SDKs ship:   *)
(* it offers no owner token of its own and runs the handler on every       *)
(* answer but REPLAY and CONFLICT.  A direct client follows the README: it *)
(* offers its own token, and asks again as long as the answer is PARK.     *)
(***************************************************************************)
EXTENDS Words

CONSTANTS
    Keys,          \* idempotency keys of the shard
    Hashes,        \* hashes of request payloads
    Middleware,    \* requests that go through an SDK's middleware
    Direct,        \* requests of clients that call the API themselves
    Ttls,          \* times to live of claims, 0 for none
    SampleLimit,   \* most records one sweep takes from the table
    MaxClaims,     \* bound on the owner tokens generated
    MaxClock,      \* bound on the clock, and on the deadlines asked for
    NoRecord,      \* what Find returns for a key that is not there
    NoBody         \* an empty response body

Clients == Middleware \cup Direct

NoToken == <<"none", 0>>

(* Tokens the store generates, and tokens clients bring along. *)
Token == ({"idem"} \X (1 .. MaxClaims)) \cup ({"own"} \X Direct)

Status == {"InProgress", "Completed", "Failed"}

Request == [key : Keys, hash : Hashes]

(* A response body is known by the client whose handler produced it. *)
Record == [hash : Hashes, status : Status, token : Token,
           body : Clients \cup {NoBody}, expire_at : Nat]

ASSUME IdemAssumption ==
    /\ Middleware \cap Direct = {}
    /\ Ttls \subseteq 0 .. MaxU64
    /\ SampleLimit \in Nat \ {0}
    /\ MaxClaims \in Nat
    /\ MaxClock \in Nat
    /\ NoRecord \notin Record
    /\ NoBody \notin Clients

VARIABLES
    records,    \* StorageShard::idempotency_records
    seq,        \* owner tokens generated so far (next_idempotency_seq_ - 1)
    now,        \* the steady clock
    purgeAt,    \* the clock reading of the sweep under way, or NotPurging
    request,    \* what each client wants done
    phase,      \* where each client is in its program
    token,      \* the owner token IDEM_BEGIN gave to a client
    outcome,    \* how the handler of a client ended
    got,        \* the response body replayed to a client
    until,      \* history: deadline of the claim a client runs under
    issuedFor   \* history: the request each generated token was issued for

storeVars == <<records, seq, now, purgeAt>>
clientVars == <<request, phase, token, outcome, got>>
vars == <<records, seq, now, purgeAt, request, phase, token, outcome, got,
          until, issuedFor>>

NotPurging == -1

Phase == {"idle", "waiting", "unanswered", "running", "reporting",
          "replayed", "conflict", "done", "crashed"}

Init ==
    /\ records = [k \in Keys |-> NoRecord]
    /\ seq = 0
    /\ now = 0
    /\ purgeAt = NotPurging
    /\ request \in [Clients -> Request]
    /\ phase = [c \in Clients |-> "idle"]
    /\ token = [c \in Clients |-> NoToken]
    /\ outcome = [c \in Clients |-> "none"]
    /\ got = [c \in Clients |-> NoBody]
    /\ until = [c \in Clients |-> 0]
    /\ issuedFor = [n \in 1 .. MaxClaims |-> NoBody]

(* Find, and the lazy erasure of a record that has expired. *)
Found(k) ==
    IF records[k] # NoRecord /\ ~IsExpired(records[k], now)
    THEN records[k] ELSE NoRecord

-----------------------------------------------------------------------------
(* IDEM_BEGIN at the store *)

Conflicts(found, hash) == found # NoRecord /\ found.hash # hash

(* Mutant: anyone may take over a claim that is in progress. *)
Claims_InProgress(found, hash) ==
    \/ found = NoRecord
    \/ found # NoRecord /\ found.hash = hash /\ found.status # "Completed"

(* A new record is made, or a failed one is claimed again. *)
Claims(found, hash) ==
    \/ found = NoRecord
    \/ found # NoRecord /\ found.hash = hash /\ found.status = "Failed"

Verdict(found, hash, offered) ==
    IF Claims(found, hash) THEN "Execute"
    ELSE IF Conflicts(found, hash) THEN "Conflict"
    ELSE IF found.status = "Completed" THEN "Replay"
    ELSE IF offered # NoToken /\ found.token = offered THEN "Execute"
    ELSE "Park"

(* The owner token a client sends with IDEM_BEGIN. *)
Offered(c) == IF c \in Direct THEN <<"own", c>> ELSE NoToken

(* Mutant: the record keeps the token as offered, none if there was none. *)
AfterBegin_AsOffered(c, ttl) ==
    LET found == Found(request[c].key)
    IN  IF Claims(found, request[c].hash)
        THEN [hash |-> request[c].hash,
              status |-> "InProgress",
              token |-> Offered(c),
              body |-> NoBody,
              expire_at |-> Deadline(now, ttl)]
        ELSE found

(* The record IDEM_BEGIN leaves for c's request. *)
AfterBegin(c, ttl) ==
    LET found == Found(request[c].key)
    IN  IF Claims(found, request[c].hash)
        THEN [hash |-> request[c].hash,
              status |-> "InProgress",
              token |-> IF Offered(c) = NoToken THEN <<"idem", seq + 1>>
                        ELSE Offered(c),
              body |-> NoBody,
              expire_at |-> Deadline(now, ttl)]
        ELSE found

IdemBegin(c, ttl) ==
    LET generates == /\ Claims(Found(request[c].key), request[c].hash)
                     /\ Offered(c) = NoToken
    IN  /\ phase[c] \in {"idle", "waiting", "unanswered"}
        /\ now + ttl <= MaxClock
        /\ records' = [records EXCEPT ![request[c].key] = AfterBegin(c, ttl)]
        /\ \/ /\ generates
              /\ seq < MaxClaims
              /\ seq' = seq + 1
              /\ issuedFor' = [issuedFor EXCEPT ![seq + 1] = request[c]]
           \/ /\ ~generates
              /\ UNCHANGED <<seq, issuedFor>>
        /\ UNCHANGED <<now, purgeAt, request, outcome>>

-----------------------------------------------------------------------------
(* The clients *)

(* What a client does next: middleware runs the handler on PARK as well. *)
Proceed(c, verdict) ==
    CASE verdict = "Replay"   -> "replayed"
      [] verdict = "Conflict" -> "conflict"
      [] verdict = "Execute"  -> "running"
      [] verdict = "Park"     -> IF c \in Middleware THEN "running" ELSE "waiting"

Begin(c, ttl) ==
    LET after == AfterBegin(c, ttl)
        next  == Proceed(c, Verdict(Found(request[c].key), request[c].hash, Offered(c)))
    IN  /\ IdemBegin(c, ttl)
        /\ phase' = [phase EXCEPT ![c] = next]
        /\ token' = [token EXCEPT ![c] = IF next = "running" THEN after.token ELSE @]
        /\ until' = [until EXCEPT ![c] = IF next = "running" THEN after.expire_at ELSE @]
        /\ got' = [got EXCEPT ![c] = IF next = "replayed" THEN after.body ELSE @]

(* The answer is lost or late: the client reports an error, and may retry. *)
BeginUnanswered(c, ttl) ==
    /\ IdemBegin(c, ttl)
    /\ phase' = [phase EXCEPT ![c] = "unanswered"]
    /\ UNCHANGED <<token, until, got>>

Handle(c) ==
    /\ phase[c] = "running"
    /\ phase' = [phase EXCEPT ![c] = "reporting"]
    /\ \E result \in {"ok", "err"} : outcome' = [outcome EXCEPT ![c] = result]
    /\ UNCHANGED <<storeVars, request, token, got, until, issuedFor>>

Crash(c) ==
    /\ phase[c] \in {"running", "reporting"}
    /\ phase' = [phase EXCEPT ![c] = "crashed"]
    /\ UNCHANGED <<storeVars, request, token, outcome, got, until, issuedFor>>

(* Mutant: the owner token is not compared. *)
TokenMatches_Always(found, tok) == found # NoRecord

(* The code lets an empty token pass; no client here reports without one. *)
TokenMatches(found, tok) == found # NoRecord /\ found.token = tok

AfterComplete(found, tok, body) ==
    IF TokenMatches(found, tok) /\ found.status # "Completed"
    THEN [found EXCEPT !.status = "Completed", !.body = body]
    ELSE found

(* IDEM_FAIL does not ask whether the record is completed. *)
AfterFail(found, tok, body) ==
    IF TokenMatches(found, tok)
    THEN [found EXCEPT !.status = "Failed", !.body = body]
    ELSE found

(* The client is told, or is not and, if it is a direct one, reports again. *)
Reported(c) ==
    /\ \/ phase' = [phase EXCEPT ![c] = "done"]
       \/ c \in Direct /\ UNCHANGED phase
    /\ UNCHANGED <<seq, now, purgeAt, request, token, outcome, got,
                   until, issuedFor>>

IdemComplete(c) ==
    LET k == request[c].key
    IN  /\ phase[c] = "reporting"
        /\ outcome[c] = "ok"
        /\ records' = [records EXCEPT ![k] = AfterComplete(Found(k), token[c], c)]
        /\ Reported(c)

IdemFail(c) ==
    LET k == request[c].key
    IN  /\ phase[c] = "reporting"
        /\ outcome[c] = "err"
        /\ records' = [records EXCEPT ![k] = AfterFail(Found(k), token[c], c)]
        /\ Reported(c)

(* The report never arrives; the middleware ignores the error. *)
ReportLost(c) ==
    /\ phase[c] = "reporting"
    /\ phase' = [phase EXCEPT ![c] = "done"]
    /\ UNCHANGED <<storeVars, request, token, outcome, got, until, issuedFor>>

-----------------------------------------------------------------------------
IdemGet(k) ==
    /\ records' = [records EXCEPT ![k] = Found(k)]
    /\ UNCHANGED <<seq, now, purgeAt, clientVars, until, issuedFor>>

Tick ==
    /\ now < MaxClock
    /\ now' = now + 1
    /\ UNCHANGED <<records, seq, purgeAt, clientVars, until, issuedFor>>

PurgeBegin ==
    /\ purgeAt = NotPurging
    /\ purgeAt' = now
    /\ UNCHANGED <<records, seq, now, clientVars, until, issuedFor>>

(* Mutant: the sweep takes claims whose owners are still in time. *)
ExpiredRecords_Any(t) == {k \in Keys : records[k] # NoRecord}

ExpiredRecords(t) == {k \in Keys : records[k] # NoRecord /\ IsExpired(records[k], t)}

PurgeShard ==
    /\ purgeAt # NotPurging
    /\ \E gone \in Samples(ExpiredRecords(purgeAt), SampleLimit) :
          records' = [k \in Keys |-> IF k \in gone THEN NoRecord ELSE records[k]]
    /\ purgeAt' = NotPurging
    /\ UNCHANGED <<seq, now, clientVars, until, issuedFor>>

Next ==
    \/ \E c \in Clients :
          \/ \E ttl \in Ttls : Begin(c, ttl) \/ BeginUnanswered(c, ttl)
          \/ Handle(c) \/ Crash(c)
          \/ IdemComplete(c) \/ IdemFail(c) \/ ReportLost(c)
    \/ \E k \in Keys : IdemGet(k)
    \/ Tick \/ PurgeBegin \/ PurgeShard

Spec == Init /\ [][Next]_vars

(* The clock runs; nothing is asked of clients. *)
FairSpec == Spec /\ WF_vars(Tick)

-----------------------------------------------------------------------------
(***************************************************************************)
(* Records and clients hold only tokens the store generated or a direct    *)
(* client brought along; a record's body is some client's response.        *)
(***************************************************************************)
TypeOK ==
    /\ records \in [Keys -> Record \cup {NoRecord}]
    /\ seq \in 0 .. MaxClaims
    /\ now \in 0 .. MaxClock
    /\ purgeAt \in -1 .. now
    /\ request \in [Clients -> Request]
    /\ phase \in [Clients -> Phase]
    /\ token \in [Clients -> Token \cup {NoToken}]
    /\ outcome \in [Clients -> {"none", "ok", "err"}]
    /\ got \in [Clients -> Clients \cup {NoBody}]
    /\ until \in [Clients -> Nat]
    /\ issuedFor \in [1 .. MaxClaims -> Request \cup {NoBody}]

(***************************************************************************)
(* A replayed response is the response to this very request: it was        *)
(* produced by a handler that succeeded on the same key and the same       *)
(* payload.  Neither a completion that arrives after its claim expired and *)
(* the key was claimed for another payload, nor a client that was parked   *)
(* and reports with the owner's token, can plant a foreign response.       *)
(***************************************************************************)
ReplayMatchesRequest ==
    \A c \in Clients :
        phase[c] = "replayed" =>
            /\ got[c] \in Clients
            /\ request[got[c]] = request[c]
            /\ outcome[got[c]] = "ok"

(***************************************************************************)
(* The inductive invariant behind it.  A token stands for one request, the *)
(* one it was issued for or the one of the client that brought it along;   *)
(* records and clients only ever hold tokens of their own request; a       *)
(* completed record holds the response of a client with that request, and  *)
(* a client whose handler has ended never runs it again.                   *)
(***************************************************************************)
Stands(t, r) ==
    \/ \E n \in 1 .. seq : t = <<"idem", n>> /\ issuedFor[n] = r
    \/ \E c \in Direct : t = <<"own", c>> /\ request[c] = r

RecordInv ==
    \A k \in Keys :
        records[k] # NoRecord =>
            LET r == [key |-> k, hash |-> records[k].hash]
                b == records[k].body
            IN  /\ Stands(records[k].token, r)
                /\ records[k].status = "Completed" =>
                      b \in Clients /\ request[b] = r /\ outcome[b] = "ok"

ClientInv ==
    \A c \in Clients :
        /\ token[c] # NoToken => Stands(token[c], request[c])
        /\ outcome[c] # "none" => phase[c] \in {"reporting", "done", "crashed"}

IInv == TypeOK /\ RecordInv /\ ClientInv /\ ReplayMatchesRequest

(***************************************************************************)
(* The README's "guarantees exactly-once execution": two clients run the   *)
(* handler for one key at the same time only if the claim one of them      *)
(* started under has run out.  The middleware breaks it: it runs the       *)
(* handler on PARK.                                                        *)
(***************************************************************************)
InTime(c) == ~IsExpired([expire_at |-> until[c]], now)

Collide(c, d) ==
    /\ c # d
    /\ phase[c] = "running" /\ InTime(c)
    /\ phase[d] = "running" /\ InTime(d)
    /\ request[c].key = request[d].key

SingleFlight == \A c, d \in Clients : ~Collide(c, d)

(***************************************************************************)
(* What does hold: two clients run at the same time within their claims    *)
(* only if middleware was answered PARK and ran, so that a claim of one of *)
(* them is shared (a failure report of either holder then frees the key    *)
(* while the other is running).  Clients that wait on PARK never run       *)
(* together, whatever is lost, late or repeated.                           *)
(***************************************************************************)
OnlyParkBreaksSingleFlight ==
    \A c, d \in Clients : Collide(c, d) =>
        \E m \in Middleware : \E e \in Clients \ {m} :
            token[m] = token[e] /\ token[m] \in {token[c], token[d]}

(***************************************************************************)
(* A completed record stands until it expires, so every later request is   *)
(* answered with the same response (the README's "REPLAY: the request      *)
(* previously completed.  GateKeeper returns the cached response").  One   *)
(* thing revokes it, because IDEM_FAIL does not look at the status: the    *)
(* failure report of another client with the same token, which middleware  *)
(* comes by when it is answered PARK.                                      *)
(***************************************************************************)
OnlySharedClaimRevokes ==
    [][\A k \in Keys :
          Found(k) # NoRecord /\ Found(k).status = "Completed" =>
              \/ records'[k] = records[k]
              \/ \E c \in Clients :
                    /\ IdemFail(c)
                    /\ request[c].key = k
                    /\ token[c] = records[k].token
                    /\ c # records[k].body
                    /\ {c, records[k].body} \cap Middleware # {}]_vars

(***************************************************************************)
(* No key stays claimed for ever: whatever becomes of the owner, a claim   *)
(* with a time to live is settled or runs out.                             *)
(***************************************************************************)
InProgress(k) == Found(k) # NoRecord /\ Found(k).status = "InProgress"

ClaimsEnd == \A k \in Keys : InProgress(k) ~> ~InProgress(k)
=============================================================================
