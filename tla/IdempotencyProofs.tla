-------------------------- MODULE IdempotencyProofs --------------------------
(***************************************************************************)
(* For any number of keys, payloads, clients of either kind and claims:    *)
(* types, that a replayed response answers the request it is given to, and *)
(* that nothing but middleware which runs on PARK breaks single flight.    *)
(***************************************************************************)
EXTENDS Idempotency, TLAPS

(* Generated and own tokens differ, and NoToken is neither. *)
LEMMA TokensDiffer ==
    /\ NoToken \notin Token
    /\ \A n, m : <<"idem", n>> = <<"idem", m>> => n = m
    /\ \A c, d : <<"own", c>> = <<"own", d>> => c = d
    /\ \A n, c : <<"idem", n>> # <<"own", c>>
BY DEF NoToken, Token

(* A token stands for one request only. *)
LEMMA StandsForOne ==
    ASSUME NEW t, NEW r, NEW s, Stands(t, r), Stands(t, s)
    PROVE  r = s
BY TokensDiffer DEF Stands

(* A token stands for its request for ever. *)
LEMMA StandsForEver ==
    ASSUME NEW t, NEW r, Stands(t, r), seq \in Nat, seq' \in Nat, seq' >= seq,
           \A n \in 1 .. seq : issuedFor'[n] = issuedFor[n],
           request' = request
    PROVE  Stands(t, r)'
BY DEF Stands

(* Find returns the record stored under the key, or none. *)
LEMMA FoundIsStored ==
    ASSUME NEW k
    PROVE  Found(k) = NoRecord \/ (Found(k) = records[k] /\ records[k] # NoRecord)
BY DEF Found

(* What IDEM_BEGIN leaves is a record. *)
LEMMA AfterBeginType ==
    ASSUME TypeOK, NEW c \in Clients, NEW ttl \in Ttls,
           Claims(Found(request[c].key), request[c].hash) /\ Offered(c) = NoToken
               => seq < MaxClaims
    PROVE  AfterBegin(c, ttl) \in Record
<1> DEFINE t == IF Offered(c) = NoToken THEN <<"idem", seq + 1>> ELSE Offered(c)
           new == [hash |-> request[c].hash, status |-> "InProgress",
                   token |-> t, body |-> NoBody, expire_at |-> Deadline(now, ttl)]
<1>1. request[c] \in Request /\ request[c].key \in Keys /\ request[c].hash \in Hashes
  BY DEF TypeOK, Request
<1>2. Deadline(now, ttl) \in Nat
  BY IdemAssumption, WordAssumption DEF TypeOK, Deadline, AddU64
<1>3. Found(request[c].key) \in Record \cup {NoRecord}
  BY <1>1, FoundIsStored DEF TypeOK
<1>4. ASSUME Claims(Found(request[c].key), request[c].hash)
      PROVE  new \in Record
  <2>1. t \in Token
    <3>1. CASE c \in Direct
      <4>1. Offered(c) = <<"own", c>> /\ Offered(c) # NoToken
        BY <3>1, TokensDiffer DEF Offered, Token
      <4>2. QED
        BY <3>1, <4>1 DEF Token
    <3>2. CASE c \notin Direct
      <4>1. Offered(c) = NoToken
        BY <3>2 DEF Offered
      <4>2. seq + 1 \in 1 .. MaxClaims
        BY <1>4, <4>1, IdemAssumption DEF TypeOK
      <4>3. QED
        BY <4>1, <4>2 DEF Token
    <3>3. QED
      BY <3>1, <3>2
  <2> HIDE DEF t
  <2>2. QED
    BY <1>1, <1>2, <2>1 DEF Record, Status
<1>5. ASSUME ~Claims(Found(request[c].key), request[c].hash)
      PROVE  Found(request[c].key) \in Record
  BY <1>3, <1>5 DEF Claims
<1>6. QED
  BY <1>4, <1>5 DEF AfterBegin

-----------------------------------------------------------------------------
(* Every step leaves well-typed records, clocks and clients. *)
LEMMA TypeInductive == TypeOK /\ [Next]_vars => TypeOK'
<1> SUFFICES ASSUME TypeOK, [Next]_vars PROVE TypeOK'
  OBVIOUS
<1>1. ASSUME NEW k \in Keys
      PROVE  Found(k) \in Record \cup {NoRecord}
  BY FoundIsStored DEF TypeOK
<1>2. ASSUME NEW c \in Clients, NEW ttl \in Ttls, IdemBegin(c, ttl)
      PROVE  /\ AfterBegin(c, ttl) \in Record
             /\ records' \in [Keys -> Record \cup {NoRecord}]
             /\ seq' \in 0 .. MaxClaims
             /\ issuedFor' \in [1 .. MaxClaims -> Request \cup {NoBody}]
             /\ UNCHANGED <<now, purgeAt, request, outcome>>
  <2>1. AfterBegin(c, ttl) \in Record
    BY <1>2, AfterBeginType DEF IdemBegin
  <2>2. records' \in [Keys -> Record \cup {NoRecord}]
    BY <1>2, <2>1 DEF IdemBegin, TypeOK
  <2>3. seq' \in 0 .. MaxClaims
    BY <1>2, IdemAssumption DEF IdemBegin, TypeOK
  <2>4. issuedFor' \in [1 .. MaxClaims -> Request \cup {NoBody}]
    BY <1>2, IdemAssumption DEF IdemBegin, TypeOK
  <2>5. QED
    BY <1>2, <2>1, <2>2, <2>3, <2>4 DEF IdemBegin
<1>3. ASSUME NEW c \in Clients, NEW ttl \in Ttls, Begin(c, ttl)
      PROVE  TypeOK'
  <2>1. IdemBegin(c, ttl)
    BY <1>3 DEF Begin
  <2>2. /\ AfterBegin(c, ttl).token \in Token
        /\ AfterBegin(c, ttl).expire_at \in Nat
        /\ AfterBegin(c, ttl).body \in Clients \cup {NoBody}
    BY <1>2, <2>1 DEF Record
  <2>3. phase' \in [Clients -> Phase]
    BY <1>3 DEF Begin, Proceed, Verdict, Phase, TypeOK
  <2>4. /\ token' \in [Clients -> Token \cup {NoToken}]
        /\ until' \in [Clients -> Nat]
        /\ got' \in [Clients -> Clients \cup {NoBody}]
    BY <1>3, <2>2 DEF Begin, TypeOK
  <2>5. QED
    BY <1>2, <2>1, <2>3, <2>4 DEF TypeOK
<1>4. ASSUME NEW c \in Clients, NEW ttl \in Ttls, BeginUnanswered(c, ttl)
      PROVE  TypeOK'
  BY <1>2, <1>4 DEF BeginUnanswered, TypeOK, Phase
<1>5. ASSUME NEW c \in Clients, Handle(c) \/ Crash(c) \/ ReportLost(c)
      PROVE  TypeOK'
  BY <1>5 DEF Handle, Crash, ReportLost, TypeOK, Phase, storeVars
<1>6. ASSUME NEW c \in Clients, IdemComplete(c) \/ IdemFail(c)
      PROVE  TypeOK'
  <2>1. PICK k \in Keys : k = request[c].key
    BY DEF TypeOK, Request
  <2>2. /\ AfterComplete(Found(k), token[c], c) \in Record \cup {NoRecord}
        /\ AfterFail(Found(k), token[c], c) \in Record \cup {NoRecord}
    BY <1>1 DEF AfterComplete, AfterFail, TokenMatches, Record, Status
  <2>3. records' \in [Keys -> Record \cup {NoRecord}]
    BY <1>6, <2>1, <2>2 DEF IdemComplete, IdemFail, TypeOK
  <2>4. phase' \in [Clients -> Phase]
    BY <1>6 DEF IdemComplete, IdemFail, Reported, TypeOK, Phase
  <2>5. QED
    BY <1>6, <2>3, <2>4 DEF IdemComplete, IdemFail, Reported, TypeOK
<1>7. ASSUME NEW k \in Keys, IdemGet(k)
      PROVE  TypeOK'
  BY <1>1, <1>7 DEF IdemGet, TypeOK, clientVars
<1>8. CASE Tick
  BY <1>8, IdemAssumption DEF Tick, TypeOK, clientVars
<1>9. CASE PurgeBegin
  BY <1>9, IdemAssumption DEF PurgeBegin, TypeOK, clientVars
<1>10. CASE PurgeShard
  <2>1. records' \in [Keys -> Record \cup {NoRecord}]
    BY <1>10 DEF PurgeShard, TypeOK
  <2>2. purgeAt' \in -1 .. now'
    BY <1>10, IdemAssumption DEF PurgeShard, NotPurging, TypeOK
  <2>3. QED
    BY <1>10, <2>1, <2>2 DEF PurgeShard, TypeOK, clientVars
<1>11. CASE UNCHANGED vars
  BY <1>11 DEF vars, TypeOK
<1>12. QED
  BY <1>3, <1>4, <1>5, <1>6, <1>7, <1>8, <1>9, <1>10, <1>11 DEF Next

-----------------------------------------------------------------------------
(* What the invariant says of one record, and of one client. *)
RecordOK(k) ==
    LET r == [key |-> k, hash |-> records[k].hash]
        b == records[k].body
    IN  records[k] # NoRecord =>
            /\ Stands(records[k].token, r)
            /\ records[k].status = "Completed" =>
                  b \in Clients /\ request[b] = r /\ outcome[b] = "ok"

ReplayOK(c) ==
    phase[c] = "replayed" =>
        got[c] \in Clients /\ request[got[c]] = request[c] /\ outcome[got[c]] = "ok"

(* A step that hands out no token and ends no handler keeps what it leaves *)
(* alone.                                                                  *)
LEMMA Untouched ==
    ASSUME TypeOK, RecordInv, seq' \in Nat, seq' >= seq,
           \A n \in 1 .. seq : issuedFor'[n] = issuedFor[n],
           UNCHANGED <<request, outcome>>,
           NEW k \in Keys, records'[k] = records[k] \/ records'[k] = NoRecord
    PROVE  RecordOK(k)'
<1>1. seq \in Nat
  BY IdemAssumption DEF TypeOK
<1>2. \A t, r : Stands(t, r) => Stands(t, r)'
  BY <1>1, StandsForEver
<1>3. RecordOK(k)
  BY DEF RecordInv, RecordOK
<1>4. CASE records'[k] = NoRecord
  BY <1>4 DEF RecordOK
<1>5. CASE records'[k] = records[k] /\ records[k] # NoRecord
  BY <1>2, <1>3, <1>5 DEF RecordOK
<1>6. QED
  BY <1>4, <1>5

(* IDEM_BEGIN: the token in the record it leaves stands for the request of *)
(* the record, and the other records are untouched.                        *)
LEMMA BeginKeepsRecords ==
    ASSUME IInv, TypeOK', NEW c \in Clients, NEW ttl \in Ttls, IdemBegin(c, ttl)
    PROVE  /\ RecordInv'
           /\ \A t, r : Stands(t, r) => Stands(t, r)'
           /\ \A t : /\ AfterBegin(c, ttl).hash = request[c].hash
                     /\ t = AfterBegin(c, ttl).token
                     => Stands(t, request[c])'
<1> USE DEF IInv
<1>1. PICK k \in Keys, h \in Hashes :
         request[c] = [key |-> k, hash |-> h] /\ k = request[c].key /\ h = request[c].hash
  BY DEF TypeOK, Request
<1>2. /\ seq \in Nat /\ seq' \in Nat /\ seq' >= seq
      /\ \A n \in 1 .. seq : issuedFor'[n] = issuedFor[n]
      /\ UNCHANGED <<request, outcome>>
  BY IdemAssumption DEF IdemBegin, TypeOK
<1>3. \A t, r : Stands(t, r) => Stands(t, r)'
  BY <1>2, StandsForEver
<1>4. /\ records'[k] = AfterBegin(c, ttl)
      /\ \A j \in Keys \ {k} : records'[j] = records[j]
  BY <1>1 DEF IdemBegin, TypeOK
<1>5. \A j \in Keys \ {k} : RecordOK(j)'
  BY <1>2, <1>4, Untouched
<1>6. CASE Claims(Found(k), h)
  <2>1. PICK t : t = IF Offered(c) = NoToken THEN <<"idem", seq + 1>> ELSE Offered(c)
    OBVIOUS
  <2>2. /\ AfterBegin(c, ttl).token = t
        /\ AfterBegin(c, ttl).hash = h
        /\ AfterBegin(c, ttl).status = "InProgress"
    BY <1>1, <1>6, <2>1 DEF AfterBegin
  <2>3. Stands(t, request[c])'
    <3>1. CASE Offered(c) = NoToken
      <4>1. seq' = seq + 1 /\ issuedFor'[seq + 1] = request[c] /\ seq + 1 \in 1 .. seq'
        BY <1>1, <1>2, <1>6, <3>1, IdemAssumption DEF IdemBegin, TypeOK
      <4>2. QED
        BY <1>2, <2>1, <3>1, <4>1 DEF Stands
    <3>2. CASE Offered(c) # NoToken
      <4>1. c \in Direct /\ t = <<"own", c>>
        BY <2>1, <3>2 DEF Offered
      <4>2. QED
        BY <1>2, <4>1 DEF Stands
    <3>3. QED
      BY <3>1, <3>2
  <2>4. RecordOK(k)'
    BY <1>1, <1>2, <1>4, <2>2, <2>3 DEF RecordOK
  <2>5. RecordInv'
    BY <1>5, <2>4 DEF RecordInv, RecordOK
  <2>6. QED
    BY <1>3, <2>2, <2>3, <2>5
<1>7. CASE ~Claims(Found(k), h)
  <2>1. AfterBegin(c, ttl) = Found(k) /\ Found(k) = records[k] /\ records[k] # NoRecord
    BY <1>1, <1>7, FoundIsStored DEF AfterBegin, Claims
  <2>2. RecordOK(k)'
    BY <1>2, <1>4, <2>1, Untouched
  <2>3. Stands(records[k].token, [key |-> k, hash |-> records[k].hash])
    BY <2>1 DEF RecordInv
  <2>4. RecordInv'
    BY <1>5, <2>2 DEF RecordInv, RecordOK
  <2>5. ASSUME NEW t, AfterBegin(c, ttl).hash = request[c].hash,
               t = AfterBegin(c, ttl).token
        PROVE  Stands(t, request[c])'
    <3>1. Stands(t, request[c])
      BY <1>1, <2>1, <2>3, <2>5
    <3>2. QED
      BY <1>2, <1>3, <3>1
  <2>6. QED
    BY <1>3, <2>4, <2>5
<1>8. QED
  BY <1>6, <1>7

(* A client that does not end its handler and keeps its token. *)
LEMMA OtherClient ==
    ASSUME IInv, NEW c \in Clients,
           \A t, r : Stands(t, r) => Stands(t, r)',
           UNCHANGED <<request, outcome>>,
           token'[c] = token[c], got'[c] = got[c],
           \/ phase'[c] = phase[c]
           \/ phase[c] \in {"running", "reporting"} /\ phase'[c] \in {"done", "crashed"}
    PROVE  /\ token'[c] # NoToken => Stands(token[c], request[c])'
           /\ outcome'[c] # "none" => phase'[c] \in {"reporting", "done", "crashed"}
           /\ ReplayOK(c)'
BY DEF IInv, ClientInv, ReplayMatchesRequest, ReplayOK

(* No step breaks the invariant: one case per action, each split into what *)
(* it does to the records and to the clients.                              *)
LEMMA InvInductive ==
    IInv /\ TypeOK' /\ [Next]_vars => RecordInv' /\ ClientInv' /\ ReplayMatchesRequest'
<1> SUFFICES ASSUME IInv, TypeOK', [Next]_vars
             PROVE  RecordInv' /\ ClientInv' /\ ReplayMatchesRequest'
  OBVIOUS
<1> USE DEF IInv
<1>1. ASSUME UNCHANGED <<seq, issuedFor, request>>
      PROVE  \A t, r : Stands(t, r) => Stands(t, r)'
  BY <1>1 DEF Stands
<1>2. ASSUME NEW c \in Clients, NEW ttl \in Ttls, Begin(c, ttl)
      PROVE  RecordInv' /\ ClientInv' /\ ReplayMatchesRequest'
  <2>1. IdemBegin(c, ttl) /\ UNCHANGED <<request, outcome>>
    BY <1>2 DEF Begin, IdemBegin
  <2>2. /\ RecordInv'
        /\ \A t, r : Stands(t, r) => Stands(t, r)'
        /\ \A t : /\ AfterBegin(c, ttl).hash = request[c].hash
                  /\ t = AfterBegin(c, ttl).token
                  => Stands(t, request[c])'
    BY <2>1, BeginKeepsRecords
  <2>3. PICK k \in Keys, h \in Hashes :
           request[c] = [key |-> k, hash |-> h] /\ k = request[c].key /\ h = request[c].hash
    BY DEF TypeOK, Request
  <2>4. PICK verdict : verdict = Verdict(Found(k), h, Offered(c))
    OBVIOUS
  <2>5. /\ phase'[c] = Proceed(c, verdict)
        /\ token'[c] = IF Proceed(c, verdict) = "running"
                       THEN AfterBegin(c, ttl).token ELSE token[c]
        /\ got'[c] = IF Proceed(c, verdict) = "replayed"
                     THEN AfterBegin(c, ttl).body ELSE got[c]
        /\ \A d \in Clients \ {c} :
              phase'[d] = phase[d] /\ token'[d] = token[d] /\ got'[d] = got[d]
    BY <1>2, <2>3, <2>4 DEF Begin, TypeOK
  <2>6. \A d \in Clients \ {c} :
           /\ token'[d] # NoToken => Stands(token[d], request[d])'
           /\ outcome'[d] # "none" => phase'[d] \in {"reporting", "done", "crashed"}
           /\ ReplayOK(d)'
    BY <2>1, <2>2, <2>5, OtherClient
  <2>7. outcome'[c] = "none"
    BY <2>1 DEF IdemBegin, ClientInv
  <2>8. verdict # "Conflict" => AfterBegin(c, ttl).hash = h
    <3>1. CASE Claims(Found(k), h)
      BY <2>3, <3>1 DEF AfterBegin
    <3>2. CASE ~Claims(Found(k), h)
      BY <2>3, <2>4, <3>2 DEF AfterBegin, Verdict, Conflicts, Claims
    <3>3. QED
      BY <3>1, <3>2
  <2>9. token'[c] # NoToken => Stands(token[c], request[c])'
    <3>1. CASE Proceed(c, verdict) = "running"
      <4>1. verdict # "Conflict"
        BY <3>1 DEF Proceed
      <4>2. PICK t : t = AfterBegin(c, ttl).token
        OBVIOUS
      <4>3. Stands(t, request[c])'
        BY <2>2, <2>3, <2>8, <4>1, <4>2
      <4>4. token'[c] = t
        BY <2>5, <3>1, <4>2
      <4>5. QED
        BY <4>3, <4>4
    <3>2. CASE Proceed(c, verdict) # "running"
      BY <2>1, <2>2, <2>5, <3>2 DEF ClientInv
    <3>3. QED
      BY <3>1, <3>2
  <2>10. ReplayOK(c)'
    <3>1. SUFFICES ASSUME phase'[c] = "replayed"
                   PROVE  /\ got'[c] \in Clients
                          /\ request[got'[c]] = request[c]
                          /\ outcome[got'[c]] = "ok"
      BY <2>1 DEF ReplayOK
    <3>2. verdict = "Replay"
      BY <2>4, <2>5, <3>1 DEF Proceed, Verdict
    <3>3. ~Claims(Found(k), h) /\ ~Conflicts(Found(k), h) /\ Found(k).status = "Completed"
      BY <2>4, <3>2 DEF Verdict
    <3>4. Found(k) = records[k] /\ records[k] # NoRecord /\ records[k].hash = h
      BY <3>3, FoundIsStored DEF Claims, Conflicts
    <3>5. got'[c] = records[k].body
      BY <2>3, <2>5, <3>1, <3>3, <3>4 DEF AfterBegin
    <3>6. QED
      BY <2>3, <3>3, <3>4, <3>5 DEF RecordInv
  <2>11. QED
    BY <2>2, <2>6, <2>7, <2>9, <2>10 DEF ClientInv, ReplayMatchesRequest, ReplayOK
<1>3. ASSUME NEW c \in Clients, NEW ttl \in Ttls, BeginUnanswered(c, ttl)
      PROVE  RecordInv' /\ ClientInv' /\ ReplayMatchesRequest'
  <2>1. IdemBegin(c, ttl) /\ UNCHANGED <<request, outcome>>
    BY <1>3 DEF BeginUnanswered, IdemBegin
  <2>2. RecordInv' /\ \A t, r : Stands(t, r) => Stands(t, r)'
    BY <2>1, BeginKeepsRecords
  <2>3. outcome'[c] = "none"
    BY <2>1 DEF IdemBegin, ClientInv
  <2>4. phase'[c] = "unanswered" /\ \A d \in Clients \ {c} : phase'[d] = phase[d]
    BY <1>3 DEF BeginUnanswered, TypeOK
  <2>5. ClientInv'
    BY <1>3, <2>1, <2>2, <2>3, <2>4 DEF BeginUnanswered, ClientInv
  <2>6. ReplayMatchesRequest'
    BY <1>3, <2>1, <2>4 DEF BeginUnanswered, ReplayMatchesRequest
  <2>7. QED
    BY <2>2, <2>5, <2>6
<1>4. ASSUME NEW c \in Clients, Handle(c)
      PROVE  RecordInv' /\ ClientInv' /\ ReplayMatchesRequest'
  <2>1. /\ UNCHANGED <<records, seq, issuedFor, request, token, got>>
        /\ phase[c] = "running" /\ phase'[c] = "reporting"
        /\ \A d \in Clients \ {c} : phase'[d] = phase[d] /\ outcome'[d] = outcome[d]
    BY <1>4 DEF Handle, storeVars, TypeOK
  <2>2. \A t, r : Stands(t, r) => Stands(t, r)'
    BY <1>1, <2>1
  <2>3. outcome[c] = "none"
    BY <2>1 DEF ClientInv
  <2>4. \A d \in Clients : outcome[d] = "ok" => outcome'[d] = "ok"
    BY <2>1, <2>3
  <2>5. RecordInv'
    BY <2>1, <2>2, <2>4 DEF RecordInv
  <2>6. ClientInv'
    BY <2>1, <2>2 DEF ClientInv
  <2>7. ReplayMatchesRequest'
    BY <2>1, <2>4 DEF ReplayMatchesRequest
  <2>8. QED
    BY <2>5, <2>6, <2>7
<1>5. ASSUME NEW c \in Clients, Crash(c) \/ ReportLost(c)
      PROVE  RecordInv' /\ ClientInv' /\ ReplayMatchesRequest'
  <2>1. /\ UNCHANGED <<records, seq, issuedFor, request, token, got, outcome>>
        /\ phase'[c] \in {"done", "crashed"}
        /\ \A d \in Clients \ {c} : phase'[d] = phase[d]
    BY <1>5 DEF Crash, ReportLost, storeVars, TypeOK
  <2>2. \A t, r : Stands(t, r) => Stands(t, r)'
    BY <1>1, <2>1
  <2>3. RecordInv'
    BY <2>1, <2>2 DEF RecordInv
  <2>4. ClientInv'
    BY <2>1, <2>2 DEF ClientInv
  <2>5. ReplayMatchesRequest'
    BY <2>1 DEF ReplayMatchesRequest
  <2>6. QED
    BY <2>3, <2>4, <2>5
<1>6. ASSUME NEW c \in Clients, IdemComplete(c) \/ IdemFail(c)
      PROVE  RecordInv' /\ ClientInv' /\ ReplayMatchesRequest'
  <2>1. /\ UNCHANGED <<seq, issuedFor, request, token, got, outcome>>
        /\ phase[c] = "reporting"
        /\ phase'[c] \in {"reporting", "done"}
        /\ \A d \in Clients \ {c} : phase'[d] = phase[d]
    BY <1>6 DEF IdemComplete, IdemFail, Reported, TypeOK
  <2>2. \A t, r : Stands(t, r) => Stands(t, r)'
    BY <1>1, <2>1
  <2>3. ClientInv'
    BY <2>1, <2>2 DEF ClientInv
  <2>4. ReplayMatchesRequest'
    BY <2>1 DEF ReplayMatchesRequest
  <2>5. PICK k \in Keys, h \in Hashes :
           request[c] = [key |-> k, hash |-> h] /\ k = request[c].key /\ h = request[c].hash
    BY DEF TypeOK, Request
  <2>6. \A j \in Keys \ {k} : records'[j] = records[j]
    BY <1>6, <2>5 DEF IdemComplete, IdemFail, TypeOK
  <2>7. \/ /\ outcome[c] = "ok"
           /\ records'[k] = AfterComplete(Found(k), token[c], c)
        \/ records'[k] = AfterFail(Found(k), token[c], c)
    BY <1>6, <2>5 DEF IdemComplete, IdemFail, TypeOK
  <2>8. seq \in Nat
    BY IdemAssumption DEF TypeOK
  <2>9. \A j \in Keys \ {k} : RecordOK(j)'
    BY <2>1, <2>6, <2>8, Untouched
  <2>10. RecordOK(k)'
    <3>1. CASE records'[k] = records[k] \/ records'[k] = NoRecord
      BY <2>1, <2>8, <3>1, Untouched
    <3>2. CASE ~(records'[k] = records[k] \/ records'[k] = NoRecord)
      <4>1. /\ Found(k) = records[k] /\ records[k] # NoRecord
            /\ records[k].token = token[c]
            /\ \/ /\ outcome[c] = "ok"
                  /\ records'[k] = [records[k] EXCEPT !.status = "Completed", !.body = c]
               \/ records'[k] = [records[k] EXCEPT !.status = "Failed", !.body = c]
        BY <2>7, <3>2, FoundIsStored DEF AfterComplete, AfterFail, TokenMatches
      <4>2. records[k] \in Record
        BY <4>1 DEF TypeOK
      <4>3. token[c] # NoToken
        BY <4>1, <4>2, TokensDiffer DEF Record
      <4>4. Stands(token[c], request[c]) /\ Stands(token[c], [key |-> k, hash |-> records[k].hash])
        BY <4>1, <4>3 DEF ClientInv, RecordInv
      <4>5. request[c] = [key |-> k, hash |-> records[k].hash]
        BY <4>4, StandsForOne
      <4>6. /\ records'[k].token = token[c]
            /\ records'[k].hash = records[k].hash
            /\ records'[k].body = c
            /\ records'[k].status = "Completed" => outcome[c] = "ok"
        BY <4>1, <4>2 DEF Record
      <4>7. Stands(token[c], [key |-> k, hash |-> records[k].hash])'
        <5>1. PICK r : r = [key |-> k, hash |-> records[k].hash]
          OBVIOUS
        <5>2. Stands(token[c], r)'
          BY <2>1, <2>2, <4>4, <5>1
        <5>3. QED
          BY <4>6, <5>1, <5>2
      <4>8. QED
        BY <2>1, <4>5, <4>6, <4>7 DEF RecordOK
    <3>3. QED
      BY <3>1, <3>2
  <2>11. RecordInv'
    BY <2>9, <2>10 DEF RecordInv, RecordOK
  <2>12. QED
    BY <2>3, <2>4, <2>11
<1>7. ASSUME UNCHANGED <<seq, issuedFor, request, phase, token, outcome, got>>,
             \A k \in Keys : records'[k] = records[k] \/ records'[k] = NoRecord
      PROVE  RecordInv' /\ ClientInv' /\ ReplayMatchesRequest'
  <2>1. seq \in Nat
    BY IdemAssumption DEF TypeOK
  <2>2. \A k \in Keys : RecordOK(k)'
    BY <1>7, <2>1, Untouched
  <2>3. ClientInv'
    BY <1>1, <1>7 DEF ClientInv
  <2>4. QED
    BY <1>7, <2>2, <2>3 DEF RecordInv, RecordOK, ReplayMatchesRequest
<1>8. ASSUME NEW k \in Keys, IdemGet(k)
      PROVE  RecordInv' /\ ClientInv' /\ ReplayMatchesRequest'
  BY <1>7, <1>8, FoundIsStored DEF IdemGet, clientVars, TypeOK
<1>9. CASE Tick \/ PurgeBegin \/ UNCHANGED vars
  BY <1>7, <1>9 DEF Tick, PurgeBegin, vars, clientVars
<1>10. CASE PurgeShard
  BY <1>7, <1>10 DEF PurgeShard, clientVars
<1>11. QED
  BY <1>2, <1>3, <1>4, <1>5, <1>6, <1>8, <1>9, <1>10 DEF Next

-----------------------------------------------------------------------------
(* In the beginning there is no record, no token and no response. *)
LEMMA InitEstablishes == Init => IInv
<1> SUFFICES ASSUME Init PROVE IInv
  OBVIOUS
<1>1. TypeOK
  BY IdemAssumption DEF Init, TypeOK, NotPurging, Phase
<1>2. RecordInv /\ ClientInv /\ ReplayMatchesRequest
  BY DEF Init, RecordInv, ClientInv, ReplayMatchesRequest
<1>3. QED
  BY <1>1, <1>2 DEF IInv

(***************************************************************************)
(* The inductive invariant holds in every reachable state.                 *)
(***************************************************************************)
THEOREM Invariance == Spec => []IInv
<1>1. IInv /\ [Next]_vars => IInv'
  BY TypeInductive, InvInductive DEF IInv
<1>2. QED
  BY InitEstablishes, <1>1, PTL DEF Spec

(***************************************************************************)
(* Records, clients and tokens are always well typed.                      *)
(***************************************************************************)
THEOREM TypeCorrect == Spec => []TypeOK
<1>1. IInv => TypeOK
  BY DEF IInv
<1>2. QED
  BY Invariance, <1>1, PTL

(***************************************************************************)
(* IDEM_BEGIN never replays the response to another request, however late, *)
(* lost or repeated the reports of the clients are, and although a parked  *)
(* middleware client reports with the token of the owner.                  *)
(***************************************************************************)
THEOREM ReplaysAreOwn == Spec => []ReplayMatchesRequest
<1>1. IInv => ReplayMatchesRequest
  BY DEF IInv
<1>2. QED
  BY Invariance, <1>1, PTL
-----------------------------------------------------------------------------
(***************************************************************************)
(* Single flight.  A client is given its token once, when it starts to     *)
(* run, so a token that is shared stays shared; a direct client runs under *)
(* its own token only.  While a client runs in time, under a claim that    *)
(* nobody shares with middleware, the record of its key is in progress and *)
(* is its own.  A completed record carries the token of the client that    *)
(* completed it.                                                           *)
(***************************************************************************)
Shared(c) ==
    \E m \in Middleware : \E e \in Clients \ {m} :
        token[m] = token[e] /\ token[m] = token[c]

Holds(c) ==
    LET rec == records[request[c].key]
    IN  /\ rec # NoRecord
        /\ rec.token = token[c]
        /\ rec.status = "InProgress"
        /\ rec.expire_at = until[c]

OneToken ==
    \A c \in Clients :
        /\ phase[c] \in {"idle", "waiting", "unanswered"} => token[c] = NoToken
        /\ phase[c] = "running" => token[c] # NoToken
        /\ c \in Direct => token[c] \in {NoToken, <<"own", c>>}

OwnersHold ==
    \A c \in Clients : phase[c] = "running" /\ InTime(c) => Holds(c) \/ Shared(c)

CompletedByHolder ==
    \A k \in Keys :
        records[k] # NoRecord /\ records[k].status = "Completed" =>
            token[records[k].body] = records[k].token

FlightInv == OneToken /\ OwnersHold /\ CompletedByHolder

(* Two holders of one token share it, and one of them is middleware. *)
LEMMA SameTokenShared ==
    ASSUME OneToken, NEW c \in Clients, NEW d \in Clients, c # d,
           token[c] = token[d], token[c] # NoToken
    PROVE  Shared(c) /\ {c, d} \cap Middleware # {}
<1>1. ~(c \in Direct /\ d \in Direct)
  BY TokensDiffer DEF OneToken
<1>2. c \in Middleware \/ d \in Middleware
  BY <1>1 DEF Clients
<1> QED
  BY <1>2 DEF Shared

(* Who has a token keeps it. *)
KeepTokens == \A d \in Clients : token[d] # NoToken => token'[d] = token[d]

(* A token that is shared stays shared. *)
LEMMA SharedStays ==
    ASSUME KeepTokens, NEW c \in Clients, token[c] # NoToken, Shared(c)
    PROVE  Shared(c)'
<1>1. PICK m \in Middleware, e \in Clients :
         m # e /\ token[m] = token[e] /\ token[m] = token[c]
  BY DEF Shared
<1>2. m \in Clients /\ e \in Clients
  BY DEF Clients
<1>3. token'[m] = token[m] /\ token'[e] = token[e] /\ token'[c] = token[c]
  BY <1>1, <1>2 DEF KeepTokens
<1> QED
  BY <1>1, <1>3 DEF Shared

(* A record that is not expired now was not at an earlier clock either. *)
LEMMA NotExpiredBefore ==
    ASSUME NEW rec, NEW s, rec.expire_at \in Nat, now \in Nat, s \in Int, s <= now,
           ~IsExpired(rec, now)
    PROVE  ~IsExpired(rec, s)
BY DEF IsExpired

(* The record a client holds in time is found, and no sweep has a right to it. *)
LEMMA HeldIsFound ==
    ASSUME IInv, NEW c \in Clients, Holds(c), InTime(c)
    PROVE  /\ request[c].key \in Keys
           /\ records[request[c].key] \in Record
           /\ ~IsExpired(records[request[c].key], now)
           /\ Found(request[c].key) = records[request[c].key]
<1>1. request[c].key \in Keys
  BY DEF IInv, TypeOK, Request
<1>2. records[request[c].key] \in Record
  BY <1>1 DEF IInv, TypeOK, Holds
<1>3. ~IsExpired(records[request[c].key], now)
  BY DEF Holds, InTime, IsExpired
<1> QED
  BY <1>1, <1>2, <1>3 DEF Found, Holds

(* A client that goes on running keeps its hold if its record is left alone. *)
LEMMA StaysHeld ==
    ASSUME IInv, FlightInv, TypeOK', KeepTokens, now' >= now, request' = request,
           NEW c \in Clients, phase[c] = "running", until'[c] = until[c], InTime(c)',
           Holds(c) => \/ records'[request[c].key] = records[request[c].key]
                       \/ Shared(c)'
    PROVE  Holds(c)' \/ Shared(c)'
<1>1. /\ token[c] # NoToken /\ token'[c] = token[c]
      /\ now \in Nat /\ now' \in Nat /\ until[c] \in Nat
  BY IdemAssumption DEF FlightInv, OneToken, KeepTokens, IInv, TypeOK
<1>2. InTime(c)
  BY <1>1 DEF InTime, IsExpired
<1>3. CASE Shared(c)
  BY <1>1, <1>3, SharedStays
<1>4. CASE Holds(c)
  BY <1>1, <1>4 DEF Holds
<1> QED
  BY <1>2, <1>3, <1>4 DEF FlightInv, OwnersHold

(* The sweep, IDEM_GET and the lookups of other operations take no record  *)
(* that is found.                                                          *)
LEMMA FoundStays ==
    ASSUME IInv, NEW k \in Keys, Found(k) # NoRecord,
           PurgeShard \/ \E j \in Keys : IdemGet(j)
    PROVE  records'[k] = records[k]
<1>1. /\ Found(k) = records[k] /\ records[k] # NoRecord /\ ~IsExpired(records[k], now)
  BY DEF Found
<1>2. CASE \E j \in Keys : IdemGet(j)
  BY <1>1, <1>2 DEF IdemGet, IInv, TypeOK
<1>3. CASE PurgeShard
  <2>1. records[k].expire_at \in Nat /\ now \in Nat /\ purgeAt \in Int /\ purgeAt <= now
    BY <1>1, IdemAssumption DEF IInv, TypeOK, Record
  <2>2. ~IsExpired(records[k], purgeAt)
    BY <1>1, <2>1, NotExpiredBefore
  <2>3. PICK gone \in Samples(ExpiredRecords(purgeAt), SampleLimit) :
           records' = [j \in Keys |-> IF j \in gone THEN NoRecord ELSE records[j]]
    BY <1>3 DEF PurgeShard
  <2>4. k \notin gone
    BY <2>2, <2>3 DEF Samples, ExpiredRecords
  <2> QED
    BY <2>3, <2>4
<1> QED
  BY <1>2, <1>3

(* IDEM_BEGIN leaves a claim in progress and a completed record alone. *)
LEMMA BeginLeaves ==
    ASSUME IInv, NEW c \in Clients, NEW ttl \in Ttls, IdemBegin(c, ttl),
           NEW k \in Keys, Found(k) # NoRecord, records[k].status # "Failed"
    PROVE  records'[k] = records[k]
<1>1. Found(k) = records[k]
  BY DEF Found
<1>2. CASE k = request[c].key
  <2>1. AfterBegin(c, ttl) = records[k]
    BY <1>1, <1>2 DEF AfterBegin, Claims
  <2> QED
    BY <1>2, <2>1 DEF IdemBegin, IInv, TypeOK
<1>3. CASE k # request[c].key
  BY <1>3 DEF IdemBegin, IInv, TypeOK
<1> QED
  BY <1>2, <1>3

(* A report changes the record only with its token. *)
LEMMA ReportLeaves ==
    ASSUME IInv, NEW c \in Clients, IdemComplete(c) \/ IdemFail(c),
           NEW k \in Keys, Found(k) # NoRecord, records'[k] # records[k]
    PROVE  k = request[c].key /\ records[k].token = token[c]
<1>1. Found(k) = records[k] /\ records[k] # NoRecord
  BY DEF Found
<1>2. k = request[c].key
  BY DEF IdemComplete, IdemFail, IInv, TypeOK
<1>3. \/ records'[k] = AfterComplete(Found(k), token[c], c)
      \/ records'[k] = AfterFail(Found(k), token[c], c)
  BY <1>2 DEF IdemComplete, IdemFail, IInv, TypeOK
<1> QED
  BY <1>1, <1>2, <1>3 DEF AfterComplete, AfterFail, TokenMatches

(* What the invariant says of one completed record. *)
CompletedOK(k) ==
    records[k] # NoRecord /\ records[k].status = "Completed" =>
        token[records[k].body] = records[k].token

(* A completed record that stays carries a token that stays. *)
LEMMA CompletedStays ==
    ASSUME IInv, FlightInv, KeepTokens, NEW k \in Keys,
           records'[k] = records[k] \/ records'[k] = NoRecord
    PROVE  CompletedOK(k)'
<1> SUFFICES ASSUME records'[k] # NoRecord, records'[k].status = "Completed"
             PROVE  token'[records'[k].body] = records'[k].token
  BY DEF CompletedOK
<1>1. records'[k] = records[k] /\ records[k] \in Record
  BY DEF IInv, TypeOK
<1>2. records[k].body \in Clients /\ token[records[k].body] = records[k].token
  BY <1>1 DEF IInv, RecordInv, FlightInv, CompletedByHolder
<1>3. records[k].token # NoToken
  BY <1>1, TokensDiffer DEF Record
<1> QED
  BY <1>1, <1>2, <1>3 DEF KeepTokens

(* A client that begins has no token yet, and gets its own or that of the  *)
(* record it runs under.                                                   *)
LEMMA BeginFlight ==
    ASSUME IInv, FlightInv, TypeOK', NEW c \in Clients, NEW ttl \in Ttls, Begin(c, ttl)
    PROVE  FlightInv'
<1>0. PICK k \in Keys : k = request[c].key
  BY DEF IInv, TypeOK, Request
<1> DEFINE h == request[c].hash
           found == Found(k)
           after == AfterBegin(c, ttl)
           verdict == Verdict(found, h, Offered(c))
           next == Proceed(c, verdict)
<1>1. IdemBegin(c, ttl) /\ request' = request /\ now' = now
  BY DEF Begin, IdemBegin
<1>2. /\ phase[c] \in {"idle", "waiting", "unanswered"} /\ token[c] = NoToken
  BY <1>1 DEF IdemBegin, FlightInv, OneToken
<1>3. /\ phase'[c] = next
      /\ token'[c] = IF next = "running" THEN after.token ELSE token[c]
      /\ until'[c] = IF next = "running" THEN after.expire_at ELSE until[c]
      /\ \A d \in Clients \ {c} :
            phase'[d] = phase[d] /\ token'[d] = token[d] /\ until'[d] = until[d]
  BY <1>0 DEF Begin, IInv, TypeOK
<1>4. records'[k] = after /\ \A j \in Keys \ {k} : records'[j] = records[j]
  BY <1>0, <1>1 DEF IdemBegin, IInv, TypeOK
<1>5. after \in Record /\ after # NoRecord
  BY <1>1, AfterBeginType, IdemAssumption DEF IdemBegin, IInv
<1>6. KeepTokens
  BY <1>2, <1>3 DEF KeepTokens
<1>7. Claims(found, h) =>
         /\ after.status = "InProgress" /\ verdict = "Execute"
         /\ after.token = IF Offered(c) = NoToken THEN <<"idem", seq + 1>> ELSE Offered(c)
  BY <1>0 DEF AfterBegin, Verdict
<1>8. ~Claims(found, h) => after = found /\ found = records[k] /\ records[k] # NoRecord
  BY <1>0, FoundIsStored DEF AfterBegin, Claims
<1>9. next = "running" =>
         /\ after.status = "InProgress"
         /\ c \in Direct => after.token = <<"own", c>>
  <2> SUFFICES ASSUME next = "running"
               PROVE  /\ after.status = "InProgress"
                      /\ c \in Direct => after.token = <<"own", c>>
    OBVIOUS
  <2>1. verdict # "Replay" /\ verdict # "Conflict"
    BY DEF Proceed
  <2>2. c \in Direct => verdict = "Execute" /\ Offered(c) = <<"own", c>> /\ Offered(c) # NoToken
    BY IdemAssumption, TokensDiffer DEF Proceed, Offered, Verdict, Token
  <2>3. CASE Claims(found, h)
    BY <1>7, <2>2, <2>3
  <2>4. CASE ~Claims(found, h)
    <3>1. found.status \in Status
      BY <1>5, <1>8, <2>4 DEF Record
    <3>2. found.hash = h /\ found.status # "Completed" /\ found.status # "Failed"
      BY <1>8, <2>1, <2>4 DEF Verdict, Conflicts, Claims
    <3>3. c \in Direct => found.token = <<"own", c>>
      BY <2>2, <2>4, <3>2 DEF Verdict
    <3> QED
      BY <1>8, <2>4, <3>1, <3>2, <3>3 DEF Status
  <2> QED
    BY <2>3, <2>4
<1>10. after.token \in Token /\ after.token # NoToken
  BY <1>5, TokensDiffer DEF Record
<1>11. next \in {"replayed", "conflict", "running", "waiting"}
  BY DEF Proceed, Verdict
<1> HIDE DEF h, found, after, verdict, next
<1>12. OneToken'
  <2> SUFFICES ASSUME NEW d \in Clients
               PROVE  /\ phase'[d] \in {"idle", "waiting", "unanswered"} => token'[d] = NoToken
                      /\ phase'[d] = "running" => token'[d] # NoToken
                      /\ d \in Direct => token'[d] \in {NoToken, <<"own", d>>}
    BY DEF OneToken
  <2>1. CASE d = c
    BY <1>2, <1>3, <1>9, <1>10, <2>1
  <2>2. CASE d # c
    BY <1>3, <2>2 DEF FlightInv, OneToken
  <2> QED
    BY <2>1, <2>2
<1>13. ASSUME NEW d \in Clients, phase'[d] = "running", InTime(d)'
       PROVE  Holds(d)' \/ Shared(d)'
  <2>1. CASE d = c
    BY <1>0, <1>1, <1>3, <1>4, <1>5, <1>9, <1>13, <2>1 DEF Holds
  <2>2. CASE d # c
    <3>1. phase[d] = "running" /\ until'[d] = until[d] /\ now' >= now
      BY <1>1, <1>3, <1>13, <2>2, IdemAssumption DEF IInv, TypeOK
    <3>2. ASSUME Holds(d)
          PROVE  records'[request[d].key] = records[request[d].key]
      <4>1. InTime(d)
        BY <1>1, <1>13, <3>1 DEF InTime
      <4>2. /\ request[d].key \in Keys /\ Found(request[d].key) # NoRecord
            /\ records[request[d].key].status # "Failed"
        BY <3>2, <4>1, HeldIsFound DEF Holds
      <4> QED
        BY <1>1, <4>2, BeginLeaves
    <3> QED
      BY <1>1, <1>6, <1>13, <3>1, <3>2, StaysHeld
  <2> QED
    BY <2>1, <2>2
<1>14. \A j \in Keys \ {k} : CompletedOK(j)'
  BY <1>4, <1>6, CompletedStays
<1>15. CompletedOK(k)'
  <2>1. CASE Claims(found, h)
    BY <1>4, <1>7, <2>1 DEF CompletedOK
  <2>2. CASE ~Claims(found, h)
    BY <1>4, <1>6, <1>8, <2>2, CompletedStays
  <2> QED
    BY <2>1, <2>2
<1> QED
  BY <1>12, <1>13, <1>14, <1>15 DEF FlightInv, OwnersHold, CompletedByHolder, CompletedOK

(* A lost answer gives no token; what it claims nobody holds in time. *)
LEMMA UnansweredFlight ==
    ASSUME IInv, FlightInv, TypeOK', NEW c \in Clients, NEW ttl \in Ttls,
           BeginUnanswered(c, ttl)
    PROVE  FlightInv'
<1>0. PICK k \in Keys : k = request[c].key
  BY DEF IInv, TypeOK, Request
<1>1. /\ IdemBegin(c, ttl) /\ UNCHANGED <<request, now, token, until>>
      /\ phase'[c] = "unanswered" /\ \A d \in Clients \ {c} : phase'[d] = phase[d]
  BY DEF BeginUnanswered, IdemBegin, IInv, TypeOK
<1>2. token[c] = NoToken
  BY <1>1 DEF IdemBegin, FlightInv, OneToken
<1>3. KeepTokens
  BY <1>1 DEF KeepTokens
<1>4. /\ records'[k] = AfterBegin(c, ttl)
      /\ \A j \in Keys \ {k} : records'[j] = records[j]
  BY <1>0, <1>1 DEF IdemBegin, IInv, TypeOK
<1>5. OneToken'
  BY <1>1, <1>2 DEF FlightInv, OneToken
<1>6. ASSUME NEW d \in Clients, phase'[d] = "running", InTime(d)'
      PROVE  Holds(d)' \/ Shared(d)'
  <2>1. /\ phase[d] = "running" /\ until'[d] = until[d] /\ now' >= now /\ InTime(d)
    BY <1>1, <1>6, IdemAssumption DEF IInv, TypeOK, InTime
  <2>2. ASSUME Holds(d)
        PROVE  records'[request[d].key] = records[request[d].key]
    <3>1. /\ request[d].key \in Keys /\ Found(request[d].key) # NoRecord
          /\ records[request[d].key].status # "Failed"
      BY <2>1, <2>2, HeldIsFound DEF Holds
    <3> QED
      BY <1>1, <3>1, BeginLeaves
  <2> QED
    BY <1>1, <1>3, <1>6, <2>1, <2>2, StaysHeld
<1>7. \A j \in Keys \ {k} : CompletedOK(j)'
  BY <1>3, <1>4, CompletedStays
<1>8. CompletedOK(k)'
  <2>1. CASE Claims(Found(k), request[c].hash)
    BY <1>0, <1>4, <2>1 DEF CompletedOK, AfterBegin
  <2>2. CASE ~Claims(Found(k), request[c].hash)
    <3>1. records'[k] = records[k]
      BY <1>0, <1>4, <2>2, FoundIsStored DEF AfterBegin, Claims
    <3> QED
      BY <1>3, <1>4, <3>1, CompletedStays
  <2> QED
    BY <2>1, <2>2
<1> QED
  BY <1>5, <1>6, <1>7, <1>8 DEF FlightInv, OwnersHold, CompletedByHolder, CompletedOK

(* A report that reaches the record of a running client has its token, so  *)
(* the two share it.                                                       *)
LEMMA ReportFlight ==
    ASSUME IInv, FlightInv, TypeOK', NEW c \in Clients, IdemComplete(c) \/ IdemFail(c)
    PROVE  FlightInv'
<1>0. PICK k \in Keys : k = request[c].key
  BY DEF IInv, TypeOK, Request
<1>1. /\ UNCHANGED <<request, now, token, until>> /\ phase[c] = "reporting"
      /\ phase'[c] \in {"reporting", "done"} /\ \A d \in Clients \ {c} : phase'[d] = phase[d]
  BY DEF IdemComplete, IdemFail, Reported, IInv, TypeOK
<1>2. KeepTokens
  BY <1>1 DEF KeepTokens
<1>3. OneToken'
  BY <1>1 DEF FlightInv, OneToken
<1>4. ASSUME NEW d \in Clients, phase'[d] = "running", InTime(d)'
      PROVE  Holds(d)' \/ Shared(d)'
  <2>1. /\ phase[d] = "running" /\ until'[d] = until[d] /\ now' >= now /\ InTime(d)
        /\ d # c /\ token[d] # NoToken
    BY <1>1, <1>4, IdemAssumption DEF IInv, TypeOK, InTime, FlightInv, OneToken
  <2>2. ASSUME Holds(d), records'[request[d].key] # records[request[d].key]
        PROVE  Shared(d)'
    <3>1. records[request[d].key].token = token[c]
      BY <2>1, <2>2, HeldIsFound, ReportLeaves DEF Holds
    <3>2. token[c] = token[d]
      BY <2>2, <3>1 DEF Holds
    <3>3. Shared(d)
      BY <2>1, <3>2, SameTokenShared DEF FlightInv
    <3> QED
      BY <1>2, <2>1, <3>3, SharedStays
  <2> QED
    BY <1>1, <1>2, <1>4, <2>1, <2>2, StaysHeld
<1>5. \A j \in Keys \ {k} : records'[j] = records[j]
  BY <1>0 DEF IdemComplete, IdemFail, IInv, TypeOK
<1>6. \A j \in Keys \ {k} : CompletedOK(j)'
  BY <1>2, <1>5, CompletedStays
<1>7. CompletedOK(k)'
  <2>1. CASE records'[k] = records[k] \/ records'[k] = NoRecord
    BY <1>2, <1>5, <2>1, CompletedStays
  <2>2. CASE ~(records'[k] = records[k] \/ records'[k] = NoRecord)
    <3>1. \/ records'[k] = AfterComplete(Found(k), token[c], c)
          \/ records'[k] = AfterFail(Found(k), token[c], c)
      BY <1>0 DEF IdemComplete, IdemFail, IInv, TypeOK
    <3>2. /\ Found(k) = records[k] /\ records[k] # NoRecord
          /\ records[k].token = token[c]
          /\ \/ records'[k] = [records[k] EXCEPT !.status = "Completed", !.body = c]
             \/ records'[k] = [records[k] EXCEPT !.status = "Failed", !.body = c]
      BY <2>2, <3>1, FoundIsStored DEF AfterComplete, AfterFail, TokenMatches
    <3>3. records[k] \in Record
      BY <3>2 DEF IInv, TypeOK
    <3>4. records'[k].body = c /\ records'[k].token = token[c]
      BY <3>2, <3>3 DEF Record
    <3> QED
      BY <1>1, <3>4 DEF CompletedOK
  <2> QED
    BY <2>1, <2>2
<1> QED
  BY <1>3, <1>4, <1>6, <1>7 DEF FlightInv, OwnersHold, CompletedByHolder, CompletedOK

(* Steps that give no token and start nobody, and leave what is found. *)
LEMMA OtherFlight ==
    ASSUME IInv, FlightInv, TypeOK', UNCHANGED <<request, token, until>>, now' >= now,
           \A d \in Clients : phase'[d] = phase[d] \/ phase'[d] \in {"reporting", "done", "crashed"},
           \A j \in Keys : \/ records'[j] = records[j]
                           \/ Found(j) = NoRecord /\ records'[j] = NoRecord
    PROVE  FlightInv'
<1>1. KeepTokens
  BY DEF KeepTokens
<1>2. OneToken'
  BY DEF FlightInv, OneToken
<1>3. ASSUME NEW d \in Clients, phase'[d] = "running", InTime(d)'
      PROVE  Holds(d)' \/ Shared(d)'
  <2>1. now \in Nat /\ now' \in Nat /\ until[d] \in Nat
    BY IdemAssumption DEF IInv, TypeOK
  <2>2. phase[d] = "running" /\ InTime(d)
    BY <1>3, <2>1 DEF InTime, IsExpired
  <2>3. Holds(d) => records'[request[d].key] = records[request[d].key]
    BY <2>2, HeldIsFound DEF Holds
  <2> QED
    BY <1>1, <1>3, <2>2, <2>3, StaysHeld
<1>4. \A j \in Keys : CompletedOK(j)'
  BY <1>1, CompletedStays
<1> QED
  BY <1>2, <1>3, <1>4 DEF FlightInv, OwnersHold, CompletedByHolder, CompletedOK

(* One case per kind of step. *)
LEMMA FlightInductive == IInv /\ FlightInv /\ TypeOK' /\ [Next]_vars => FlightInv'
<1> SUFFICES ASSUME IInv, FlightInv, TypeOK', [Next]_vars PROVE FlightInv'
  OBVIOUS
<1>0. now \in Nat
  BY IdemAssumption DEF IInv, TypeOK
<1>1. ASSUME NEW c \in Clients, Handle(c) \/ Crash(c) \/ ReportLost(c)
      PROVE  FlightInv'
  <2>1. /\ UNCHANGED <<records, now, request, token, until>>
        /\ \A d \in Clients : \/ phase'[d] = phase[d]
                              \/ phase'[d] \in {"reporting", "done", "crashed"}
    BY <1>1 DEF Handle, Crash, ReportLost, storeVars, IInv, TypeOK
  <2> QED
    BY <1>0, <2>1, OtherFlight
<1>2. CASE Tick \/ PurgeBegin \/ UNCHANGED vars
  BY <1>0, <1>2, OtherFlight DEF Tick, PurgeBegin, vars, clientVars
<1>3. CASE PurgeShard \/ \E j \in Keys : IdemGet(j)
  <2>1. UNCHANGED <<request, token, until, now, phase>>
    BY <1>3 DEF PurgeShard, IdemGet, clientVars
  <2>2. ASSUME NEW k \in Keys
        PROVE  \/ records'[k] = records[k]
               \/ Found(k) = NoRecord /\ records'[k] = NoRecord
    <3>1. CASE Found(k) # NoRecord
      BY <1>3, <3>1, FoundStays
    <3>2. CASE Found(k) = NoRecord
      BY <1>3, <3>2 DEF PurgeShard, IdemGet, IInv, TypeOK
    <3> QED
      BY <3>1, <3>2
  <2> QED
    BY <1>0, <2>1, <2>2, OtherFlight
<1> QED
  BY <1>1, <1>2, <1>3, BeginFlight, UnansweredFlight, ReportFlight DEF Next

(***************************************************************************)
(* Whoever runs in time holds the record of its key or shares its claim    *)
(* with middleware, in every reachable state.                              *)
(***************************************************************************)
THEOREM FlightInvariance == Spec => [](IInv /\ FlightInv)
<1>1. Init => FlightInv
  BY DEF Init, FlightInv, OneToken, OwnersHold, CompletedByHolder
<1>2. IInv /\ FlightInv /\ [Next]_vars => (IInv /\ FlightInv)'
  BY TypeInductive, InvInductive, FlightInductive DEF IInv
<1> QED
  BY InitEstablishes, <1>1, <1>2, PTL DEF Spec

(***************************************************************************)
(* Two clients run the handler for one key at the same time, both within   *)
(* their claims, only if middleware that was answered PARK shares the      *)
(* claim of one of them: nothing that is lost, late, repeated or swept     *)
(* makes two clients run that wait when they are told to.                  *)
(***************************************************************************)
THEOREM OnlyPark == Spec => []OnlyParkBreaksSingleFlight
<1>1. IInv /\ FlightInv => OnlyParkBreaksSingleFlight
  <2> SUFFICES ASSUME IInv, FlightInv, NEW c \in Clients, NEW d \in Clients, Collide(c, d)
               PROVE  Shared(c) \/ Shared(d)
    BY DEF OnlyParkBreaksSingleFlight, Shared
  <2>1. (Holds(c) \/ Shared(c)) /\ (Holds(d) \/ Shared(d))
    BY DEF Collide, FlightInv, OwnersHold
  <2>2. CASE Holds(c) /\ Holds(d)
    <3>1. token[c] = token[d] /\ token[c] # NoToken
      BY <2>2 DEF Collide, Holds, FlightInv, OneToken
    <3> QED
      BY <3>1, SameTokenShared DEF Collide, FlightInv
  <2> QED
    BY <2>1, <2>2
<1> QED
  BY FlightInvariance, <1>1, PTL

(* The step behind OnlySharedClaimRevokes. *)
RevokesOnlyShared ==
    \A k \in Keys :
        Found(k) # NoRecord /\ Found(k).status = "Completed" =>
            \/ records'[k] = records[k]
            \/ \E c \in Clients :
                  /\ IdemFail(c)
                  /\ request[c].key = k
                  /\ token[c] = records[k].token
                  /\ c # records[k].body
                  /\ {c, records[k].body} \cap Middleware # {}

(***************************************************************************)
(* A completed record is left alone until it expires, but for a failure    *)
(* report of another client with the same token, one of the two being      *)
(* middleware.                                                             *)
(***************************************************************************)
THEOREM OnlySharedRevokes == Spec => OnlySharedClaimRevokes
<1>1. IInv /\ FlightInv /\ [Next]_vars => RevokesOnlyShared
  <2> SUFFICES ASSUME IInv, FlightInv, [Next]_vars, NEW k \in Keys,
                      Found(k) # NoRecord, Found(k).status = "Completed",
                      records'[k] # records[k]
               PROVE  \E c \in Clients :
                         /\ IdemFail(c)
                         /\ request[c].key = k
                         /\ token[c] = records[k].token
                         /\ c # records[k].body
                         /\ {c, records[k].body} \cap Middleware # {}
    BY DEF RevokesOnlyShared
  <2>1. Found(k) = records[k] /\ records[k] # NoRecord /\ records[k].status = "Completed"
    BY DEF Found
  <2>2. PICK c \in Clients : IdemComplete(c) \/ IdemFail(c)
    <3>1. ~(PurgeShard \/ \E j \in Keys : IdemGet(j))
      BY FoundStays
    <3>2. \A c \in Clients, ttl \in Ttls : ~Begin(c, ttl) /\ ~BeginUnanswered(c, ttl)
      BY <2>1, BeginLeaves DEF Begin, BeginUnanswered
    <3>3. ~Tick /\ ~PurgeBegin /\ ~UNCHANGED vars
      BY DEF Tick, PurgeBegin, vars
    <3>4. \A c \in Clients : ~Handle(c) /\ ~Crash(c) /\ ~ReportLost(c)
      BY DEF Handle, Crash, ReportLost, storeVars
    <3> QED
      BY <3>1, <3>2, <3>3, <3>4 DEF Next
  <2>3. request[c].key = k /\ records[k].token = token[c]
    BY <2>2, ReportLeaves
  <2>4. IdemFail(c) /\ outcome[c] = "err"
    <3>1. IdemComplete(c) => records'[k] = records[k]
      BY <2>1, <2>3 DEF IdemComplete, AfterComplete, IInv, TypeOK
    <3> QED
      BY <2>2, <3>1 DEF IdemFail
  <2>5. /\ records[k].body \in Clients /\ outcome[records[k].body] = "ok"
        /\ token[records[k].body] = records[k].token
    BY <2>1 DEF IInv, RecordInv, FlightInv, CompletedByHolder
  <2>6. c # records[k].body
    BY <2>4, <2>5
  <2>7. records[k].token # NoToken
    BY <2>1, TokensDiffer DEF IInv, TypeOK, Record
  <2>8. {c, records[k].body} \cap Middleware # {}
    BY <2>3, <2>5, <2>6, <2>7, SameTokenShared DEF FlightInv
  <2> QED
    BY <2>3, <2>4, <2>6, <2>8
<1> QED
  BY FlightInvariance, <1>1, PTL DEF Spec, OnlySharedClaimRevokes, RevokesOnlyShared
=============================================================================
