---------------------------- MODULE ChannelProofs ----------------------------
(***************************************************************************)
(* The invariants of Channel, proved for connections of any number of      *)
(* requests, any sizes of requests, answers, reads, buffers and sockets,   *)
(* and any way the bytes are cut into pieces in either direction.          *)
(*                                                                         *)
(* What makes the order of the answers inductive is to look at what was    *)
(* sent and what is unsent as one sequence, wire \o wbuf: writing from the *)
(* buffer leaves it alone, and Send appends to it a piece of one answer,   *)
(* all of it unless the channel is closed on the way.                      *)
(***************************************************************************)
EXTENDS Channel, SequenceTheorems, FiniteSetTheorems, WellFoundedInduction, TLAPS

-----------------------------------------------------------------------------
(* The definitions of Channel over an explicit sequence of requests, or of units. *)

(* e gives, for each request of f, the units up to its end. *)
Ends(e, f) ==
    e = [j \in 0 .. Len(f) |-> IF j = 0 THEN 0 ELSE e[j - 1] + f[j].head + f[j].body]

EndIn(f, i) == (CHOOSE e : Ends(e, f))[i]

(* Whether a stream is refused when the streams s are open, and what is open after r. *)
RefusedIn(s, r) == r.stream # 0 /\ r.stream \notin s /\ Cardinality(s) >= MaxStreams

OpenStep(s, r) ==
    IF r.stream = 0 \/ (r.stream \notin s /\ Cardinality(s) >= MaxStreams) THEN s
    ELSE IF r.last THEN s \ {r.stream} ELSE s \cup {r.stream}

(* o gives the streams open after each request of f. *)
Opens(o, f) == o = [i \in 0 .. Len(f) |-> IF i = 0 THEN {} ELSE OpenStep(o[i - 1], f[i])]

OpenIn(f) == CHOOSE o : Opens(o, f)

KindIn(f, i) == IF RefusedIn(OpenIn(f)[i - 1], f[i]) THEN "tooMany" ELSE "ok"

(* The units of a connection, and the positions of a sequence of them that hold answers. *)
Unit == {"ok", "tooMany", "error", "431"} \X Nat \X (1 .. AnswerSize)

IsAnswer(u) == u[1] \in {"ok", "tooMany"}

AnswersOf(s) == {p \in 1 .. Len(s) : IsAnswer(s[p])}

RankIn(s, p) == Cardinality({q \in AnswersOf(s) : q <= p})

(* InOrder of the sequence s, for the first h requests of f. *)
Ordered(s, f, h) ==
    \A p \in AnswersOf(s) : \E i \in 1 .. h, j \in 1 .. AnswerSize :
        /\ s[p] = <<KindIn(f, i), i, j>>
        /\ RankIn(s, p) = (i - 1) * AnswerSize + j

Count(s) == Cardinality(AnswersOf(s))

-----------------------------------------------------------------------------
(* The inductive invariant *)

Streams == {r.stream : r \in Requests} \ {0}

(* What the peer has sent and read. *)
PeerOK ==
    /\ proto \in Protocols
    /\ reqs \in Seq(Requests)
    /\ Len(reqs) <= MaxRequests
    /\ \A i \in 1 .. Len(reqs) : reqs[i].proto = proto
    /\ arrived \in Nat
    /\ arrived <= EndIn(reqs, Len(reqs))
    /\ hup \in BOOLEAN
    /\ events \subseteq {"IN", "OUT", "HUP"}

(* The read side. *)
ReadOK ==
    /\ received \in Nat /\ base \in Nat /\ decoded \in Nat /\ handled \in Nat
    /\ received <= arrived
    /\ handled <= decoded /\ decoded <= Len(reqs)
    /\ base <= EndIn(reqs, decoded)
    /\ EndIn(reqs, decoded) <= received

(* The GKWP/2 decoder is behind by less than a frame, and holds little it has consumed. *)
DecoderOK ==
    proto = "gkwp2" =>
        /\ received - base <= MaxDecoder
        /\ EndIn(reqs, decoded) - base <= CompactAbove
        /\ decoded < Len(reqs) => received < EndIn(reqs, decoded + 1)

(* The HTTP channel erases each request when it executes it. *)
HttpOK ==
    proto = "http" => decoded = handled /\ base = EndIn(reqs, handled)

(* The open streams are those the order of the requests calls for. *)
StreamsOK ==
    /\ streams \subseteq Streams
    /\ IsFiniteSet(streams)
    /\ Cardinality(streams) <= MaxStreams
    /\ proto = "gkwp2" => streams = OpenIn(reqs)[handled]

(* The write side. *)
WriteOK ==
    /\ wbuf \in Seq(Unit) /\ wire \in Seq(Unit)
    /\ read \in Nat /\ read <= Len(wire) /\ Len(wire) - read <= SocketSize
    /\ armed \in BOOLEAN /\ closing \in BOOLEAN
    /\ proto = "gkwp2" => Len(wbuf) <= MaxWrite /\ ~closing /\ closed # "done"
    /\ ArmedIffUnsent

(* What was sent and what is unsent, one after the other, answers every request in turn. *)
SentOK ==
    /\ Ordered(wire \o wbuf, reqs, handled)
    /\ closed = "open" => Count(wire \o wbuf) = handled * AnswerSize
    /\ closed = "done" => Count(wire) = handled * AnswerSize

CInv ==
    /\ PeerOK /\ ReadOK /\ DecoderOK /\ HttpOK /\ StreamsOK /\ WriteOK /\ SentOK
    /\ LimitLeavesRoom

(* Induction over the natural numbers, with a set for the predicate. *)
LEMMA NatSetInduction ==
    ASSUME NEW P, 0 \in P, \A n \in Nat : n \in P => n + 1 \in P
    PROVE  \A n \in Nat : n \in P
<1> DEFINE below == {p \in Nat \X Nat : p[1] < p[2]}
           bad == Nat \ P
<1>1. IsWellFoundedOn(below, Nat)
  BY NatLessThanWellFounded DEF OpToRel
<1> SUFFICES ASSUME bad # {} PROVE FALSE
  OBVIOUS
<1>2. bad \subseteq Nat
  OBVIOUS
<1> HIDE DEF below, bad
<1>3. PICK m \in bad : \A n \in bad : ~(<<n, m>> \in below)
  BY <1>1, <1>2, WFMin
<1>4. m \in Nat /\ m # 0 /\ m \notin P
  BY <1>3, <1>2 DEF bad
<1>5. m - 1 \in Nat /\ <<m - 1, m>> \in below
  BY <1>4 DEF below
<1>6. m - 1 \in P
  BY <1>3, <1>5 DEF bad
<1>7. (m - 1) + 1 \in P
  BY <1>5, <1>6
<1> QED
  BY <1>4, <1>7


-----------------------------------------------------------------------------
(* Functions defined by recursion over the positions of a sequence. *)

(* What a function defined by recursion is at each point. *)
Recurs(g, a, n, F) == g = [j \in 0 .. n |-> IF j = 0 THEN a ELSE F[<<g[j - 1], j>>]]

(* Such a function exists. *)
LEMMA RecursionExists ==
    ASSUME NEW T, NEW a \in T, NEW n \in Nat, NEW F \in [T \X (1 .. n) -> T]
    PROVE  \E g \in [0 .. n -> T] : Recurs(g, a, n, F)
<1> DEFINE P == {k \in Nat : k <= n =>
                    \E g \in [0 .. k -> T] :
                        g[0] = a /\ \A j \in 1 .. k : g[j] = F[<<g[j - 1], j>>]}
<1>1. 0 \in P
  <2> DEFINE g == [j \in 0 .. 0 |-> a]
  <2>1. g \in [0 .. 0 -> T] /\ g[0] = a /\ \A j \in 1 .. 0 : g[j] = F[<<g[j - 1], j>>]
    OBVIOUS
  <2> QED
    BY <2>1
<1>2. \A k \in Nat : k \in P => k + 1 \in P
  <2> TAKE k \in Nat
  <2> HAVE k \in P
  <2> SUFFICES ASSUME k + 1 <= n
               PROVE  \E g \in [0 .. k + 1 -> T] :
                          g[0] = a /\ \A j \in 1 .. k + 1 : g[j] = F[<<g[j - 1], j>>]
    OBVIOUS
  <2>1. PICK h \in [0 .. k -> T] : h[0] = a /\ \A j \in 1 .. k : h[j] = F[<<h[j - 1], j>>]
    OBVIOUS
  <2> DEFINE v == F[<<h[k], k + 1>>]
             g == [j \in 0 .. k + 1 |-> IF j = k + 1 THEN v ELSE h[j]]
  <2>2. v \in T
    <3>1. h[k] \in T /\ k + 1 \in 1 .. n
      OBVIOUS
    <3>2. <<h[k], k + 1>> \in T \X (1 .. n)
      BY <3>1
    <3> QED
      BY <3>2
  <2> HIDE DEF v
  <2>3. g \in [0 .. k + 1 -> T] /\ g[0] = a
    BY <2>1, <2>2
  <2>4. ASSUME NEW j \in 1 .. k + 1 PROVE g[j] = F[<<g[j - 1], j>>]
    <3>1. g[j - 1] = h[j - 1]
      OBVIOUS
    <3>2. CASE j = k + 1
      <4>1. g[j] = v /\ j - 1 = k
        BY <3>2
      <4> HIDE DEF g
      <4> QED
        BY <3>1, <3>2, <4>1 DEF v
    <3>3. CASE j # k + 1
      BY <3>1, <3>3, <2>1
    <3> QED
      BY <3>2, <3>3
  <2> QED
    BY <2>3, <2>4
<1> HIDE DEF P
<1>3. n \in P
  BY <1>1, <1>2, NatSetInduction
<1>4. PICK g \in [0 .. n -> T] : g[0] = a /\ \A j \in 1 .. n : g[j] = F[<<g[j - 1], j>>]
  BY <1>3 DEF P
<1>5. \A j \in 0 .. n : g[j] = IF j = 0 THEN a ELSE F[<<g[j - 1], j>>]
  BY <1>4
<1>6. g = [j \in 0 .. n |-> IF j = 0 THEN a ELSE F[<<g[j - 1], j>>]]
  BY <1>5, Zenon
<1> QED
  BY <1>6 DEF Recurs

(* The units up to the end of each request: where EndIn starts and how it grows. *)
LEMMA EndSteps ==
    ASSUME NEW f \in Seq(Requests)
    PROVE  /\ EndIn(f, 0) = 0
           /\ \A j \in 1 .. Len(f) : EndIn(f, j) = EndIn(f, j - 1) + f[j].head + f[j].body
           /\ \A j \in 0 .. Len(f) : EndIn(f, j) \in Nat
<1> DEFINE n == Len(f)
           F == [p \in Nat \X (1 .. n) |-> p[1] + f[p[2]].head + f[p[2]].body]
<1>1. n \in Nat
  OBVIOUS
<1>2. \A j \in 1 .. n : f[j].head \in Nat /\ f[j].body \in Nat
  <2> TAKE j \in 1 .. n
  <2>1. f[j] \in Request
    BY ChannelAssumption
  <2> QED
    BY <2>1 DEF Request
<1>3. F \in [Nat \X (1 .. n) -> Nat]
  <2>1. ASSUME NEW p \in Nat \X (1 .. n) PROVE p[1] + f[p[2]].head + f[p[2]].body \in Nat
    BY <1>2
  <2> QED
    BY <2>1
<1>4. \A v \in Nat, j \in 1 .. n : F[<<v, j>>] = v + f[j].head + f[j].body
  OBVIOUS
<1> HIDE DEF F
<1>5. PICK g \in [0 .. n -> Nat] : Recurs(g, 0, n, F)
  <2> HIDE DEF n
  <2> QED
    BY <1>1, <1>3, RecursionExists
<1>6. Ends(g, f)
  <2>1. \A j \in 0 .. n : g[j] = IF j = 0 THEN 0 ELSE g[j - 1] + f[j].head + f[j].body
    <3> TAKE j \in 0 .. n
    <3>1. g[j] = IF j = 0 THEN 0 ELSE F[<<g[j - 1], j>>]
      BY <1>5 DEF Recurs
    <3>2. CASE j = 0
      BY <3>1, <3>2
    <3>3. CASE j # 0
      <4>1. j \in 1 .. n /\ g[j - 1] \in Nat
        BY <3>3
      <4> QED
        BY <3>1, <3>3, <4>1, <1>4
    <3> QED
      BY <3>2, <3>3
  <2>2. g = [j \in 0 .. n |-> IF j = 0 THEN 0 ELSE g[j - 1] + f[j].head + f[j].body]
    BY <2>1, Zenon
  <2> QED
    BY <2>2 DEF Ends
<1> DEFINE e == CHOOSE d : Ends(d, f)
<1>7. Ends(e, f)
  BY <1>6
<1>8. \A j : EndIn(f, j) = e[j]
  BY DEF EndIn
<1> HIDE DEF e
<1>9. \A j \in 0 .. n : e[j] = IF j = 0 THEN 0 ELSE e[j - 1] + f[j].head + f[j].body
  BY <1>7 DEF Ends
<1>10. e[0] = 0 /\ \A j \in 1 .. n : e[j] = e[j - 1] + f[j].head + f[j].body
  BY <1>9
<1> DEFINE P == {j \in Nat : j <= n => e[j] \in Nat}
<1>11. 0 \in P
  BY <1>10
<1>12. \A j \in Nat : j \in P => j + 1 \in P
  <2> TAKE j \in Nat
  <2> HAVE j \in P
  <2> SUFFICES ASSUME j + 1 <= n PROVE e[j + 1] \in Nat
    OBVIOUS
  <2>1. j + 1 \in 1 .. n /\ e[j] \in Nat /\ (j + 1) - 1 = j
    OBVIOUS
  <2>2. e[j + 1] = e[j] + f[j + 1].head + f[j + 1].body
    BY <2>1, <1>10
  <2> QED
    BY <2>1, <2>2, <1>2
<1> HIDE DEF P
<1>13. \A j \in Nat : j \in P
  BY <1>11, <1>12, NatSetInduction
<1>14. \A j \in 0 .. n : e[j] \in Nat
  BY <1>13 DEF P
<1> QED
  BY <1>8, <1>10, <1>14

(* EndOf is EndIn of the requests. *)
LEMMA EndOfIs == \A i : EndOf(i) = EndIn(reqs, i)
  BY DEF EndOf, EndIn, Ends

(* A request more leaves the ends of the earlier ones where they are. *)
LEMMA EndAppend ==
    ASSUME NEW f \in Seq(Requests), NEW r \in Requests
    PROVE  \A j \in 0 .. Len(f) : EndIn(Append(f, r), j) = EndIn(f, j)
<1> DEFINE g == Append(f, r)
           P == {j \in Nat : j <= Len(f) => EndIn(g, j) = EndIn(f, j)}
<1>1. g \in Seq(Requests) /\ Len(g) = Len(f) + 1 /\ \A j \in 1 .. Len(f) : g[j] = f[j]
  OBVIOUS
<1> HIDE DEF g
<1>2. EndIn(g, 0) = 0 /\ \A j \in 1 .. Len(g) :
          EndIn(g, j) = EndIn(g, j - 1) + g[j].head + g[j].body
  BY <1>1, EndSteps
<1>3. EndIn(f, 0) = 0 /\ \A j \in 1 .. Len(f) :
          EndIn(f, j) = EndIn(f, j - 1) + f[j].head + f[j].body
  BY EndSteps
<1>4. 0 \in P
  BY <1>2, <1>3
<1>5. \A j \in Nat : j \in P => j + 1 \in P
  <2> TAKE j \in Nat
  <2> HAVE j \in P
  <2> SUFFICES ASSUME j + 1 <= Len(f) PROVE EndIn(g, j + 1) = EndIn(f, j + 1)
    OBVIOUS
  <2>1. /\ j + 1 \in 1 .. Len(f) /\ j + 1 \in 1 .. Len(g)
        /\ EndIn(g, j) = EndIn(f, j) /\ (j + 1) - 1 = j
    BY <1>1
  <2>2. EndIn(g, j + 1) = EndIn(g, j) + g[j + 1].head + g[j + 1].body
    BY <2>1, <1>2
  <2>3. EndIn(f, j + 1) = EndIn(f, j) + f[j + 1].head + f[j + 1].body
    BY <2>1, <1>3
  <2>4. g[j + 1] = f[j + 1]
    BY <2>1, <1>1
  <2> QED
    BY <2>1, <2>2, <2>3, <2>4
<1> HIDE DEF P
<1>6. \A j \in Nat : j \in P
  BY <1>4, <1>5, NatSetInduction
<1> QED
  BY <1>6 DEF P, g

(* A later request ends later. *)
LEMMA EndGrows ==
    ASSUME NEW f \in Seq(Requests), NEW i \in 0 .. Len(f), NEW j \in 0 .. Len(f), i <= j
    PROVE  EndIn(f, i) <= EndIn(f, j) /\ (i < j => EndIn(f, i) < EndIn(f, j))
<1> DEFINE P == {k \in Nat : i + k <= Len(f) =>
                    EndIn(f, i) <= EndIn(f, i + k) /\ (0 < k => EndIn(f, i) < EndIn(f, i + k))}
<1>1. EndIn(f, 0) = 0 /\ \A k \in 1 .. Len(f) :
          EndIn(f, k) = EndIn(f, k - 1) + f[k].head + f[k].body
  BY EndSteps
<1>2. \A k \in 0 .. Len(f) : EndIn(f, k) \in Nat
  BY EndSteps
<1>3. 0 \in P
  <2>1. i + 0 = i /\ EndIn(f, i) \in Nat
    BY <1>2
  <2> QED
    BY <2>1
<1>4. \A k \in Nat : k \in P => k + 1 \in P
  <2> TAKE k \in Nat
  <2> HAVE k \in P
  <2> SUFFICES ASSUME i + (k + 1) <= Len(f) PROVE EndIn(f, i) < EndIn(f, i + (k + 1))
    BY <1>2
  <2> DEFINE m == i + k + 1
  <2>1. m \in 1 .. Len(f) /\ m - 1 = i + k /\ i + k \in 0 .. Len(f) /\ i + (k + 1) = m
    OBVIOUS
  <2> HIDE DEF m
  <2>2. f[m] \in Request
    BY <2>1, ChannelAssumption
  <2>3. f[m].head \in Nat \ {0} /\ f[m].body \in Nat
    BY <2>2 DEF Request
  <2>4. EndIn(f, m) = EndIn(f, i + k) + f[m].head + f[m].body
    BY <2>1, <1>1
  <2>5. EndIn(f, i) <= EndIn(f, i + k) /\ EndIn(f, i) \in Nat /\ EndIn(f, i + k) \in Nat
    BY <2>1, <1>2
  <2> QED
    BY <2>1, <2>3, <2>4, <2>5
<1> HIDE DEF P
<1>5. \A k \in Nat : k \in P
  BY <1>3, <1>4, NatSetInduction
<1>6. j - i \in P /\ i + (j - i) = j
  BY <1>5
<1> QED
  BY <1>6 DEF P
(* The streams open after each request. *)
LEMMA OpenSteps ==
    ASSUME NEW f \in Seq(Requests)
    PROVE  /\ OpenIn(f)[0] = {}
           /\ \A j \in 1 .. Len(f) : OpenIn(f)[j] = OpenStep(OpenIn(f)[j - 1], f[j])
<1> DEFINE n == Len(f)
           T == SUBSET Streams
           F == [p \in T \X (1 .. n) |-> OpenStep(p[1], f[p[2]])]
<1>1. n \in Nat /\ {} \in T
  OBVIOUS
<1>2. \A s \in T, j \in 1 .. n : OpenStep(s, f[j]) \in T
  <2> TAKE s \in T, j \in 1 .. n
  <2>1. f[j] \in Requests
    OBVIOUS
  <2>2. f[j].stream # 0 => f[j].stream \in Streams
    BY <2>1 DEF Streams
  <2> QED
    BY <2>2 DEF OpenStep
<1>3. F \in [T \X (1 .. n) -> T]
  <2>1. ASSUME NEW p \in T \X (1 .. n) PROVE OpenStep(p[1], f[p[2]]) \in T
    <3>1. p[1] \in T /\ p[2] \in 1 .. n
      OBVIOUS
    <3> HIDE DEF T
    <3> QED
      BY <3>1, <1>2
  <2> HIDE DEF T
  <2> QED
    BY <2>1
<1>4. \A s \in T, j \in 1 .. n : F[<<s, j>>] = OpenStep(s, f[j])
  <2> HIDE DEF T
  <2> QED
    OBVIOUS
<1> HIDE DEF F, T
<1>5. PICK g \in [0 .. n -> T] : Recurs(g, {}, n, F)
  <2> HIDE DEF n
  <2> QED
    BY <1>1, <1>3, RecursionExists
<1>6. Opens(g, f)
  <2>1. \A j \in 0 .. n : g[j] = IF j = 0 THEN {} ELSE OpenStep(g[j - 1], f[j])
    <3> TAKE j \in 0 .. n
    <3>1. g[j] = IF j = 0 THEN {} ELSE F[<<g[j - 1], j>>]
      BY <1>5 DEF Recurs
    <3>2. CASE j = 0
      BY <3>1, <3>2
    <3>3. CASE j # 0
      <4>1. j \in 1 .. n /\ g[j - 1] \in T
        BY <3>3
      <4> QED
        BY <3>1, <3>3, <4>1, <1>4
    <3> QED
      BY <3>2, <3>3
  <2>2. g = [j \in 0 .. n |-> IF j = 0 THEN {} ELSE OpenStep(g[j - 1], f[j])]
    BY <2>1, Zenon
  <2> QED
    BY <2>2 DEF Opens
<1> DEFINE o == CHOOSE d : Opens(d, f)
<1>7. Opens(o, f)
  BY <1>6
<1>8. OpenIn(f) = o
  BY DEF OpenIn
<1> HIDE DEF o
<1>9. \A j \in 0 .. n : o[j] = IF j = 0 THEN {} ELSE OpenStep(o[j - 1], f[j])
  BY <1>7 DEF Opens
<1> QED
  BY <1>8, <1>9

(* OpenAfter and Kind are OpenIn and KindIn of the requests. *)
LEMMA KindIs == OpenAfter = OpenIn(reqs) /\ \A i : Kind(i) = KindIn(reqs, i)
<1>1. OpenAfter = OpenIn(reqs)
  BY DEF OpenAfter, OpenIn, Opens, OpenStep
<1> QED
  BY <1>1 DEF Kind, KindIn, RefusedIn

(* A request more changes neither the streams nor the answers of the earlier ones. *)
LEMMA OpenAppend ==
    ASSUME NEW f \in Seq(Requests), NEW r \in Requests
    PROVE  /\ \A j \in 0 .. Len(f) : OpenIn(Append(f, r))[j] = OpenIn(f)[j]
           /\ \A j \in 1 .. Len(f) : KindIn(Append(f, r), j) = KindIn(f, j)
<1> DEFINE g == Append(f, r)
           P == {j \in Nat : j <= Len(f) => OpenIn(g)[j] = OpenIn(f)[j]}
<1>1. g \in Seq(Requests) /\ Len(g) = Len(f) + 1 /\ \A j \in 1 .. Len(f) : g[j] = f[j]
  OBVIOUS
<1> HIDE DEF g
<1>2. OpenIn(g)[0] = {} /\ \A j \in 1 .. Len(g) : OpenIn(g)[j] = OpenStep(OpenIn(g)[j - 1], g[j])
  BY <1>1, OpenSteps
<1>3. OpenIn(f)[0] = {} /\ \A j \in 1 .. Len(f) : OpenIn(f)[j] = OpenStep(OpenIn(f)[j - 1], f[j])
  BY OpenSteps
<1>4. 0 \in P
  BY <1>2, <1>3
<1>5. \A j \in Nat : j \in P => j + 1 \in P
  <2> TAKE j \in Nat
  <2> HAVE j \in P
  <2> SUFFICES ASSUME j + 1 <= Len(f) PROVE OpenIn(g)[j + 1] = OpenIn(f)[j + 1]
    OBVIOUS
  <2>1. /\ j + 1 \in 1 .. Len(f) /\ j + 1 \in 1 .. Len(g)
        /\ OpenIn(g)[j] = OpenIn(f)[j] /\ (j + 1) - 1 = j
    BY <1>1
  <2>2. OpenIn(g)[j + 1] = OpenStep(OpenIn(g)[j], g[j + 1])
    BY <2>1, <1>2
  <2>3. OpenIn(f)[j + 1] = OpenStep(OpenIn(f)[j], f[j + 1])
    BY <2>1, <1>3
  <2>4. g[j + 1] = f[j + 1]
    BY <2>1, <1>1
  <2> QED
    BY <2>1, <2>2, <2>3, <2>4
<1> HIDE DEF P
<1>6. \A j \in Nat : j \in P
  BY <1>4, <1>5, NatSetInduction
<1>7. \A j \in 0 .. Len(f) : OpenIn(g)[j] = OpenIn(f)[j]
  BY <1>6 DEF P
<1>8. \A j \in 1 .. Len(f) : KindIn(g, j) = KindIn(f, j)
  <2> TAKE j \in 1 .. Len(f)
  <2>1. g[j] = f[j] /\ OpenIn(g)[j - 1] = OpenIn(f)[j - 1]
    BY <1>1, <1>7
  <2> QED
    BY <2>1 DEF KindIn
<1> QED
  BY <1>7, <1>8 DEF g

-----------------------------------------------------------------------------
(* Answers in a sequence of units. *)

(* The answers of a sequence are finitely many. *)
LEMMA AnswersFinite ==
    ASSUME NEW s \in Seq(Unit)
    PROVE  /\ IsFiniteSet(AnswersOf(s)) /\ Count(s) \in Nat
           /\ \A p : {q \in AnswersOf(s) : q <= p} \subseteq AnswersOf(s)
<1>1. IsFiniteSet(1 .. Len(s))
  BY FS_Interval
<1>2. AnswersOf(s) \subseteq 1 .. Len(s)
  BY DEF AnswersOf
<1>3. IsFiniteSet(AnswersOf(s))
  BY <1>1, <1>2, FS_Subset
<1>4. Count(s) \in Nat
  BY <1>3, FS_CardinalityType DEF Count
<1> QED
  BY <1>3, <1>4

(* A unit more: it is an answer after all the others, or it is none. *)
LEMMA UnitMore ==
    ASSUME NEW s \in Seq(Unit), NEW u \in Unit
    PROVE  LET t == Append(s, u)
           IN  /\ IsAnswer(u) => /\ AnswersOf(t) = AnswersOf(s) \cup {Len(s) + 1}
                                 /\ Count(t) = Count(s) + 1
                                 /\ RankIn(t, Len(s) + 1) = Count(s) + 1
               /\ ~IsAnswer(u) => AnswersOf(t) = AnswersOf(s) /\ Count(t) = Count(s)
               /\ \A p \in AnswersOf(s) : t[p] = s[p] /\ RankIn(t, p) = RankIn(s, p)
<1> DEFINE t == Append(s, u)
           n == Len(s) + 1
<1>1. /\ Len(t) = n /\ n \in Nat /\ Len(s) \in Nat
      /\ t[n] = u /\ \A p \in 1 .. Len(s) : t[p] = s[p]
  OBVIOUS
<1> HIDE DEF t
<1>2. AnswersOf(s) \subseteq 1 .. Len(s) /\ n \notin AnswersOf(s)
  BY DEF AnswersOf
<1>3. ASSUME IsAnswer(u) PROVE AnswersOf(t) = AnswersOf(s) \cup {n}
  BY <1>1, <1>3 DEF AnswersOf
<1>4. ASSUME ~IsAnswer(u) PROVE AnswersOf(t) = AnswersOf(s)
  BY <1>1, <1>4 DEF AnswersOf
<1>5. IsFiniteSet(AnswersOf(s))
  BY AnswersFinite
<1>6. ASSUME IsAnswer(u)
      PROVE  Count(t) = Count(s) + 1 /\ RankIn(t, n) = Count(s) + 1
  <2>1. Cardinality(AnswersOf(s) \cup {n}) = Cardinality(AnswersOf(s)) + 1
    BY <1>2, <1>5, FS_AddElement
  <2>2. {q \in AnswersOf(t) : q <= n} = AnswersOf(t)
    BY <1>3, <1>6, <1>2, <1>1
  <2> QED
    BY <1>3, <1>6, <2>1, <2>2 DEF Count, RankIn
<1>7. ASSUME NEW p \in AnswersOf(s) PROVE t[p] = s[p] /\ RankIn(t, p) = RankIn(s, p)
  <2>1. p \in 1 .. Len(s)
    BY <1>2
  <2>2. {q \in AnswersOf(t) : q <= p} = {q \in AnswersOf(s) : q <= p}
    BY <2>1, <1>1, <1>3, <1>4, <1>2
  <2> QED
    BY <2>1, <2>2, <1>1 DEF RankIn
<1> QED
  BY <1>3, <1>4, <1>6, <1>7 DEF Count, t

(* The answers at the front of a sequence of units keep their ranks. *)
LEMMA FrontRanks ==
    ASSUME NEW s \in Seq(Unit), NEW t \in Seq(Unit), NEW p \in AnswersOf(s)
    PROVE  p \in AnswersOf(s \o t) /\ (s \o t)[p] = s[p] /\ RankIn(s \o t, p) = RankIn(s, p)
<1> DEFINE w == s \o t
<1>1. /\ Len(w) = Len(s) + Len(t) /\ Len(s) \in Nat /\ Len(t) \in Nat
      /\ \A q \in 1 .. Len(s) : w[q] = s[q]
  OBVIOUS
<1> HIDE DEF w
<1>2. p \in 1 .. Len(s)
  BY DEF AnswersOf
<1>3. {q \in AnswersOf(w) : q <= p} = {q \in AnswersOf(s) : q <= p}
  BY <1>1, <1>2 DEF AnswersOf
<1>4. p \in AnswersOf(w) /\ w[p] = s[p]
  BY <1>1, <1>2 DEF AnswersOf
<1> QED
  BY <1>3, <1>4 DEF RankIn, w

(* What is in order up to the end is in order up to any earlier point. *)
LEMMA FrontOrdered ==
    ASSUME NEW s \in Seq(Unit), NEW t \in Seq(Unit), NEW f, NEW h \in Nat,
           Ordered(s \o t, f, h)
    PROVE  Ordered(s, f, h)
<1> SUFFICES ASSUME NEW p \in AnswersOf(s)
             PROVE  \E i \in 1 .. h, j \in 1 .. AnswerSize :
                        s[p] = <<KindIn(f, i), i, j>> /\ RankIn(s, p) = (i - 1) * AnswerSize + j
  BY DEF Ordered
<1>1. p \in AnswersOf(s \o t) /\ (s \o t)[p] = s[p] /\ RankIn(s \o t, p) = RankIn(s, p)
  BY FrontRanks
<1>2. PICK i \in 1 .. h, j \in 1 .. AnswerSize :
          (s \o t)[p] = <<KindIn(f, i), i, j>> /\ RankIn(s \o t, p) = (i - 1) * AnswerSize + j
  BY <1>1 DEF Ordered
<1> QED
  BY <1>1, <1>2

(* What is in order stays so when more requests are handled or come in. *)
LEMMA OrderedLater ==
    ASSUME NEW s \in Seq(Unit), NEW f, NEW g, NEW h \in Nat, NEW k \in Nat, h <= k,
           \A i \in 1 .. h : KindIn(g, i) = KindIn(f, i),
           Ordered(s, f, h)
    PROVE  Ordered(s, g, k)
<1> SUFFICES ASSUME NEW p \in AnswersOf(s)
             PROVE  \E i \in 1 .. k, j \in 1 .. AnswerSize :
                        s[p] = <<KindIn(g, i), i, j>> /\ RankIn(s, p) = (i - 1) * AnswerSize + j
  BY DEF Ordered
<1>1. PICK i \in 1 .. h, j \in 1 .. AnswerSize :
          s[p] = <<KindIn(f, i), i, j>> /\ RankIn(s, p) = (i - 1) * AnswerSize + j
  BY DEF Ordered
<1>2. i \in 1 .. k
  OBVIOUS
<1> QED
  BY <1>1, <1>2
-----------------------------------------------------------------------------
(* Sequences and bounds. *)

(* The sizes of a channel are natural numbers. *)
LEMMA Sizes ==
    /\ AnswerSize \in Nat \ {0} /\ ReadSize \in Nat \ {0}
    /\ SocketSize \in Nat \ {0} /\ HeaderSize \in Nat \ {0}
    /\ MaxRequests \in Nat /\ MaxPayload \in Nat /\ MaxDecoder \in Nat
    /\ CompactAbove \in Nat /\ MaxHead \in Nat /\ MaxStreams \in Nat /\ MaxWrite \in Nat
  BY ChannelAssumption

(* The smaller of two numbers. *)
LEMMA MinOfTwo ==
    ASSUME NEW a \in Int, NEW b \in Int
    PROVE  Min({a, b}) = IF a <= b THEN a ELSE b
<1> DEFINE c == IF a <= b THEN a ELSE b
<1>1. c \in {a, b} /\ \A y \in {a, b} : c <= y
  OBVIOUS
<1>2. \A x \in {a, b} : (\A y \in {a, b} : x <= y) => x = c
  OBVIOUS
<1> HIDE DEF c
<1>3. Min({a, b}) = c
  BY <1>1, <1>2 DEF Min
<1> QED
  BY <1>3 DEF c

(* The largest number of a set that is bounded. *)
LEMMA MaxExists ==
    ASSUME NEW a \in Nat, NEW b \in Nat, NEW S \in SUBSET (a .. b), S # {}
    PROVE  Max(S) \in S /\ \A y \in S : Max(S) >= y
<1> SUFFICES \E x \in S : \A y \in S : x >= y
  BY DEF Max
<1> DEFINE P == {k \in Nat : \A i \in S : i + k >= b => \E x \in S : \A y \in S : x >= y}
<1>1. 0 \in P
  <2> SUFFICES ASSUME NEW i \in S, i + 0 >= b PROVE \E x \in S : \A y \in S : x >= y
    OBVIOUS
  <2>1. \A y \in S : i >= y
    OBVIOUS
  <2> QED
    BY <2>1
<1>2. \A k \in Nat : k \in P => k + 1 \in P
  <2> TAKE k \in Nat
  <2> HAVE k \in P
  <2> SUFFICES ASSUME NEW i \in S, i + (k + 1) >= b PROVE \E x \in S : \A y \in S : x >= y
    OBVIOUS
  <2>1. CASE \A y \in S : i >= y
    BY <2>1
  <2>2. CASE \E y \in S : ~(i >= y)
    <3>1. PICK y \in S : ~(i >= y)
      BY <2>2
    <3>2. y + k >= b
      BY <3>1
    <3> QED
      BY <3>2
  <2> QED
    BY <2>1, <2>2
<1> HIDE DEF P
<1>3. \A k \in Nat : k \in P
  BY <1>1, <1>2, NatSetInduction
<1>4. PICK i \in S : TRUE
  OBVIOUS
<1>5. b \in P /\ i + b >= b
  BY <1>3, <1>4
<1> QED
  BY <1>4, <1>5 DEF P

(* A sequence of units cut in two. *)
LEMMA CutUnits ==
    ASSUME NEW s \in Seq(Unit), NEW n \in 0 .. Len(s)
    PROVE  /\ SubSeq(s, 1, n) \in Seq(Unit) /\ Len(SubSeq(s, 1, n)) = n
           /\ SubSeq(s, n + 1, Len(s)) \in Seq(Unit)
           /\ Len(SubSeq(s, n + 1, Len(s))) = Len(s) - n
           /\ SubSeq(s, 1, n) \o SubSeq(s, n + 1, Len(s)) = s
<1>1. Len(s) \in Nat /\ n \in Nat
  OBVIOUS
<1>2. SubSeq(s, 1, n) \in Seq(Unit) /\ Len(SubSeq(s, 1, n)) = n
  <2>1. \A i \in 1 .. n : s[i] \in Unit
    OBVIOUS
  <2>2. /\ SubSeq(s, 1, n) \in Seq(Unit)
        /\ Len(SubSeq(s, 1, n)) = IF 1 <= n THEN n - 1 + 1 ELSE 0
    BY <1>1, <2>1, SubSeqProperties
  <2> QED
    BY <1>1, <2>2
<1>3. /\ SubSeq(s, n + 1, Len(s)) \in Seq(Unit)
      /\ Len(SubSeq(s, n + 1, Len(s))) = Len(s) - n
  <2>1. \A i \in n + 1 .. Len(s) : s[i] \in Unit
    OBVIOUS
  <2>2. n + 1 \in Int /\ Len(s) \in Int
    OBVIOUS
  <2>3. /\ SubSeq(s, n + 1, Len(s)) \in Seq(Unit)
        /\ Len(SubSeq(s, n + 1, Len(s))) = IF n + 1 <= Len(s) THEN Len(s) - (n + 1) + 1 ELSE 0
    BY <2>1, <2>2, SubSeqProperties
  <2> QED
    BY <1>1, <2>3
<1>4. SubSeq(s, 1, n) \o SubSeq(s, n + 1, Len(s)) = SubSeq(s, 1, Len(s))
  <2>1. 1 \in 1 .. Len(s) + 1 /\ n \in 1 - 1 .. Len(s) /\ Len(s) \in n .. Len(s)
    OBVIOUS
  <2> QED
    BY <2>1, ConcatAdjacentSubSeq
<1>5. SubSeq(s, 1, Len(s)) = s
  BY SubSeqFull
<1> QED
  BY <1>2, <1>3, <1>4, <1>5

(* One unit more of a piece of an answer. *)
LEMMA PieceMore ==
    ASSUME NEW s \in Seq(Unit), NEW d \in Seq(Unit), NEW m \in Nat, m + 1 <= Len(d)
    PROVE  /\ s \o SubSeq(d, 1, m) \in Seq(Unit) /\ d[m + 1] \in Unit
           /\ s \o SubSeq(d, 1, m + 1) = Append(s \o SubSeq(d, 1, m), d[m + 1])
<1> DEFINE a == SubSeq(d, 1, m)
<1>1. a \in Seq(Unit)
  <2>1. m \in 0 .. Len(d)
    OBVIOUS
  <2> QED
    BY <2>1, CutUnits
<1>2. m + 1 \in 1 .. Len(d) /\ d[m + 1] \in Unit
  OBVIOUS
<1>3. SubSeq(d, 1, m + 1) = a \o <<d[m + 1]>>
  <2>1. 1 \in 1 .. Len(d) /\ m + 1 \in 1 .. Len(d) /\ (m + 1) - 1 = m
    OBVIOUS
  <2>2. SubSeq(d, 1, m + 1) = SubSeq(d, 1, (m + 1) - 1) \o <<d[m + 1]>>
    BY <2>1, SubSeqRecursiveSecond
  <2> QED
    BY <2>1, <2>2
<1> HIDE DEF a
<1>4. s \o a \in Seq(Unit)
  BY <1>1, ConcatProperties
<1>5. <<d[m + 1]>> \in Seq(Unit)
  BY <1>2
<1>6. (s \o a) \o <<d[m + 1]>> = s \o (a \o <<d[m + 1]>>)
  BY <1>1, <1>5, ConcatAssociative
<1>7. Append(s \o a, d[m + 1]) = (s \o a) \o <<d[m + 1]>>
  BY <1>4, <1>2, AppendIsConcat
<1> QED
  BY <1>2, <1>3, <1>4, <1>6, <1>7 DEF a

(* The units of one answer. *)
LEMMA UnitsAre ==
    ASSUME NEW kind \in {"ok", "tooMany", "error", "431"}, NEW i \in Nat
    PROVE  /\ Units(kind, i) \in Seq(Unit) /\ Len(Units(kind, i)) = AnswerSize
           /\ \A p \in 1 .. AnswerSize : Units(kind, i)[p] = <<kind, i, p>>
<1>1. AnswerSize \in Nat
  BY Sizes
<1>2. Units(kind, i) \in [1 .. AnswerSize -> Unit]
  BY DEF Units, Unit
<1> QED
  BY <1>1, <1>2 DEF Units

(* The first m units of the answer to request h + 1 follow the answers to the first h. *)
LEMMA AnswerPiece ==
    ASSUME NEW s \in Seq(Unit), NEW f, NEW h \in Nat, NEW m \in 0 .. AnswerSize,
           Ordered(s, f, h), Count(s) = h * AnswerSize
    PROVE  LET t == s \o SubSeq(Units(KindIn(f, h + 1), h + 1), 1, m)
           IN  Ordered(t, f, h + 1) /\ Count(t) = h * AnswerSize + m
<1> DEFINE kind == KindIn(f, h + 1)
           d == Units(kind, h + 1)
           t(k) == s \o SubSeq(d, 1, k)
           P == {k \in Nat : k <= AnswerSize =>
                    Ordered(t(k), f, h + 1) /\ Count(t(k)) = h * AnswerSize + k}
<1>1. kind \in {"ok", "tooMany"}
  BY DEF KindIn
<1> HIDE DEF kind
<1>2. /\ d \in Seq(Unit) /\ Len(d) = AnswerSize
      /\ \A p \in 1 .. AnswerSize : d[p] = <<kind, h + 1, p>>
  BY <1>1, UnitsAre
<1>3. AnswerSize \in Nat /\ h * AnswerSize \in Nat
  BY Sizes
<1> HIDE DEF d
<1>4. 0 \in P
  <2>1. SubSeq(d, 1, 0) = <<>>
    BY SubSeqEmpty
  <2>2. t(0) = s
    BY <2>1, ConcatEmptySeq
  <2>3. Ordered(s, f, h + 1)
    BY OrderedLater
  <2> HIDE DEF t
  <2>4. Ordered(t(0), f, h + 1)
    BY <2>2, <2>3
  <2>5. Count(t(0)) = h * AnswerSize + 0
    BY <2>2, <1>3
  <2> QED
    BY <2>4, <2>5
<1>5. \A k \in Nat : k \in P => k + 1 \in P
  <2> TAKE k \in Nat
  <2> HAVE k \in P
  <2> SUFFICES ASSUME k + 1 <= AnswerSize
               PROVE  Ordered(t(k + 1), f, h + 1) /\ Count(t(k + 1)) = h * AnswerSize + (k + 1)
    OBVIOUS
  <2>1. Ordered(t(k), f, h + 1) /\ Count(t(k)) = h * AnswerSize + k
    BY <1>3
  <2> DEFINE a == t(k)
             u == d[k + 1]
  <2>2. a \in Seq(Unit) /\ u \in Unit /\ t(k + 1) = Append(a, u)
    BY <1>2, PieceMore
  <2>3. u = <<kind, h + 1, k + 1>>
    BY <1>2, <1>3
  <2>4. IsAnswer(u)
    BY <2>3, <1>1 DEF IsAnswer
  <2>5. Ordered(a, f, h + 1) /\ Count(a) = h * AnswerSize + k
    BY <2>1
  <2> HIDE DEF t, a, u
  <2> DEFINE b == Append(a, u)
             n == Len(a) + 1
  <2>6. /\ AnswersOf(b) = AnswersOf(a) \cup {n} /\ Count(b) = Count(a) + 1
        /\ RankIn(b, n) = Count(a) + 1
        /\ \A p \in AnswersOf(a) : b[p] = a[p] /\ RankIn(b, p) = RankIn(a, p)
    BY <2>2, <2>4, UnitMore
  <2>7. b[n] = u
    BY <2>2
  <2> HIDE DEF b, n
  <2>8. Ordered(b, f, h + 1)
    <3> SUFFICES ASSUME NEW p \in AnswersOf(b)
                 PROVE  \E i \in 1 .. h + 1, j \in 1 .. AnswerSize :
                            /\ b[p] = <<KindIn(f, i), i, j>>
                            /\ RankIn(b, p) = (i - 1) * AnswerSize + j
      BY DEF Ordered
    <3>1. CASE p = n
      <4>1. b[p] = <<KindIn(f, h + 1), h + 1, k + 1>>
        BY <3>1, <2>7, <2>3 DEF kind
      <4>2. RankIn(b, p) = ((h + 1) - 1) * AnswerSize + (k + 1)
        <5>1. (h + 1) - 1 = h
          OBVIOUS
        <5>2. RankIn(b, p) = h * AnswerSize + k + 1
          BY <3>1, <2>5, <2>6
        <5> QED
          BY <5>1, <5>2, <1>3
      <4>3. h + 1 \in 1 .. h + 1 /\ k + 1 \in 1 .. AnswerSize
        BY <1>3
      <4> QED
        BY <4>1, <4>2, <4>3
    <3>2. CASE p \in AnswersOf(a)
      <4>1. PICK i \in 1 .. h + 1, j \in 1 .. AnswerSize :
                a[p] = <<KindIn(f, i), i, j>> /\ RankIn(a, p) = (i - 1) * AnswerSize + j
        BY <3>2, <2>5 DEF Ordered
      <4>2. b[p] = a[p] /\ RankIn(b, p) = RankIn(a, p)
        BY <3>2, <2>6
      <4> QED
        BY <4>1, <4>2
    <3> QED
      BY <3>1, <3>2, <2>6
  <2>9. Count(b) = h * AnswerSize + (k + 1)
    BY <2>5, <2>6, <1>3
  <2> QED
    BY <2>2, <2>8, <2>9 DEF b
<1> HIDE DEF P
<1>6. \A k \in Nat : k \in P
  BY <1>4, <1>5, NatSetInduction
<1>7. m \in P /\ m <= AnswerSize
  BY <1>6, <1>3
<1> QED
  BY <1>7 DEF P, d, kind

(* Units that answer no request change nothing of that. *)
LEMMA OtherPiece ==
    ASSUME NEW s \in Seq(Unit), NEW f, NEW h \in Nat, NEW m \in 0 .. AnswerSize,
           NEW kind \in {"error", "431"}, NEW i \in Nat, Ordered(s, f, h)
    PROVE  LET t == s \o SubSeq(Units(kind, i), 1, m)
           IN  Ordered(t, f, h) /\ Count(t) = Count(s)
<1> DEFINE d == Units(kind, i)
           t(k) == s \o SubSeq(d, 1, k)
           P == {k \in Nat : k <= AnswerSize => Ordered(t(k), f, h) /\ Count(t(k)) = Count(s)}
<1>1. /\ d \in Seq(Unit) /\ Len(d) = AnswerSize
      /\ \A p \in 1 .. AnswerSize : d[p] = <<kind, i, p>>
  BY UnitsAre
<1>2. AnswerSize \in Nat
  BY Sizes
<1> HIDE DEF d
<1>3. 0 \in P
  <2>1. SubSeq(d, 1, 0) = <<>>
    BY SubSeqEmpty
  <2>2. t(0) = s
    BY <2>1, ConcatEmptySeq
  <2> QED
    BY <2>2
<1>4. \A k \in Nat : k \in P => k + 1 \in P
  <2> TAKE k \in Nat
  <2> HAVE k \in P
  <2> SUFFICES ASSUME k + 1 <= AnswerSize
               PROVE  Ordered(t(k + 1), f, h) /\ Count(t(k + 1)) = Count(s)
    OBVIOUS
  <2>1. Ordered(t(k), f, h) /\ Count(t(k)) = Count(s)
    BY <1>2
  <2> DEFINE a == t(k)
             u == d[k + 1]
  <2>2. a \in Seq(Unit) /\ u \in Unit /\ t(k + 1) = Append(a, u)
    BY <1>1, PieceMore
  <2>3. ~IsAnswer(u)
    <3>1. u = <<kind, i, k + 1>>
      BY <1>1, <1>2
    <3> QED
      BY <3>1 DEF IsAnswer
  <2>4. Ordered(a, f, h) /\ Count(a) = Count(s)
    BY <2>1
  <2> HIDE DEF t, a, u
  <2> DEFINE b == Append(a, u)
  <2>5. /\ AnswersOf(b) = AnswersOf(a) /\ Count(b) = Count(a)
        /\ \A p \in AnswersOf(a) : b[p] = a[p] /\ RankIn(b, p) = RankIn(a, p)
    BY <2>2, <2>3, UnitMore
  <2> HIDE DEF b
  <2>6. Ordered(b, f, h)
    BY <2>4, <2>5 DEF Ordered
  <2> QED
    BY <2>2, <2>4, <2>5, <2>6 DEF b
<1> HIDE DEF P
<1>5. \A k \in Nat : k \in P
  BY <1>3, <1>4, NatSetInduction
<1>6. m \in P /\ m <= AnswerSize
  BY <1>5, <1>2
<1> QED
  BY <1>6 DEF P, d
-----------------------------------------------------------------------------
(* Sending *)

(***************************************************************************)
(* Send puts a piece of the answer behind what was sent and what is        *)
(* unsent: all of it unless the channel is closed on the way, and none of  *)
(* it when the channel was closed before.                                  *)
(***************************************************************************)
LEMMA SendShape ==
    ASSUME WriteOK, NEW data \in Seq(Unit), NEW mark \in BOOLEAN, Send(data, mark)
    PROVE  /\ wbuf' \in Seq(Unit) /\ wire' \in Seq(Unit)
           /\ read <= Len(wire') /\ Len(wire') - read <= SocketSize
           /\ armed' \in BOOLEAN /\ closing' = mark
           /\ proto = "gkwp2" => Len(wbuf') <= MaxWrite
           /\ closed' = "open" => (armed' <=> wbuf' # <<>>)
           /\ closed # "open" => closed' = closed /\ wbuf' = wbuf /\ wire' = wire
           /\ closed' \in {closed, "error", "backlog"} \/ (closed' = "done" /\ mark)
           /\ closed' = "done" /\ closed = "open" => wbuf' = <<>>
           /\ \E m \in 0 .. Len(data) :
                 /\ wire' \o wbuf' = (wire \o wbuf) \o SubSeq(data, 1, m)
                 /\ closed = "open" /\ closed' \in {"open", "done"} => m = Len(data)
<1>1. /\ wbuf \in Seq(Unit) /\ wire \in Seq(Unit) /\ armed \in BOOLEAN
      /\ read \in Nat /\ read <= Len(wire) /\ Len(wire) - read <= SocketSize
      /\ proto = "gkwp2" => Len(wbuf) <= MaxWrite
      /\ closed = "open" => (armed <=> wbuf # <<>>)
  BY DEF WriteOK, ArmedIffUnsent
<1>2. Len(data) \in Nat /\ Len(wbuf) \in Nat /\ Len(wire) \in Nat /\ closing' = mark
  BY <1>1 DEF Send
<1>3. SubSeq(data, 1, 0) = <<>> /\ wire \o wbuf \in Seq(Unit)
  BY <1>1, SubSeqEmpty, ConcatProperties
<1>4. (wire \o wbuf) \o SubSeq(data, 1, 0) = wire \o wbuf
  BY <1>3, ConcatEmptySeq
<1>5. SubSeq(data, 1, Len(data)) = data
  BY SubSeqFull
<1>6. CASE closed # "open" /\ UNCHANGED <<wbuf, armed, closed, wire>>
  <2>1. 0 \in 0 .. Len(data) /\ wire' \o wbuf' = (wire \o wbuf) \o SubSeq(data, 1, 0)
    BY <1>4, <1>6, <1>2
  <2> QED
    BY <1>1, <1>2, <1>6, <2>1
<1>7. CASE closed = "open" /\ closed' = "error" /\ UNCHANGED <<wbuf, armed, wire>>
  <2>1. 0 \in 0 .. Len(data) /\ wire' \o wbuf' = (wire \o wbuf) \o SubSeq(data, 1, 0)
    BY <1>4, <1>7, <1>2
  <2> QED
    BY <1>1, <1>2, <1>7, <2>1
<1>8. CASE /\ closed = "open" /\ SendsAtOnce
           /\ \E n \in 0 .. Min({Room, Len(data)}) :
                /\ wire' = wire \o SubSeq(data, 1, n)
                /\ IF n < Len(data) THEN Buffer(SubSeq(data, n + 1, Len(data)))
                   ELSE /\ closed' = IF mark THEN "done" ELSE closed
                        /\ UNCHANGED <<wbuf, armed>>
  <2>1. PICK n \in 0 .. Min({Room, Len(data)}) :
                /\ wire' = wire \o SubSeq(data, 1, n)
                /\ IF n < Len(data) THEN Buffer(SubSeq(data, n + 1, Len(data)))
                   ELSE /\ closed' = IF mark THEN "done" ELSE closed
                        /\ UNCHANGED <<wbuf, armed>>
    BY <1>8
  <2>2. n \in 0 .. Len(data) /\ n <= SocketSize - (Len(wire) - read)
    <3>1. Room \in Int /\ Room = SocketSize - (Len(wire) - read)
      BY <1>1, <1>2, Sizes DEF Room
    <3>2. Min({Room, Len(data)}) = IF Room <= Len(data) THEN Room ELSE Len(data)
      BY <3>1, <1>2, MinOfTwo
    <3> QED
      BY <3>1, <3>2, <1>2
  <2> DEFINE a == SubSeq(data, 1, n)
             b == SubSeq(data, n + 1, Len(data))
  <2>3. /\ a \in Seq(Unit) /\ Len(a) = n /\ b \in Seq(Unit) /\ Len(b) = Len(data) - n
        /\ a \o b = data
    BY <2>2, CutUnits
  <2>4. wbuf = <<>>
    BY <1>8 DEF SendsAtOnce
  <2> HIDE DEF a, b
  <2>5. wire' = wire \o a
    BY <2>1 DEF a
  <2>6. wire' \in Seq(Unit) /\ Len(wire') = Len(wire) + n
    BY <2>5, <2>3, <1>1, ConcatProperties
  <2>7. read <= Len(wire') /\ Len(wire') - read <= SocketSize
    BY <2>6, <2>2, <1>1, <1>2, Sizes
  <2>8. wire \o wbuf = wire /\ wire' \o <<>> = wire'
    BY <2>4, <1>1, <2>6, ConcatEmptySeq
  <2>9. CASE n < Len(data) /\ proto = "gkwp2" /\ Len(wbuf) + Len(b) > MaxWrite
    <3>1. closed' = "backlog" /\ UNCHANGED <<wbuf, armed>>
      BY <2>1, <2>9 DEF Buffer, b
    <3>2. wire' \o wbuf' = (wire \o wbuf) \o SubSeq(data, 1, n)
      BY <3>1, <2>4, <2>5, <2>8 DEF a
    <3> QED
      BY <3>1, <3>2, <1>1, <1>2, <1>8, <2>2, <2>6, <2>7
  <2>10. CASE n < Len(data) /\ ~(proto = "gkwp2" /\ Len(wbuf) + Len(b) > MaxWrite)
    <3>1. wbuf' = wbuf \o b /\ armed' = TRUE /\ closed' = closed
      BY <2>1, <2>10 DEF Buffer, b
    <3>2. wbuf' = b
      BY <3>1, <2>3, <2>4, ConcatEmptySeq
    <3>3. wbuf' # <<>> /\ wbuf' \in Seq(Unit)
      BY <3>2, <2>3, <2>10, <1>2
    <3>4. proto = "gkwp2" => Len(wbuf') <= MaxWrite
      BY <3>2, <2>3, <2>10, <2>4, <1>2, Sizes
    <3>5. (wire \o a) \o b = wire \o (a \o b)
      <4>1. wire \in Seq(Unit) /\ a \in Seq(Unit) /\ b \in Seq(Unit)
        BY <1>1, <2>3
      <4> QED
        BY <4>1, ConcatAssociative, SMTT(30)
    <3>6. wire' \o wbuf' = (wire \o wbuf) \o SubSeq(data, 1, Len(data))
      BY <3>2, <3>5, <2>5, <2>8, <2>3, <1>5
    <3>7. Len(data) \in 0 .. Len(data)
      BY <1>2
    <3> QED
      BY <3>1, <3>3, <3>4, <3>6, <3>7, <1>2, <1>8, <2>6, <2>7
  <2>11. CASE n = Len(data)
    <3>1. (closed' = IF mark THEN "done" ELSE closed) /\ UNCHANGED <<wbuf, armed>>
      BY <2>1, <2>11, <1>2
    <3>2. wire' \o wbuf' = (wire \o wbuf) \o SubSeq(data, 1, n)
      BY <3>1, <2>4, <2>5, <2>8 DEF a
    <3> QED
      BY <3>1, <3>2, <1>1, <1>2, <1>8, <2>2, <2>4, <2>6, <2>7, <2>11
  <2>12. n < Len(data) \/ n = Len(data)
    BY <2>2, <1>2
  <2> QED
    BY <2>9, <2>10, <2>11, <2>12, Zenon
<1>9. CASE closed = "open" /\ ~SendsAtOnce /\ Buffer(data) /\ UNCHANGED wire
  <2>1. CASE proto = "gkwp2" /\ Len(wbuf) + Len(data) > MaxWrite
    <3>1. closed' = "backlog" /\ UNCHANGED <<wbuf, armed>>
      BY <1>9, <2>1 DEF Buffer
    <3>2. 0 \in 0 .. Len(data) /\ wire' \o wbuf' = (wire \o wbuf) \o SubSeq(data, 1, 0)
      BY <1>4, <1>9, <3>1, <1>2
    <3> QED
      BY <3>1, <3>2, <1>1, <1>2, <1>9
  <2>2. CASE ~(proto = "gkwp2" /\ Len(wbuf) + Len(data) > MaxWrite)
    <3>1. wbuf' = wbuf \o data /\ armed' = TRUE /\ closed' = closed
      BY <1>9, <2>2 DEF Buffer
    <3>2. wbuf # <<>>
      BY <1>9 DEF SendsAtOnce
    <3>3. Len(wbuf') = Len(wbuf) + Len(data) /\ wbuf' \in Seq(Unit)
      BY <3>1, <1>1, ConcatProperties
    <3>4. wbuf' # <<>>
      BY <3>2, <3>3, <1>1, <1>2
    <3>5. proto = "gkwp2" => Len(wbuf') <= MaxWrite
      BY <3>3, <2>2, <1>2, Sizes
    <3>6. (wire \o wbuf) \o data = wire \o (wbuf \o data)
      BY <1>1, ConcatAssociative, SMTT(30)
    <3>7. wire' \o wbuf' = (wire \o wbuf) \o SubSeq(data, 1, Len(data))
      BY <3>1, <3>6, <1>5, <1>9
    <3>8. Len(data) \in 0 .. Len(data)
      BY <1>2
    <3> QED
      BY <3>1, <3>3, <3>4, <3>5, <3>7, <3>8, <1>1, <1>2, <1>9
  <2> QED
    BY <2>1, <2>2
<1> QED
  BY <1>6, <1>7, <1>8, <1>9 DEF Send

(* Sending the answer to the next request keeps the write side and the order. *)
LEMMA SendAnswers ==
    ASSUME WriteOK, SentOK, NEW mark \in BOOLEAN, handled \in Nat,
           Send(Units(KindIn(reqs, handled + 1), handled + 1), mark),
           UNCHANGED <<proto, reqs, read>>, handled' = handled + 1,
           proto = "gkwp2" => ~mark, proto # "gkwp2" => closed = "open"
    PROVE  WriteOK' /\ SentOK' /\ (closed' = "limit" => closed = "limit")
<1> DEFINE kind == KindIn(reqs, handled + 1)
           data == Units(kind, handled + 1)
           out == wire \o wbuf
<1>1. kind \in {"ok", "tooMany"}
  BY DEF KindIn
<1> HIDE DEF kind
<1>2. data \in Seq(Unit) /\ Len(data) = AnswerSize
  BY <1>1, UnitsAre
<1> HIDE DEF data
<1>3. Send(data, mark)
  BY DEF data, kind
<1>4. /\ wbuf' \in Seq(Unit) /\ wire' \in Seq(Unit)
      /\ read <= Len(wire') /\ Len(wire') - read <= SocketSize
      /\ armed' \in BOOLEAN /\ closing' = mark
      /\ proto = "gkwp2" => Len(wbuf') <= MaxWrite
      /\ closed' = "open" => (armed' <=> wbuf' # <<>>)
      /\ closed # "open" => closed' = closed /\ wbuf' = wbuf /\ wire' = wire
      /\ closed' \in {closed, "error", "backlog"} \/ (closed' = "done" /\ mark)
      /\ closed' = "done" /\ closed = "open" => wbuf' = <<>>
  BY <1>2, <1>3, SendShape
<1>5. PICK m \in 0 .. Len(data) :
          /\ wire' \o wbuf' = (wire \o wbuf) \o SubSeq(data, 1, m)
          /\ closed = "open" /\ closed' \in {"open", "done"} => m = Len(data)
  BY <1>2, <1>3, SendShape
<1>6. out \in Seq(Unit)
  BY ConcatProperties DEF WriteOK
<1>7. /\ Ordered(out, reqs, handled)
      /\ closed = "open" => Count(out) = handled * AnswerSize
      /\ closed = "done" => Count(wire) = handled * AnswerSize
  BY DEF SentOK
<1>8. /\ AnswerSize \in Nat /\ handled * AnswerSize \in Nat
      /\ (handled + 1) * AnswerSize = handled * AnswerSize + AnswerSize
  BY Sizes
<1>9. WriteOK'
  <2>1. read \in Nat /\ (proto = "gkwp2" => closed # "done")
    BY DEF WriteOK
  <2>2. proto = "gkwp2" => closed' # "done"
    BY <2>1, <1>4
  <2> QED
    BY <1>4, <2>1, <2>2 DEF WriteOK, ArmedIffUnsent
<1> HIDE DEF out
<1>10. SentOK'
  <2>1. CASE closed # "open"
    <3>1. wire' \o wbuf' = out /\ closed' = closed /\ closed' # "open"
      BY <2>1, <1>4 DEF out
    <3>2. Ordered(out, reqs, handled + 1)
      <4>1. handled + 1 \in Nat /\ handled <= handled + 1
        OBVIOUS
      <4> QED
        BY <4>1, <1>6, <1>7, OrderedLater
    <3>3. closed # "done"
      <4>1. proto = "gkwp2" => closed # "done"
        BY DEF WriteOK
      <4> QED
        BY <2>1, <4>1
    <3> QED
      BY <3>1, <3>2, <3>3 DEF SentOK
  <2>2. CASE closed = "open"
    <3> DEFINE t == out \o SubSeq(data, 1, m)
    <3>1. m \in 0 .. AnswerSize
      BY <1>2
    <3>2. Ordered(t, reqs, handled + 1) /\ Count(t) = handled * AnswerSize + m
      BY <3>1, <2>2, <1>6, <1>7, AnswerPiece DEF data, kind
    <3> HIDE DEF t
    <3>3. wire' \o wbuf' = t
      BY <1>5 DEF t, out
    <3>4. closed' \in {"open", "done"} => Count(t) = (handled + 1) * AnswerSize
      BY <3>2, <1>5, <1>2, <1>8, <2>2
    <3>5. closed' = "done" => wire' = t
      <4> SUFFICES ASSUME closed' = "done" PROVE wire' = t
        OBVIOUS
      <4>1. wbuf' = <<>>
        BY <1>4, <2>2
      <4>2. wire' \o <<>> = wire'
        BY <1>4, ConcatEmptySeq
      <4> QED
        BY <4>1, <4>2, <3>3
    <3>6. Ordered(wire' \o wbuf', reqs', handled')
      BY <3>2, <3>3
    <3>7. closed' = "open" => Count(wire' \o wbuf') = handled' * AnswerSize
      BY <3>3, <3>4
    <3>8. closed' = "done" => Count(wire') = handled' * AnswerSize
      BY <3>5, <3>4
    <3> QED
      BY <3>6, <3>7, <3>8 DEF SentOK
  <2> QED
    BY <2>1, <2>2
<1>11. closed' = "limit" => closed = "limit"
  BY <1>4
<1> QED
  BY <1>9, <1>10, <1>11
(* Refusing a head that is too long keeps the write side and the order. *)
LEMMA SendRefuses ==
    ASSUME WriteOK, SentOK, handled \in Nat, closed = "open", proto # "gkwp2",
           Send(Units("431", handled + 1), TRUE),
           UNCHANGED <<proto, reqs, read, handled>>
    PROVE  WriteOK' /\ SentOK' /\ closed' # "limit"
<1> DEFINE data == Units("431", handled + 1)
           out == wire \o wbuf
<1>1. handled + 1 \in Nat
  OBVIOUS
<1>2. data \in Seq(Unit) /\ Len(data) = AnswerSize
  BY <1>1, UnitsAre
<1> HIDE DEF data
<1>3. Send(data, TRUE)
  BY DEF data
<1>4. /\ wbuf' \in Seq(Unit) /\ wire' \in Seq(Unit)
      /\ read <= Len(wire') /\ Len(wire') - read <= SocketSize
      /\ armed' \in BOOLEAN /\ closing' = TRUE
      /\ closed' = "open" => (armed' <=> wbuf' # <<>>)
      /\ closed' \in {closed, "error", "backlog"} \/ closed' = "done"
      /\ closed' = "done" /\ closed = "open" => wbuf' = <<>>
  BY <1>2, <1>3, SendShape
<1>5. PICK m \in 0 .. Len(data) : wire' \o wbuf' = (wire \o wbuf) \o SubSeq(data, 1, m)
  BY <1>2, <1>3, SendShape
<1>6. out \in Seq(Unit)
  BY ConcatProperties DEF WriteOK
<1>7. Ordered(out, reqs, handled) /\ Count(out) = handled * AnswerSize
  BY DEF SentOK
<1>8. WriteOK'
  <2>1. read \in Nat
    BY DEF WriteOK
  <2> QED
    BY <1>4, <2>1 DEF WriteOK, ArmedIffUnsent
<1> HIDE DEF out
<1>9. SentOK'
  <2> DEFINE t == out \o SubSeq(data, 1, m)
  <2>1. m \in 0 .. AnswerSize
    BY <1>2
  <2>2. Ordered(t, reqs, handled) /\ Count(t) = Count(out)
    BY <2>1, <1>1, <1>6, <1>7, OtherPiece DEF data
  <2> HIDE DEF t
  <2>3. wire' \o wbuf' = t
    BY <1>5 DEF t, out
  <2>4. closed' = "done" => wire' = t
    <3> SUFFICES ASSUME closed' = "done" PROVE wire' = t
      OBVIOUS
    <3>1. wbuf' = <<>>
      BY <1>4
    <3>2. wire' \o <<>> = wire'
      BY <1>4, ConcatEmptySeq
    <3> QED
      BY <3>1, <3>2, <2>3
  <2>5. Ordered(wire' \o wbuf', reqs', handled')
    BY <2>2, <2>3
  <2>6. closed' = "open" => Count(wire' \o wbuf') = handled' * AnswerSize
    BY <2>2, <2>3, <1>7
  <2>7. closed' = "done" => Count(wire') = handled' * AnswerSize
    BY <2>2, <2>4, <1>7
  <2> QED
    BY <2>5, <2>6, <2>7 DEF SentOK
<1> QED
  BY <1>4, <1>8, <1>9

(* Sending PROTOCOL_ERROR and closing keeps the write side and the order. *)
LEMMA FailKeeps ==
    ASSUME WriteOK, SentOK, handled \in Nat, closed = "open", NEW reason \in {"limit", "protocol"},
           Fail(reason), UNCHANGED <<proto, reqs, read>>
    PROVE  WriteOK' /\ SentOK'
<1> DEFINE data == Units("error", 0)
           out == wire \o wbuf
<1>1. data \in Seq(Unit) /\ Len(data) = AnswerSize
  BY UnitsAre
<1> HIDE DEF data
<1>2. /\ closed' = reason /\ UNCHANGED <<inVars, wbuf, armed, closing>>
      /\ \E n \in 0 .. (IF SendsAtOnce THEN Min({Room, AnswerSize}) ELSE 0) :
            wire' = wire \o SubSeq(data, 1, n)
  BY DEF Fail, data
<1>3. handled' = handled /\ UNCHANGED <<wbuf, armed, closing>>
  BY <1>2 DEF inVars
<1>4. PICK n \in 0 .. (IF SendsAtOnce THEN Min({Room, AnswerSize}) ELSE 0) :
            wire' = wire \o SubSeq(data, 1, n)
  BY <1>2
<1>5. /\ wbuf \in Seq(Unit) /\ wire \in Seq(Unit) /\ armed \in BOOLEAN /\ closing \in BOOLEAN
      /\ read \in Nat /\ read <= Len(wire) /\ Len(wire) - read <= SocketSize
      /\ proto = "gkwp2" => Len(wbuf) <= MaxWrite /\ ~closing
  BY DEF WriteOK
<1>6. n \in 0 .. AnswerSize /\ n <= SocketSize - (Len(wire) - read) /\ (n = 0 \/ wbuf = <<>>)
  <2>1. Room \in Int /\ Room = SocketSize - (Len(wire) - read) /\ Room >= 0
    BY <1>5, Sizes DEF Room
  <2>2. Min({Room, AnswerSize}) = IF Room <= AnswerSize THEN Room ELSE AnswerSize
    BY <2>1, Sizes, MinOfTwo
  <2> QED
    BY <2>1, <2>2, Sizes DEF SendsAtOnce
<1> DEFINE a == SubSeq(data, 1, n)
<1>7. a \in Seq(Unit) /\ Len(a) = n
  BY <1>1, <1>6, CutUnits
<1>8. wire' = wire \o a
  BY <1>4
<1>9. n = 0 => a = <<>>
  BY SubSeqEmpty
<1>10. wire' \in Seq(Unit) /\ Len(wire') = Len(wire) + n
  <2> HIDE DEF a
  <2> QED
    BY <1>5, <1>7, <1>8, ConcatProperties
<1>11. WriteOK'
  <2>1. read <= Len(wire') /\ Len(wire') - read <= SocketSize
    BY <1>5, <1>6, <1>10, Sizes
  <2> HIDE DEF a
  <2> QED
    BY <1>2, <1>3, <1>5, <1>10, <2>1 DEF WriteOK, ArmedIffUnsent
<1>12. out \in Seq(Unit)
  BY <1>5, ConcatProperties
<1>13. wire' \o wbuf' = out \o a
  <2> HIDE DEF a
  <2>1. CASE n = 0
    <3>1. wire' = wire /\ out \o a = out
      BY <2>1, <1>5, <1>8, <1>9, <1>12, ConcatEmptySeq
    <3> QED
      BY <3>1, <1>3
  <2>2. CASE wbuf = <<>>
    <3>1. out = wire /\ wire' \o <<>> = wire'
      BY <2>2, <1>5, <1>10, ConcatEmptySeq
    <3> QED
      BY <3>1, <2>2, <1>3, <1>8
  <2> QED
    BY <2>1, <2>2, <1>6
<1>14. Ordered(out, reqs, handled)
  BY DEF SentOK
<1> HIDE DEF out
<1>15. Ordered(out \o a, reqs, handled)
  BY <1>6, <1>12, <1>14, OtherPiece DEF data
<1>16. Ordered(wire' \o wbuf', reqs', handled')
  BY <1>3, <1>13, <1>15
<1> QED
  BY <1>2, <1>11, <1>16 DEF SentOK

(* Writing what is unsent keeps the write side and the order. *)
LEMMA WriteKeeps ==
    ASSUME WriteOK, SentOK, handled \in Nat, HandleWrite
    PROVE  WriteOK' /\ SentOK' /\ closed' # "limit"
<1>1. /\ UNCHANGED <<proto, reqs, read, handled, closing>> /\ closed = "open"
  BY DEF HandleWrite, peerVars, inVars
<1>2. /\ wbuf \in Seq(Unit) /\ wire \in Seq(Unit) /\ armed \in BOOLEAN /\ closing \in BOOLEAN
      /\ read \in Nat /\ read <= Len(wire) /\ Len(wire) - read <= SocketSize
      /\ proto = "gkwp2" => Len(wbuf) <= MaxWrite /\ ~closing
  BY DEF WriteOK
<1>3. Ordered(wire \o wbuf, reqs, handled) /\ Count(wire \o wbuf) = handled * AnswerSize
  BY <1>1 DEF SentOK
<1>4. CASE closed' = "error" /\ UNCHANGED <<wbuf, armed, wire>>
  <2>1. WriteOK'
    BY <1>1, <1>2, <1>4 DEF WriteOK, ArmedIffUnsent
  <2>2. Ordered(wire' \o wbuf', reqs', handled')
    BY <1>1, <1>3, <1>4
  <2> QED
    BY <1>4, <2>1, <2>2 DEF SentOK
<1>5. CASE LET n == Min({Room, Len(wbuf)})
           IN  /\ wire' = wire \o SubSeq(wbuf, 1, n)
               /\ wbuf' = SubSeq(wbuf, n + 1, Len(wbuf))
               /\ closed' = IF WriteCloses(n) THEN "done" ELSE closed
               /\ armed' = AfterWrite(n)
  <2> DEFINE n == Min({Room, Len(wbuf)})
             a == SubSeq(wbuf, 1, n)
             b == SubSeq(wbuf, n + 1, Len(wbuf))
  <2>1. n \in 0 .. Len(wbuf) /\ n <= SocketSize - (Len(wire) - read)
    <3>1. Room \in Int /\ Room = SocketSize - (Len(wire) - read) /\ Room >= 0
      BY <1>2, Sizes DEF Room
    <3>2. Len(wbuf) \in Nat
      BY <1>2
    <3>3. n = IF Room <= Len(wbuf) THEN Room ELSE Len(wbuf)
      BY <3>1, <3>2, MinOfTwo
    <3> QED
      BY <3>1, <3>2, <3>3
  <2>2. /\ wire' = wire \o a /\ wbuf' = b
        /\ closed' = IF WriteCloses(n) THEN "done" ELSE closed
        /\ armed' = AfterWrite(n)
    BY <1>5
  <2> HIDE DEF n
  <2>3. /\ a \in Seq(Unit) /\ Len(a) = n /\ b \in Seq(Unit) /\ Len(b) = Len(wbuf) - n
        /\ a \o b = wbuf
    BY <2>1, <1>2, CutUnits
  <2> HIDE DEF a, b
  <2>4. wire' \in Seq(Unit) /\ Len(wire') = Len(wire) + n
    BY <1>2, <2>2, <2>3, ConcatProperties
  <2>5. wire' \o wbuf' = wire \o wbuf
    <3>1. (wire \o a) \o b = wire \o (a \o b)
      <4>1. wire \in Seq(Unit) /\ a \in Seq(Unit) /\ b \in Seq(Unit)
        BY <1>2, <2>3
      <4> QED
        BY <4>1, ConcatAssociative, SMTT(30)
    <3> QED
      BY <3>1, <2>2, <2>3
  <2>6. armed' \in BOOLEAN /\ (armed' <=> wbuf' # <<>>)
    <3>1. armed' = (n < Len(wbuf)) /\ Len(wbuf) \in Nat /\ n \in Nat /\ n <= Len(wbuf)
      BY <2>2, <2>1, <1>2 DEF AfterWrite
    <3>2. Len(wbuf') = Len(wbuf) - n /\ wbuf' \in Seq(Unit)
      BY <2>2, <2>3
    <3>3. wbuf' = <<>> <=> Len(wbuf') = 0
      BY <3>2
    <3>4. (n < Len(wbuf)) <=> wbuf' # <<>>
      BY <3>1, <3>2, <3>3
    <3>5. armed' = (n < Len(wbuf))
      BY <3>1
    <3>6. CASE n < Len(wbuf)
      <4>1. armed' = TRUE /\ wbuf' # <<>>
        BY <3>4, <3>5, <3>6
      <4> QED
        BY <4>1
    <3>7. CASE ~(n < Len(wbuf))
      <4>1. (n < Len(wbuf)) = FALSE
        BY <3>1, <3>7, SMT
      <4>2. armed' = FALSE
        BY <4>1, <3>5, Zenon
      <4>3. wbuf' = <<>>
        BY <3>4, <3>7
      <4> QED
        BY <4>2, <4>3
    <3> QED
      BY <3>6, <3>7
  <2>7. closed' = "done" => closing /\ n = Len(wbuf)
    BY <2>2, <1>1 DEF WriteCloses
  <2>8. closed' \in {"open", "done"}
    BY <2>2, <1>1
  <2>9. WriteOK'
    <3>1. read <= Len(wire') /\ Len(wire') - read <= SocketSize
      BY <2>1, <2>4, <1>2, Sizes
    <3>2. proto = "gkwp2" => Len(wbuf') <= MaxWrite
      BY <2>1, <2>2, <2>3, <1>2, Sizes
    <3>3. proto = "gkwp2" => closed' # "done"
      BY <2>7, <1>2
    <3> QED
      BY <1>1, <1>2, <2>2, <2>3, <2>4, <2>6, <3>1, <3>2, <3>3 DEF WriteOK, ArmedIffUnsent
  <2>10. closed' = "done" => wire' = wire' \o wbuf'
    <3> SUFFICES ASSUME closed' = "done" PROVE wire' = wire' \o wbuf'
      OBVIOUS
    <3>1. Len(wbuf') = 0 /\ wbuf' \in Seq(Unit)
      BY <2>7, <2>2, <2>3, <1>2
    <3>2. wbuf' = <<>>
      BY <3>1
    <3> QED
      BY <3>2, <2>4, ConcatEmptySeq
  <2>11. Ordered(wire' \o wbuf', reqs', handled')
    BY <1>1, <1>3, <2>5
  <2>12. Count(wire' \o wbuf') = handled' * AnswerSize
    BY <1>1, <1>3, <2>5
  <2>13. closed' = "done" => Count(wire') = handled' * AnswerSize
    BY <2>10, <2>12
  <2> QED
    BY <2>8, <2>9, <2>11, <2>12, <2>13 DEF SentOK
<1> QED
  BY <1>4, <1>5 DEF HandleWrite
-----------------------------------------------------------------------------
(* Each action preserves the invariant. *)

(* A step that at most ends the connection. *)
LEMMA ClosingPreserves ==
    ASSUME CInv,
           UNCHANGED <<proto, reqs, arrived, hup, read, received, base, decoded, handled,
                       streams, wbuf, armed, closing, wire>>,
           events' \subseteq {"IN", "OUT", "HUP"},
           closed' = closed \/ closed' \in {"peer", "error", "malformed"}
    PROVE  CInv'
<1> USE DEF CInv
<1>1. PeerOK'
  BY DEF PeerOK
<1>2. ReadOK' /\ DecoderOK' /\ HttpOK'
  BY DEF ReadOK, DecoderOK, HttpOK
<1>3. StreamsOK'
  BY DEF StreamsOK
<1>4. WriteOK'
  BY DEF WriteOK, ArmedIffUnsent
<1>5. SentOK'
  BY DEF SentOK
<1>6. LimitLeavesRoom'
  BY DEF LimitLeavesRoom
<1> QED
  BY <1>1, <1>2, <1>3, <1>4, <1>5, <1>6

(* The steps that only move HandleEvents on or end the connection. *)
LEMMA MovesPreserve ==
    ASSUME CInv, Poll \/ RecvEnds \/ HangUp \/ FramesDone \/ Malformed
    PROVE  CInv'
<1>1. CASE Poll
  <2>1. events' \subseteq {"IN", "OUT", "HUP"}
    BY <1>1 DEF Poll, Ready
  <2> QED
    BY <1>1, <2>1, ClosingPreserves DEF Poll, peerVars, inVars, outVars
<1>2. ASSUME ~Poll PROVE CInv'
  <2>1. events' = events /\ events \subseteq {"IN", "OUT", "HUP"}
    BY <1>2 DEF RecvEnds, HangUp, FramesDone, Malformed, CInv, PeerOK
  <2>2. CASE RecvEnds
    BY <2>1, <2>2, ClosingPreserves DEF RecvEnds, peerVars, inVars
  <2>3. CASE HangUp
    BY <2>1, <2>3, ClosingPreserves DEF HangUp, peerVars, inVars
  <2>4. CASE FramesDone
    BY <2>1, <2>4, ClosingPreserves DEF FramesDone, peerVars, inVars, outVars
  <2>5. CASE Malformed
    BY <2>1, <2>5, ClosingPreserves DEF Malformed, peerVars, inVars
  <2> QED
    BY <1>2, <2>2, <2>3, <2>4, <2>5
<1> QED
  BY <1>1, <1>2

(* Writing what is unsent. *)
LEMMA HandleWritePreserves ==
    ASSUME CInv, HandleWrite
    PROVE  CInv'
<1>1. UNCHANGED <<proto, reqs, arrived, hup, read, received, base, decoded, handled, streams, events>>
  BY DEF HandleWrite, peerVars, inVars
<1>2. handled \in Nat
  BY DEF CInv, ReadOK
<1>3. WriteOK' /\ SentOK' /\ closed' # "limit"
  BY <1>2, WriteKeeps DEF CInv
<1>4. PeerOK'
  BY <1>1 DEF CInv, PeerOK
<1>5. ReadOK' /\ DecoderOK' /\ HttpOK'
  BY <1>1 DEF CInv, ReadOK, DecoderOK, HttpOK
<1>6. StreamsOK'
  BY <1>1 DEF CInv, StreamsOK
<1> QED
  BY <1>3, <1>4, <1>5, <1>6 DEF CInv, LimitLeavesRoom

(* What the decoder makes of a total of units: frames that are in, and no further. *)
LEMMA DecodableIs ==
    ASSUME CInv, proto = "gkwp2", NEW total \in Nat, received <= total
    PROVE  LET d == Decodable(total)
           IN  /\ d \in decoded .. Len(reqs) /\ EndIn(reqs, d) <= total
               /\ d < Len(reqs) /\ EndIn(reqs, d + 1) <= total => BadHeader(d, total)
<1> DEFINE S == {d \in decoded .. Len(reqs) :
                    /\ EndOf(d) <= total
                    /\ \A i \in decoded + 1 .. d : HeaderFits(reqs[i])}
           d == Max(S)
<1>1. /\ decoded \in Nat /\ decoded <= Len(reqs) /\ reqs \in Seq(Requests) /\ Len(reqs) \in Nat
      /\ received \in Nat /\ EndIn(reqs, decoded) <= received
  BY DEF CInv, ReadOK, PeerOK
<1>2. \A i : EndOf(i) = EndIn(reqs, i)
  BY EndOfIs
<1>3. \A j \in 0 .. Len(reqs) : EndIn(reqs, j) \in Nat
  BY <1>1, EndSteps
<1>4. decoded \in S
  <2>1. decoded \in 0 .. Len(reqs)
    BY <1>1
  <2>2. EndIn(reqs, decoded) <= total
    BY <2>1, <1>1, <1>3
  <2>3. \A i \in decoded + 1 .. decoded : HeaderFits(reqs[i])
    BY <1>1
  <2> QED
    BY <1>1, <1>2, <2>2, <2>3
<1>5. S \in SUBSET (decoded .. Len(reqs)) /\ S # {}
  BY <1>4
<1>6. d \in S /\ \A y \in S : d >= y
  <2> HIDE DEF S
  <2> QED
    BY <1>1, <1>5, MaxExists
<1>7. Decodable(total) = d
  BY DEF Decodable
<1> HIDE DEF d
<1>8. d \in decoded .. Len(reqs) /\ EndIn(reqs, d) <= total
      /\ \A i \in decoded + 1 .. d : HeaderFits(reqs[i])
  BY <1>6, <1>2
<1>9. ASSUME d < Len(reqs), EndIn(reqs, d + 1) <= total PROVE BadHeader(d, total)
  <2>1. d + 1 \in 1 .. Len(reqs) /\ d \in 0 .. Len(reqs) /\ (d + 1) - 1 = d
    BY <1>1, <1>8, <1>9
  <2>2. EndIn(reqs, d + 1) = EndIn(reqs, d) + reqs[d + 1].head + reqs[d + 1].body
    <3>1. \A j \in 1 .. Len(reqs) :
              EndIn(reqs, j) = EndIn(reqs, j - 1) + reqs[j].head + reqs[j].body
      BY <1>1, EndSteps
    <3> QED
      BY <3>1, <2>1
  <2>3. reqs[d + 1] \in Requests /\ reqs[d + 1].proto = "gkwp2"
    BY <2>1, <1>1 DEF CInv, PeerOK
  <2>4. reqs[d + 1].head = HeaderSize /\ reqs[d + 1].body \in Nat
    BY <2>3, ChannelAssumption DEF Request
  <2>5. EndIn(reqs, d) + HeaderSize <= total
    BY <2>1, <2>2, <2>4, <1>3, <1>9, Sizes
  <2>6. ~HeaderFits(reqs[d + 1])
    <3> SUFFICES ASSUME HeaderFits(reqs[d + 1]) PROVE FALSE
      OBVIOUS
    <3>1. d + 1 \in S
      <4>1. d + 1 \in decoded .. Len(reqs)
        BY <2>1, <1>8, <1>1
      <4>2. EndOf(d + 1) <= total
        BY <1>2, <1>9
      <4>3. ASSUME NEW i \in decoded + 1 .. d + 1 PROVE HeaderFits(reqs[i])
        <5>1. i = d + 1 \/ i \in decoded + 1 .. d
          BY <1>1, <1>8
        <5> QED
          BY <5>1, <1>8
      <4> QED
        BY <4>1, <4>2, <4>3
    <3>2. d >= d + 1 /\ d \in Nat
      BY <3>1, <1>6, <2>1
    <3> QED
      BY <3>2
  <2> QED
    BY <2>5, <2>6, <1>2, <1>9 DEF BadHeader
<1> QED
  BY <1>7, <1>8, <1>9

(* Reading a GKWP/2 channel. *)
LEMMA RecvGkwp2Preserves ==
    ASSUME CInv, RecvGkwp2
    PROVE  CInv'
<1>1. /\ UNCHANGED <<proto, reqs, arrived, hup, read, events>> /\ proto = "gkwp2" /\ closed = "open"
  BY DEF RecvGkwp2, peerVars
<1>2. /\ received \in Nat /\ base \in Nat /\ decoded \in Nat /\ handled \in Nat
      /\ arrived \in Nat /\ received <= arrived
      /\ handled <= decoded /\ decoded <= Len(reqs)
      /\ base <= EndIn(reqs, decoded) /\ EndIn(reqs, decoded) <= received
      /\ reqs \in Seq(Requests) /\ Len(reqs) \in Nat /\ arrived <= EndIn(reqs, Len(reqs))
  BY DEF CInv, ReadOK, PeerOK
<1>3. /\ received - base <= MaxDecoder
      /\ EndIn(reqs, decoded) - base <= CompactAbove
      /\ decoded < Len(reqs) => received < EndIn(reqs, decoded + 1)
  BY <1>1 DEF CInv, DecoderOK
<1>4. PICK n \in 1 .. Min({ReadSize, arrived - received}) :
          LET total == received + n
              d == Decodable(total)
          IN  \/ /\ total - base > MaxDecoder
                 /\ Fail("limit")
              \/ /\ total - base <= MaxDecoder
                 /\ BadHeader(d, total)
                 /\ Fail("protocol")
              \/ /\ total - base <= MaxDecoder
                 /\ ~BadHeader(d, total)
                 /\ received' = total
                 /\ decoded' = d
                 /\ base' = Compacted(d, total)
                 /\ Goto("frames")
                 /\ UNCHANGED <<handled, streams, outVars>>
  BY DEF RecvGkwp2
<1> DEFINE total == received + n
           d == Decodable(total)
<1>5. n \in Nat /\ 1 <= n /\ n <= ReadSize /\ n <= arrived - received
  <2>1. arrived - received \in Int /\ ReadSize \in Int
    BY <1>2, Sizes
  <2>2. Min({ReadSize, arrived - received}) =
            IF ReadSize <= arrived - received THEN ReadSize ELSE arrived - received
    BY <2>1, MinOfTwo
  <2> QED
    BY <2>1, <2>2
<1>6. total \in Nat /\ received < total /\ total <= arrived /\ total - received <= ReadSize
  BY <1>5, <1>2, Sizes
<1>7. PeerOK'
  BY <1>1 DEF CInv, PeerOK
<1>8. \A j \in 0 .. Len(reqs) : EndIn(reqs, j) \in Nat
  BY <1>2, EndSteps
<1>9. CASE \E reason \in {"limit", "protocol"} :
             Fail(reason) /\ (reason = "limit" => total - base > MaxDecoder)
  <2>1. PICK reason \in {"limit", "protocol"} :
             Fail(reason) /\ (reason = "limit" => total - base > MaxDecoder)
    BY <1>9
  <2>2. UNCHANGED <<received, base, decoded, handled, streams>> /\ closed' = reason
    BY <2>1 DEF Fail, inVars
  <2>3. WriteOK /\ SentOK
    BY DEF CInv
  <2>4. WriteOK' /\ SentOK'
    BY <2>1, <2>3, <1>1, <1>2, FailKeeps
  <2>5. ReadOK' /\ DecoderOK' /\ HttpOK'
    BY <1>1, <2>2 DEF CInv, ReadOK, DecoderOK, HttpOK
  <2>6. StreamsOK'
    BY <1>1, <2>2 DEF CInv, StreamsOK
  <2>7. LimitLeavesRoom'
    <3> SUFFICES ASSUME reason = "limit"
                 PROVE  /\ decoded < Len(reqs)
                        /\ HeaderSize + reqs[decoded + 1].body - 1 + CompactAbove + ReadSize > MaxDecoder
      BY <1>1, <2>2 DEF LimitLeavesRoom
    <3>1. total - base > MaxDecoder
      BY <2>1
    <3>2. decoded < Len(reqs)
      <4> SUFFICES ASSUME decoded = Len(reqs) PROVE FALSE
        BY <1>2
      <4>1. EndIn(reqs, decoded) \in Nat
        BY <1>2, <1>8
      <4> QED
        BY <4>1, <1>2, <1>6
    <3>3. /\ decoded + 1 \in 1 .. Len(reqs) /\ decoded \in 0 .. Len(reqs)
          /\ (decoded + 1) - 1 = decoded
      BY <3>2, <1>2
    <3>4. EndIn(reqs, decoded + 1) = EndIn(reqs, decoded) + reqs[decoded + 1].head + reqs[decoded + 1].body
      <4>1. \A j \in 1 .. Len(reqs) :
                EndIn(reqs, j) = EndIn(reqs, j - 1) + reqs[j].head + reqs[j].body
        BY <1>2, EndSteps
      <4> QED
        BY <4>1, <3>3
    <3>5. reqs[decoded + 1] \in Requests /\ reqs[decoded + 1].proto = "gkwp2"
      BY <3>3, <1>1, <1>2 DEF CInv, PeerOK
    <3>6. reqs[decoded + 1].head = HeaderSize /\ reqs[decoded + 1].body \in Nat
      BY <3>5, ChannelAssumption DEF Request
    <3>7. EndIn(reqs, decoded) \in Nat
      BY <3>3, <1>8
    <3>8. received < EndIn(reqs, decoded) + HeaderSize + reqs[decoded + 1].body
      BY <3>2, <3>4, <3>6, <1>3
    <3>9. total - received <= ReadSize /\ total \in Nat
      BY <1>6
    <3> HIDE DEF total
    <3> DEFINE z == reqs[decoded + 1].body
               y == EndIn(reqs, decoded)
    <3>10. /\ z \in Nat /\ y \in Nat /\ received < y + HeaderSize + z /\ y - base <= CompactAbove
           /\ received \in Nat /\ base \in Nat
      BY <3>6, <3>7, <3>8, <1>2, <1>3
    <3> HIDE DEF z, y
    <3>11. HeaderSize + z - 1 + CompactAbove + ReadSize > MaxDecoder
      BY <3>1, <3>9, <3>10, Sizes
    <3> QED
      BY <3>2, <3>11 DEF z
  <2> QED
    BY <1>7, <2>4, <2>5, <2>6, <2>7 DEF CInv
<1>10. CASE /\ total - base <= MaxDecoder
            /\ ~BadHeader(d, total)
            /\ received' = total
            /\ decoded' = d
            /\ base' = Compacted(d, total)
            /\ UNCHANGED <<handled, streams, outVars>>
  <2>1. /\ d \in decoded .. Len(reqs) /\ EndIn(reqs, d) <= total
        /\ ~(d < Len(reqs) /\ EndIn(reqs, d + 1) <= total)
    <3>1. received <= total
      BY <1>6, <1>2
    <3> QED
      BY <3>1, <1>1, <1>6, <1>10, DecodableIs
  <2>2. Compacted(d, total) = IF EndIn(reqs, d) = total THEN total
                              ELSE IF EndIn(reqs, d) - base > CompactAbove THEN EndIn(reqs, d)
                              ELSE base
    BY EndOfIs DEF Compacted
  <2> HIDE DEF d, total
  <2>3. EndIn(reqs, decoded) <= EndIn(reqs, d)
    <3>1. decoded \in 0 .. Len(reqs) /\ d \in 0 .. Len(reqs) /\ decoded <= d
      BY <2>1, <1>2
    <3> QED
      BY <3>1, <1>2, EndGrows
  <2>4. /\ EndIn(reqs, d) \in Nat /\ EndIn(reqs, decoded) \in Nat /\ d \in Nat
        /\ d <= Len(reqs) /\ decoded <= d
    BY <2>1, <1>2, <1>8
  <2>5. /\ base' \in Nat /\ base <= base'
        /\ base' <= EndIn(reqs, d) /\ EndIn(reqs, d) - base' <= CompactAbove
    BY <2>1, <2>2, <2>3, <2>4, <1>2, <1>6, <1>10, Sizes
  <2>6. d < Len(reqs) => total < EndIn(reqs, d + 1)
    <3> SUFFICES ASSUME d < Len(reqs) PROVE total < EndIn(reqs, d + 1)
      OBVIOUS
    <3>1. d + 1 \in 0 .. Len(reqs)
      BY <2>4, <1>2
    <3>2. EndIn(reqs, d + 1) \in Nat
      BY <3>1, <1>8
    <3> QED
      BY <3>2, <2>1, <1>6
  <2>7. ReadOK'
    BY <1>1, <1>2, <1>6, <1>10, <2>1, <2>4, <2>5 DEF ReadOK
  <2>8. DecoderOK' /\ HttpOK'
    BY <1>1, <1>2, <1>6, <1>10, <2>5, <2>6, Sizes DEF DecoderOK, HttpOK
  <2>9. UNCHANGED <<handled, streams, wbuf, armed, closing, closed, wire>>
    BY <1>10 DEF outVars
  <2>10. StreamsOK'
    BY <1>1, <2>9 DEF CInv, StreamsOK
  <2>11. WriteOK'
    BY <1>1, <2>9 DEF CInv, WriteOK, ArmedIffUnsent
  <2>12. SentOK'
    BY <1>1, <2>9 DEF CInv, SentOK
  <2>13. LimitLeavesRoom'
    BY <1>1, <2>9 DEF LimitLeavesRoom
  <2> QED
    BY <1>7, <2>7, <2>8, <2>10, <2>11, <2>12, <2>13 DEF CInv
<1> QED
  BY <1>4, <1>9, <1>10
(* What StreamManager does with a frame is what the order of the requests calls for. *)
LEMMA FrameStreams ==
    ASSUME CInv, proto = "gkwp2", handled < Len(reqs)
    PROVE  LET r == reqs[handled + 1]
               refused == r.stream # 0 /\ ~CanOpenStream(r.stream)
           IN  /\ refused <=> RefusedIn(streams, r)
               /\ refused => OpenStep(streams, r) = streams
               /\ ~refused => OpenStep(streams, r) = StreamsAfter(r)
               /\ KindIn(reqs, handled + 1) = IF refused THEN "tooMany" ELSE "ok"
               /\ OpenIn(reqs)[handled + 1] = OpenStep(streams, r)
               /\ OpenStep(streams, r) \subseteq Streams /\ IsFiniteSet(OpenStep(streams, r))
               /\ Cardinality(OpenStep(streams, r)) <= MaxStreams
<1> DEFINE r == reqs[handled + 1]
           refused == r.stream # 0 /\ ~CanOpenStream(r.stream)
<1>1. /\ streams \subseteq Streams /\ IsFiniteSet(streams) /\ Cardinality(streams) <= MaxStreams
      /\ streams = OpenIn(reqs)[handled]
      /\ handled \in Nat /\ reqs \in Seq(Requests) /\ Len(reqs) \in Nat
  BY DEF CInv, StreamsOK, ReadOK, PeerOK
<1>2. handled + 1 \in 1 .. Len(reqs) /\ (handled + 1) - 1 = handled /\ r \in Requests
  BY <1>1
<1>3. Cardinality(streams) \in Nat /\ MaxStreams \in Nat
  BY <1>1, FS_CardinalityType, Sizes
<1>4. r.stream # 0 => r.stream \in Streams
  BY <1>2 DEF Streams
<1>5. OpenIn(reqs)[handled + 1] = OpenStep(streams, r)
  <2>1. \A j \in 1 .. Len(reqs) : OpenIn(reqs)[j] = OpenStep(OpenIn(reqs)[j - 1], reqs[j])
    BY <1>1, OpenSteps
  <2> QED
    BY <2>1, <1>1, <1>2
<1>6. KindIn(reqs, handled + 1) = IF RefusedIn(streams, r) THEN "tooMany" ELSE "ok"
  BY <1>1, <1>2 DEF KindIn
<1> HIDE DEF r
<1>7. refused <=> RefusedIn(streams, r)
  BY <1>3 DEF CanOpenStream, RefusedIn
<1>8. refused => OpenStep(streams, r) = streams
  BY <1>3 DEF CanOpenStream, OpenStep
<1>9. ~refused => OpenStep(streams, r) = StreamsAfter(r)
  BY <1>3 DEF CanOpenStream, OpenStep, StreamsAfter
<1>10. OpenStep(streams, r) \subseteq Streams
  BY <1>1, <1>4 DEF OpenStep
<1>11. IsFiniteSet(OpenStep(streams, r)) /\ Cardinality(OpenStep(streams, r)) <= MaxStreams
  <2>1. CASE OpenStep(streams, r) = streams
    BY <2>1, <1>1
  <2>2. CASE OpenStep(streams, r) = streams \ {r.stream}
    <3>1. /\ IsFiniteSet(streams \ {r.stream})
          /\ Cardinality(streams \ {r.stream}) =
                 IF r.stream \in streams THEN Cardinality(streams) - 1 ELSE Cardinality(streams)
      BY <1>1, FS_RemoveElement
    <3> QED
      BY <2>2, <3>1, <1>1, <1>3
  <2>3. CASE /\ OpenStep(streams, r) = streams \cup {r.stream}
             /\ ~(r.stream \notin streams /\ Cardinality(streams) >= MaxStreams)
    <3>1. /\ IsFiniteSet(streams \cup {r.stream})
          /\ Cardinality(streams \cup {r.stream}) =
                 IF r.stream \in streams THEN Cardinality(streams) ELSE Cardinality(streams) + 1
      BY <1>1, FS_AddElement
    <3> QED
      BY <2>3, <3>1, <1>1, <1>3
  <2> QED
    BY <2>1, <2>2, <2>3 DEF OpenStep
<1> QED
  BY <1>5, <1>6, <1>7, <1>8, <1>9, <1>10, <1>11 DEF r

(* Executing or refusing a frame. *)
LEMMA HandleFramePreserves ==
    ASSUME CInv, HandleFrame
    PROVE  CInv'
<1> DEFINE r == reqs[handled + 1]
           refused == r.stream # 0 /\ ~CanOpenStream(r.stream)
<1>1. /\ UNCHANGED <<proto, reqs, arrived, hup, read, received, base, decoded, events>>
      /\ proto = "gkwp2" /\ handled < decoded /\ handled' = handled + 1
  BY DEF HandleFrame, peerVars
<1>2. \/ /\ refused
         /\ Send(Units("tooMany", handled + 1), FALSE)
         /\ UNCHANGED streams
      \/ /\ ~refused
         /\ Send(Units("ok", handled + 1), FALSE)
         /\ streams' = StreamsAfter(r)
  BY DEF HandleFrame
<1>3. /\ handled \in Nat /\ decoded \in Nat /\ decoded <= Len(reqs)
      /\ reqs \in Seq(Requests) /\ Len(reqs) \in Nat
  BY DEF CInv, ReadOK, PeerOK
<1>4. handled < Len(reqs) /\ handled + 1 <= decoded
  BY <1>1, <1>3
<1>5. /\ refused => OpenStep(streams, r) = streams
      /\ ~refused => OpenStep(streams, r) = StreamsAfter(r)
      /\ KindIn(reqs, handled + 1) = IF refused THEN "tooMany" ELSE "ok"
      /\ OpenIn(reqs)[handled + 1] = OpenStep(streams, r)
      /\ OpenStep(streams, r) \subseteq Streams /\ IsFiniteSet(OpenStep(streams, r))
      /\ Cardinality(OpenStep(streams, r)) <= MaxStreams
  BY <1>1, <1>4, FrameStreams
<1> HIDE DEF r, refused
<1>6. /\ Send(Units(KindIn(reqs, handled + 1), handled + 1), FALSE)
      /\ streams' = OpenStep(streams, r)
  BY <1>2, <1>5
<1>7. WriteOK /\ SentOK
  BY DEF CInv
<1>8. WriteOK' /\ SentOK' /\ (closed' = "limit" => closed = "limit")
  BY <1>1, <1>3, <1>6, <1>7, SendAnswers
<1>9. PeerOK'
  BY <1>1 DEF CInv, PeerOK
<1>10. ReadOK' /\ DecoderOK' /\ HttpOK'
  BY <1>1, <1>3, <1>4 DEF CInv, ReadOK, DecoderOK, HttpOK
<1>11. StreamsOK'
  BY <1>1, <1>5, <1>6 DEF StreamsOK
<1>12. LimitLeavesRoom'
  BY <1>1, <1>8 DEF CInv, LimitLeavesRoom
<1> QED
  BY <1>8, <1>9, <1>10, <1>11, <1>12 DEF CInv

(* Reading an HTTP channel. *)
LEMMA RecvHttpPreserves ==
    ASSUME CInv, RecvHttp
    PROVE  CInv'
<1>1. /\ UNCHANGED <<proto, reqs, arrived, hup, read, base, decoded, handled, streams,
                     wbuf, armed, closing, closed, wire, events>>
      /\ proto = "http"
  BY DEF RecvHttp, peerVars, outVars
<1>2. PICK n \in 1 .. Min({ReadSize, arrived - received}) : received' = received + n
  BY DEF RecvHttp
<1>3. arrived \in Nat /\ received \in Nat /\ received <= arrived /\ decoded \in Nat
      /\ decoded <= Len(reqs) /\ EndIn(reqs, decoded) <= received /\ reqs \in Seq(Requests)
  BY DEF CInv, PeerOK, ReadOK
<1>4. EndIn(reqs, decoded) \in Nat
  <2>1. decoded \in 0 .. Len(reqs)
    BY <1>3
  <2> QED
    BY <2>1, <1>3, EndSteps
<1>5. received' \in Nat /\ received' <= arrived /\ received <= received'
  <2>1. arrived - received \in Int /\ ReadSize \in Int
    BY <1>3, Sizes
  <2>2. Min({ReadSize, arrived - received}) =
            IF ReadSize <= arrived - received THEN ReadSize ELSE arrived - received
    BY <2>1, MinOfTwo
  <2> QED
    BY <2>1, <2>2, <1>2, <1>3
<1>6. PeerOK'
  BY <1>1 DEF CInv, PeerOK
<1>7. ReadOK'
  BY <1>1, <1>3, <1>4, <1>5 DEF CInv, ReadOK
<1>8. DecoderOK' /\ HttpOK'
  BY <1>1 DEF CInv, DecoderOK, HttpOK
<1>9. StreamsOK'
  BY <1>1 DEF CInv, StreamsOK
<1>10. WriteOK'
  BY <1>1 DEF CInv, WriteOK, ArmedIffUnsent
<1>11. SentOK'
  BY <1>1 DEF CInv, SentOK
<1>12. LimitLeavesRoom'
  BY <1>1 DEF CInv, LimitLeavesRoom
<1> QED
  BY <1>6, <1>7, <1>8, <1>9, <1>10, <1>11, <1>12 DEF CInv

(* Waiting for the rest of an HTTP request. *)
LEMMA AwaitMorePreserves ==
    ASSUME CInv, AwaitMore
    PROVE  CInv'
<1>1. /\ UNCHANGED <<proto, reqs, arrived, hup, read, received, base, decoded, handled, streams, events>>
      /\ proto = "http" /\ closed = "open"
  BY DEF AwaitMore, peerVars, inVars
<1>2. CASE UNCHANGED outVars
  <2>1. events' \subseteq {"IN", "OUT", "HUP"}
    BY <1>1 DEF CInv, PeerOK
  <2> QED
    BY <1>1, <1>2, <2>1, ClosingPreserves DEF outVars
<1>3. CASE Send(Units("431", handled + 1), TRUE)
  <2>1. handled \in Nat /\ WriteOK /\ SentOK
    BY DEF CInv, ReadOK
  <2>2. WriteOK' /\ SentOK' /\ closed' # "limit"
    BY <1>1, <1>3, <2>1, SendRefuses
  <2>3. PeerOK'
    BY <1>1 DEF CInv, PeerOK
  <2>4. ReadOK' /\ DecoderOK' /\ HttpOK'
    BY <1>1 DEF CInv, ReadOK, DecoderOK, HttpOK
  <2>5. StreamsOK'
    BY <1>1 DEF CInv, StreamsOK
  <2> QED
    BY <2>2, <2>3, <2>4, <2>5 DEF CInv, LimitLeavesRoom
<1> QED
  BY <1>2, <1>3 DEF AwaitMore

(* Executing an HTTP request. *)
LEMMA HandleRequestPreserves ==
    ASSUME CInv, HandleRequest
    PROVE  CInv'
<1> DEFINE r == reqs[handled + 1]
           mark == closing \/ ~r.keep
<1>1. /\ UNCHANGED <<proto, reqs, arrived, hup, read, received, streams, events>>
      /\ proto = "http" /\ closed = "open"
      /\ handled' = handled + 1 /\ decoded' = handled + 1 /\ base' = EndOf(handled + 1)
      /\ Send(Units("ok", handled + 1), mark)
  BY DEF HandleRequest, peerVars
<1>2. handled < Len(reqs) /\ received - base >= r.head + r.body
  BY DEF HandleRequest, AllIn, HeadIn, Have
<1>3. /\ handled \in Nat /\ decoded = handled /\ base = EndIn(reqs, handled) /\ received \in Nat
      /\ reqs \in Seq(Requests) /\ Len(reqs) \in Nat /\ closing \in BOOLEAN
      /\ received <= arrived
  BY <1>1 DEF CInv, ReadOK, PeerOK, HttpOK, WriteOK
<1>4. handled + 1 \in 1 .. Len(reqs) /\ (handled + 1) - 1 = handled /\ handled \in 0 .. Len(reqs)
      /\ handled + 1 \in 0 .. Len(reqs)
  BY <1>2, <1>3
<1>5. r \in Requests /\ r.proto = "http"
  BY <1>1, <1>3, <1>4 DEF CInv, PeerOK
<1>6. r.stream = 0 /\ r.head \in Nat /\ r.body \in Nat /\ r.keep \in BOOLEAN
  BY <1>5, ChannelAssumption DEF Request
<1>7. KindIn(reqs, handled + 1) = "ok"
  BY <1>6 DEF KindIn, RefusedIn
<1>8. mark \in BOOLEAN
  BY <1>3, <1>6
<1>9. EndIn(reqs, handled + 1) = EndIn(reqs, handled) + r.head + r.body
  <2>1. \A j \in 1 .. Len(reqs) : EndIn(reqs, j) = EndIn(reqs, j - 1) + reqs[j].head + reqs[j].body
    BY <1>3, EndSteps
  <2> QED
    BY <2>1, <1>4
<1>10. EndIn(reqs, handled) \in Nat /\ EndIn(reqs, handled + 1) \in Nat
  <2>1. \A j \in 0 .. Len(reqs) : EndIn(reqs, j) \in Nat
    BY <1>3, EndSteps
  <2> QED
    BY <2>1, <1>4
<1> HIDE DEF mark, r
<1>11. EndIn(reqs, handled + 1) <= received
  BY <1>2, <1>3, <1>6, <1>9, <1>10
<1>12. base' = EndIn(reqs, handled + 1)
  BY <1>1, EndOfIs
<1>13. WriteOK /\ SentOK
  BY DEF CInv
<1>14. WriteOK' /\ SentOK' /\ (closed' = "limit" => closed = "limit")
  <2>1. Send(Units(KindIn(reqs, handled + 1), handled + 1), mark)
    BY <1>1, <1>7
  <2> QED
    BY <2>1, <1>1, <1>3, <1>8, <1>13, SendAnswers
<1>15. PeerOK'
  BY <1>1 DEF CInv, PeerOK
<1>16. ReadOK' /\ HttpOK' /\ DecoderOK'
  BY <1>1, <1>3, <1>4, <1>10, <1>11, <1>12 DEF ReadOK, HttpOK, DecoderOK
<1>17. StreamsOK'
  BY <1>1 DEF CInv, StreamsOK
<1>18. LimitLeavesRoom'
  BY <1>1, <1>14 DEF LimitLeavesRoom
<1> QED
  BY <1>14, <1>15, <1>16, <1>17, <1>18 DEF CInv

(* A request more from the peer. *)
LEMMA SendRequestPreserves ==
    ASSUME CInv, NEW r \in Requests, SendRequest(r)
    PROVE  CInv'
<1>1. /\ UNCHANGED <<proto, arrived, hup, read, received, base, decoded, handled, streams,
                     wbuf, armed, closing, closed, wire, events>>
      /\ closed = "open" /\ r.proto = proto /\ Len(reqs) < MaxRequests
      /\ reqs' = Append(reqs, r)
  BY DEF SendRequest, inVars, outVars
<1>2. /\ reqs \in Seq(Requests) /\ Len(reqs) \in Nat /\ arrived \in Nat
      /\ arrived <= EndIn(reqs, Len(reqs)) /\ \A i \in 1 .. Len(reqs) : reqs[i].proto = proto
  BY DEF CInv, PeerOK
<1>3. /\ received \in Nat /\ base \in Nat /\ decoded \in Nat /\ handled \in Nat
      /\ received <= arrived /\ handled <= decoded /\ decoded <= Len(reqs)
      /\ base <= EndIn(reqs, decoded) /\ EndIn(reqs, decoded) <= received
  BY DEF CInv, ReadOK
<1>4. /\ reqs' \in Seq(Requests) /\ Len(reqs') = Len(reqs) + 1
      /\ reqs'[Len(reqs) + 1] = r /\ \A i \in 1 .. Len(reqs) : reqs'[i] = reqs[i]
  BY <1>1, <1>2
<1>5. \A j \in 0 .. Len(reqs) : EndIn(reqs', j) = EndIn(reqs, j)
  BY <1>1, <1>2, EndAppend
<1>6. /\ \A j \in 0 .. Len(reqs) : OpenIn(reqs')[j] = OpenIn(reqs)[j]
      /\ \A j \in 1 .. Len(reqs) : KindIn(reqs', j) = KindIn(reqs, j)
  BY <1>1, <1>2, OpenAppend
<1>7. EndIn(reqs, Len(reqs)) < EndIn(reqs', Len(reqs) + 1) /\ EndIn(reqs, Len(reqs)) \in Nat
      /\ EndIn(reqs', Len(reqs) + 1) \in Nat
  <2>1. /\ Len(reqs) \in 0 .. Len(reqs') /\ Len(reqs) + 1 \in 0 .. Len(reqs')
        /\ Len(reqs) < Len(reqs) + 1
        /\ Len(reqs) \in 0 .. Len(reqs)
    BY <1>2, <1>4
  <2>2. EndIn(reqs', Len(reqs)) < EndIn(reqs', Len(reqs) + 1)
    BY <1>4, <2>1, EndGrows
  <2>3. \A j \in 0 .. Len(reqs') : EndIn(reqs', j) \in Nat
    BY <1>4, EndSteps
  <2> QED
    BY <1>5, <2>1, <2>2, <2>3
<1>8. EndIn(reqs', decoded) = EndIn(reqs, decoded) /\ EndIn(reqs', handled) = EndIn(reqs, handled)
  <2>1. decoded \in 0 .. Len(reqs) /\ handled \in 0 .. Len(reqs)
    BY <1>2, <1>3
  <2> QED
    BY <1>5, <2>1
<1>9. PeerOK'
  <2>1. ASSUME NEW i \in 1 .. Len(reqs') PROVE reqs'[i].proto = proto
    <3>1. i = Len(reqs) + 1 \/ i \in 1 .. Len(reqs)
      BY <1>2, <1>4
    <3> QED
      BY <3>1, <1>1, <1>2, <1>4
  <2>2. Len(reqs') <= MaxRequests
    BY <1>1, <1>2, <1>4, Sizes
  <2>3. arrived <= EndIn(reqs', Len(reqs'))
    BY <1>2, <1>4, <1>7
  <2>4. proto \in Protocols /\ hup \in BOOLEAN /\ events \subseteq {"IN", "OUT", "HUP"}
    BY DEF CInv, PeerOK
  <2> QED
    BY <1>1, <1>2, <1>4, <2>1, <2>2, <2>3, <2>4 DEF PeerOK
<1>10. ReadOK'
  BY <1>1, <1>2, <1>3, <1>4, <1>8 DEF ReadOK
<1>11. DecoderOK'
  <2>1. ASSUME proto = "gkwp2" PROVE received < EndIn(reqs', decoded + 1)
    <3>1. CASE decoded = Len(reqs)
      BY <3>1, <1>2, <1>3, <1>7
    <3>2. CASE decoded < Len(reqs)
      <4>1. decoded + 1 \in 0 .. Len(reqs)
        BY <3>2, <1>2, <1>3
      <4>2. received < EndIn(reqs, decoded + 1)
        BY <2>1, <3>2 DEF CInv, DecoderOK
      <4> QED
        BY <4>1, <4>2, <1>5
    <3> QED
      BY <3>1, <3>2, <1>2, <1>3
  <2> QED
    BY <1>1, <1>8, <2>1 DEF CInv, DecoderOK
<1>12. HttpOK'
  BY <1>1, <1>8 DEF CInv, HttpOK
<1>13. StreamsOK'
  <2>1. handled \in 0 .. Len(reqs)
    BY <1>2, <1>3
  <2>2. OpenIn(reqs')[handled] = OpenIn(reqs)[handled]
    BY <2>1, <1>6
  <2> QED
    BY <1>1, <2>2 DEF CInv, StreamsOK
<1>14. WriteOK'
  BY <1>1 DEF CInv, WriteOK, ArmedIffUnsent
<1>15. SentOK'
  <2> DEFINE out == wire \o wbuf
  <2>1. out \in Seq(Unit)
    BY ConcatProperties DEF CInv, WriteOK
  <2>2. Ordered(out, reqs, handled)
    BY DEF CInv, SentOK
  <2>3. \A i \in 1 .. handled : KindIn(reqs', i) = KindIn(reqs, i)
    BY <1>2, <1>3, <1>6
  <2>4. wire' \o wbuf' = out
    BY <1>1
  <2> HIDE DEF out
  <2>5. Ordered(out, reqs', handled)
    <3>1. handled <= handled
      BY <1>3
    <3> QED
      BY <3>1, <2>1, <2>2, <2>3, <1>3, OrderedLater
  <2>6. Ordered(wire' \o wbuf', reqs', handled')
    BY <1>1, <2>4, <2>5
  <2>7. /\ closed' = "open" => Count(wire' \o wbuf') = handled' * AnswerSize
        /\ closed' = "done" => Count(wire') = handled' * AnswerSize
    BY <1>1 DEF CInv, SentOK
  <2> QED
    BY <2>6, <2>7 DEF SentOK
<1>16. LimitLeavesRoom'
  BY <1>1 DEF LimitLeavesRoom
<1> QED
  BY <1>9, <1>10, <1>11, <1>12, <1>13, <1>14, <1>15, <1>16 DEF CInv

(* What else the peer and the network do. *)
LEMMA PeerPreserves ==
    ASSUME CInv, Arrive \/ PeerCloses \/ PeerReads
    PROVE  CInv'
<1>1. /\ UNCHANGED <<proto, reqs, received, base, decoded, handled, streams,
                     wbuf, armed, closing, closed, wire, events>>
      /\ closed = "open"
  BY DEF Arrive, PeerCloses, PeerReads, inVars, outVars
<1>2. /\ reqs \in Seq(Requests) /\ arrived \in Nat /\ hup \in BOOLEAN
      /\ arrived <= EndIn(reqs, Len(reqs)) /\ received \in Nat /\ received <= arrived
      /\ read \in Nat /\ read <= Len(wire) /\ Len(wire) - read <= SocketSize
      /\ wire \in Seq(Unit)
  BY DEF CInv, PeerOK, ReadOK, WriteOK
<1>3. /\ arrived' \in Nat /\ arrived <= arrived'
      /\ arrived' <= EndIn(reqs, Len(reqs)) /\ hup' \in BOOLEAN
  <2>1. CASE Arrive
    <3>1. EndIn(reqs, Len(reqs)) \in Nat
      <4>1. Len(reqs) \in 0 .. Len(reqs)
        BY <1>2
      <4> QED
        BY <4>1, <1>2, EndSteps
    <3>2. arrived < EndIn(reqs, Len(reqs)) /\ arrived' = arrived + 1 /\ hup' = hup
      BY <2>1, EndOfIs DEF Arrive
    <3> QED
      BY <3>1, <3>2, <1>2
  <2>2. CASE ~Arrive
    <3>1. arrived' = arrived
      BY <2>2 DEF PeerCloses, PeerReads
    <3>2. hup' \in BOOLEAN
      <4>1. CASE PeerCloses
        BY <4>1 DEF PeerCloses
      <4>2. CASE PeerReads
        BY <4>2, <1>2 DEF PeerReads
      <4> QED
        BY <2>2, <4>1, <4>2
    <3>3. arrived <= arrived
      BY <1>2
    <3> QED
      BY <3>1, <3>2, <3>3, <1>2
  <2> QED
    BY <2>1, <2>2
<1>4. read' \in Nat /\ read' <= Len(wire) /\ Len(wire) - read' <= SocketSize
  <2>1. read' = read \/ read' = Len(wire)
    BY DEF Arrive, PeerCloses, PeerReads
  <2> QED
    BY <2>1, <1>2, Sizes
<1>5. PeerOK'
  BY <1>1, <1>2, <1>3 DEF CInv, PeerOK
<1>6. ReadOK'
  BY <1>1, <1>2, <1>3 DEF CInv, ReadOK
<1>7. DecoderOK' /\ HttpOK'
  BY <1>1 DEF CInv, DecoderOK, HttpOK
<1>8. StreamsOK'
  BY <1>1 DEF CInv, StreamsOK
<1>9. WriteOK'
  BY <1>1, <1>4 DEF CInv, WriteOK, ArmedIffUnsent
<1>10. SentOK'
  BY <1>1 DEF CInv, SentOK
<1>11. LimitLeavesRoom'
  BY <1>1 DEF LimitLeavesRoom
<1> QED
  BY <1>5, <1>6, <1>7, <1>8, <1>9, <1>10, <1>11 DEF CInv

(* The invariant holds when the connection is accepted. *)
LEMMA InitHolds == Init => CInv
<1> SUFFICES ASSUME Init PROVE CInv
  OBVIOUS
<1>1. /\ proto \in Protocols /\ reqs = <<>> /\ arrived = 0 /\ read = 0
      /\ received = 0 /\ base = 0 /\ decoded = 0 /\ handled = 0
      /\ streams = {} /\ wbuf = <<>> /\ closed = "open" /\ wire = <<>> /\ events = {}
  BY DEF Init
<1>2. hup = FALSE /\ armed = FALSE /\ closing = FALSE
  BY DEF Init
<1>3. <<>> \in Seq(Requests) /\ <<>> \in Seq(Unit) /\ Len(<<>>) = 0
  OBVIOUS
<1>4. EndIn(<<>>, 0) = 0 /\ OpenIn(<<>>)[0] = {}
  BY <1>3, EndSteps, OpenSteps
<1>5. PeerOK
  <2>1. \A i \in 1 .. Len(reqs) : reqs[i].proto = proto
    BY <1>1, <1>3
  <2>2. reqs \in Seq(Requests) /\ Len(reqs) <= MaxRequests /\ arrived \in Nat
    BY <1>1, <1>3, Sizes
  <2>3. arrived <= EndIn(reqs, Len(reqs))
    <3>1. EndIn(reqs, Len(reqs)) = 0
      BY <1>1, <1>3, <1>4
    <3> QED
      BY <3>1, <1>1
  <2>4. hup \in BOOLEAN
    BY <1>2
  <2> QED
    BY <1>1, <2>1, <2>2, <2>3, <2>4 DEF PeerOK
<1>6. ReadOK /\ DecoderOK /\ HttpOK
  BY <1>1, <1>3, <1>4, Sizes DEF ReadOK, DecoderOK, HttpOK
<1>7. IsFiniteSet({}) /\ Cardinality({}) = 0
  BY FS_EmptySet
<1>8. StreamsOK
  BY <1>1, <1>4, <1>7, Sizes DEF StreamsOK
<1>9. WriteOK
  <2>1. /\ wbuf \in Seq(Unit) /\ wire \in Seq(Unit) /\ read \in Nat /\ read <= Len(wire)
        /\ Len(wire) - read <= SocketSize /\ Len(wbuf) <= MaxWrite /\ closed # "done"
    BY <1>1, <1>3, Sizes
  <2>2. armed \in BOOLEAN /\ closing \in BOOLEAN /\ ~closing
    BY <1>2
  <2>3. ArmedIffUnsent
    BY <1>1, <1>2 DEF ArmedIffUnsent
  <2> QED
    BY <2>1, <2>2, <2>3 DEF WriteOK
<1>10. wire \o wbuf = <<>>
  BY <1>1, <1>3, ConcatEmptySeq
<1>11. AnswersOf(<<>>) = {}
  BY <1>3 DEF AnswersOf
<1>12. Ordered(<<>>, reqs, handled)
  BY <1>11 DEF Ordered
<1>13. Count(<<>>) = 0
  BY <1>7, <1>11 DEF Count
<1>14. handled * AnswerSize = 0
  BY <1>1, Sizes
<1>15. SentOK
  BY <1>1, <1>10, <1>12, <1>13, <1>14 DEF SentOK
<1>16. LimitLeavesRoom
  BY <1>1 DEF LimitLeavesRoom
<1> QED
  BY <1>5, <1>6, <1>8, <1>9, <1>15, <1>16 DEF CInv

(* Every step preserves the invariant. *)
LEMMA StepHolds == CInv /\ [Next]_vars => CInv'
<1> SUFFICES ASSUME CInv, [Next]_vars PROVE CInv'
  OBVIOUS
<1>1. CASE UNCHANGED vars
  <2>1. events' \subseteq {"IN", "OUT", "HUP"}
    BY <1>1 DEF vars, CInv, PeerOK
  <2> QED
    BY <1>1, <2>1, ClosingPreserves DEF vars
<1>2. CASE Poll \/ RecvEnds \/ HangUp \/ FramesDone \/ Malformed
  BY <1>2, MovesPreserve
<1>3. CASE HandleWrite
  BY <1>3, HandleWritePreserves
<1>4. CASE RecvGkwp2
  BY <1>4, RecvGkwp2Preserves
<1>5. CASE HandleFrame
  BY <1>5, HandleFramePreserves
<1>6. CASE RecvHttp
  BY <1>6, RecvHttpPreserves
<1>7. CASE AwaitMore
  BY <1>7, AwaitMorePreserves
<1>8. CASE HandleRequest
  BY <1>8, HandleRequestPreserves
<1>9. ASSUME NEW r \in Requests, SendRequest(r) PROVE CInv'
  BY <1>9, SendRequestPreserves
<1>10. CASE Arrive \/ PeerCloses \/ PeerReads
  BY <1>10, PeerPreserves
<1> QED
  BY <1>1, <1>2, <1>3, <1>4, <1>5, <1>6, <1>7, <1>8, <1>9, <1>10 DEF Next, Worker

-----------------------------------------------------------------------------
(***************************************************************************)
(* The invariant CInv: whatever the peer sends, in whatever pieces, and at *)
(* whatever pace it reads, the counters of the read side, the open streams *)
(* and what was sent and is unsent stay in step.                           *)
(***************************************************************************)
THEOREM Invariance == Spec => []CInv
<1>1. Init => CInv
  BY InitHolds
<1>2. CInv /\ [Next]_vars => CInv'
  BY StepHolds
<1> QED
  BY <1>1, <1>2, PTL DEF Spec

(***************************************************************************)
(* Type correctness: the counters of the read side never overtake each     *)
(* other, and the decoder's buffer, the GKWP/2 write buffer, the streams   *)
(* and the socket stay within their limits.                                *)
(***************************************************************************)
THEOREM TypeCorrect == Spec => []TypeOK
<1>1. CInv => TypeOK
  <2> SUFFICES ASSUME CInv PROVE TypeOK
    OBVIOUS
  <2>1. \A i : EndOf(i) = EndIn(reqs, i)
    BY EndOfIs
  <2>2. /\ reqs \in Seq(Requests) /\ Len(reqs) <= MaxRequests /\ Len(reqs) \in Nat
        /\ arrived <= EndOf(Len(reqs)) /\ events \subseteq {"IN", "OUT", "HUP"} /\ hup \in BOOLEAN
    BY <2>1 DEF CInv, PeerOK
  <2>3. /\ received \in Nat /\ base \in Nat /\ decoded \in Nat /\ handled \in Nat
        /\ received <= arrived /\ handled <= decoded /\ decoded <= Len(reqs)
    BY DEF CInv, ReadOK
  <2>4. base <= received
    <3>1. base <= EndIn(reqs, decoded) /\ EndIn(reqs, decoded) <= received
      BY DEF CInv, ReadOK
    <3>2. decoded \in 0 .. Len(reqs)
      BY <2>2, <2>3
    <3>3. EndIn(reqs, decoded) \in Nat
      BY <3>2, <2>2, EndSteps
    <3> QED
      BY <3>1, <3>3, <2>3
  <2>5. streams \subseteq {r.stream : r \in Requests} \ {0} /\ Cardinality(streams) <= MaxStreams
    BY DEF CInv, StreamsOK, Streams
  <2>6. proto = "gkwp2" => received - base <= MaxDecoder /\ Len(wbuf) <= MaxWrite
    BY DEF CInv, DecoderOK, WriteOK
  <2>7. 0 <= Room /\ Room <= SocketSize
    <3>1. /\ wire \in Seq(Unit) /\ read \in Nat /\ read <= Len(wire)
          /\ Len(wire) - read <= SocketSize
      BY DEF CInv, WriteOK
    <3> QED
      BY <3>1, Sizes DEF Room
  <2>8. armed \in BOOLEAN /\ closing \in BOOLEAN
    BY DEF CInv, WriteOK
  <2> QED
    BY <2>2, <2>3, <2>4, <2>5, <2>6, <2>7, <2>8 DEF TypeOK
<1> QED
  BY <1>1, Invariance, PTL

(***************************************************************************)
(* Answers come in the order of the requests (Decoder, ProcessFrames and   *)
(* Send; HttpChannel::ProcessReadBuffer and Send): for any sizes of the    *)
(* buffers, the requests and the answers, and however requests and answers *)
(* are cut into pieces.                                                    *)
(***************************************************************************)
THEOREM AnswersInOrder == Spec => []InOrder
<1>1. CInv => InOrder
  <2> SUFFICES ASSUME CInv PROVE InOrder
    OBVIOUS
  <2>1. /\ wire \in Seq(Unit) /\ wbuf \in Seq(Unit) /\ handled \in Nat
        /\ Ordered(wire \o wbuf, reqs, handled)
    BY DEF CInv, WriteOK, ReadOK, SentOK
  <2>2. Ordered(wire, reqs, handled)
    BY <2>1, FrontOrdered
  <2>3. AnswerAt = AnswersOf(wire) /\ \A p : AnsweredUpTo(p) = RankIn(wire, p)
    BY DEF AnswerAt, AnswersOf, IsAnswer, AnsweredUpTo, RankIn
  <2>4. \A i : Kind(i) = KindIn(reqs, i)
    BY KindIs
  <2> QED
    BY <2>2, <2>3, <2>4 DEF Ordered, InOrder
<1> QED
  BY <1>1, Invariance, PTL

(***************************************************************************)
(* EPOLLOUT is asked for exactly as long as something is unsent.           *)
(***************************************************************************)
THEOREM ArmedWhileUnsent == Spec => []ArmedIffUnsent
<1>1. CInv => ArmedIffUnsent
  BY DEF CInv, WriteOK
<1> QED
  BY <1>1, Invariance, PTL

(***************************************************************************)
(* A connection closed after its last answer has sent all its answers      *)
(* (close_after_write_).                                                   *)
(***************************************************************************)
THEOREM FlushedBeforeClose == Spec => []ClosesAfterFlush
<1>1. CInv => ClosesAfterFlush
  BY DEF CInv, SentOK, ClosesAfterFlush, Count, AnswersOf, AnswerAt, IsAnswer
<1> QED
  BY <1>1, Invariance, PTL

(***************************************************************************)
(* The decoder refuses for lack of room only a frame that leaves no space  *)
(* for the consumed bytes it may keep and for one read.                    *)
(***************************************************************************)
THEOREM RoomForFrames == Spec => []LimitLeavesRoom
<1>1. CInv => LimitLeavesRoom
  BY DEF CInv
<1> QED
  BY <1>1, Invariance, PTL
=============================================================================
