--------------------------- MODULE HashScanProofs ---------------------------
(***************************************************************************)
(* The hash tables and the walks over them, for any number of shards and   *)
(* keys, any hash functions and any interleaving of writes with a walk.    *)
(*                                                                         *)
(* The heart of the argument is arithmetic: a table grows by doubling, and *)
(* x % 2c is either x % c or c more, so that an entry in a bucket that the *)
(* cursor has not reached moves only to buckets it has not reached.        *)
(***************************************************************************)
EXTENDS HashScan, FiniteSetTheorems, WellFoundedInduction, TLAPS

-----------------------------------------------------------------------------
(* Arithmetic. *)

(* Division with remainder. *)
LEMMA Remainder ==
    ASSUME NEW x \in Nat, NEW c \in Nat \ {0}
    PROVE  x % c \in 0 .. c - 1 /\ x \div c \in Nat /\ x = c * (x \div c) + (x % c)
OBVIOUS

(* The remainder is the only one in its range. *)
LEMMA RemainderUnique ==
    ASSUME NEW q \in Nat, NEW c \in Nat \ {0}, NEW r \in 0 .. c - 1
    PROVE  (c * q + r) % c = r
OBVIOUS

(* In a table twice as large a hash stays where it was or moves up by the old size. *)
LEMMA RemainderOfDouble ==
    ASSUME NEW x \in Nat, NEW c \in Nat \ {0}
    PROVE  x % (2 * c) \in {x % c, (x % c) + c}
<1> DEFINE d == 2 * c
           q == x \div d
           r == x % d
<1>1. d \in Nat \ {0}
  OBVIOUS
<1>2. q \in Nat /\ r \in 0 .. d - 1 /\ x = d * q + r
  BY <1>1, Remainder
<1> HIDE DEF q, r
<1>3. CASE r < c
  <2>1. x = c * (2 * q) + r /\ 2 * q \in Nat /\ r \in 0 .. c - 1
    BY <1>2, <1>3
  <2>2. x % c = r
    BY <2>1, RemainderUnique
  <2> QED
    BY <2>2 DEF r
<1>4. CASE r >= c
  <2>1. x = c * (2 * q + 1) + (r - c) /\ 2 * q + 1 \in Nat /\ r - c \in 0 .. c - 1
    BY <1>2, <1>4
  <2>2. x % c = r - c
    BY <2>1, RemainderUnique
  <2>3. r = (x % c) + c
    BY <1>2, <2>2
  <2> QED
    BY <2>3 DEF r
<1> QED
  BY <1>2, <1>3, <1>4

(* A non-empty set of natural numbers has a least element. *)
LEMMA MinInSet ==
    ASSUME NEW S, S \subseteq Nat, S # {}
    PROVE  Min(S) \in S
<1> DEFINE below == {p \in Nat \X Nat : p[1] < p[2]}
<1>1. IsWellFoundedOn(below, Nat)
  BY NatLessThanWellFounded DEF OpToRel
<1> HIDE DEF below
<1>2. PICK m \in S : \A n \in S : ~(<<n, m>> \in below)
  BY <1>1, WFMin
<1>3. \A n \in S : m <= n
  <2> SUFFICES ASSUME NEW n \in S, ~(m <= n) PROVE FALSE
    OBVIOUS
  <2>1. m \in Nat /\ n \in Nat /\ n < m
    OBVIOUS
  <2>2. <<n, m>> \in below
    BY <2>1 DEF below
  <2> QED
    BY <1>2, <2>2
<1>4. \E x \in S : \A y \in S : x =< y
  BY <1>3
<1> QED
  BY <1>4 DEF Min

(* Induction over the natural numbers, with a set for the predicate. *)
LEMMA NatSetInduction ==
    ASSUME NEW P, 0 \in P, \A n \in Nat : n \in P => n + 1 \in P
    PROVE  \A n \in Nat : n \in P
<1> DEFINE below == {p \in Nat \X Nat : p[1] < p[2]}
           bad == Nat \ P
<1>1. IsWellFoundedOn(below, Nat)
  BY NatLessThanWellFounded DEF OpToRel
<1> SUFFICES ASSUME bad # {} PROVE FALSE
  OBVIOUS
<1>2. bad \subseteq Nat
  OBVIOUS
<1> HIDE DEF below, bad
<1>3. PICK m \in bad : \A n \in bad : ~(<<n, m>> \in below)
  BY <1>1, <1>2, WFMin
<1>4. m \in Nat /\ m # 0 /\ m \notin P
  BY <1>3, <1>2 DEF bad
<1>5. m - 1 \in Nat /\ <<m - 1, m>> \in below
  BY <1>4 DEF below
<1>6. m - 1 \in P
  BY <1>3, <1>5 DEF bad
<1>7. (m - 1) + 1 \in P
  BY <1>5, <1>6
<1> QED
  BY <1>4, <1>7

-----------------------------------------------------------------------------
(* The pattern matcher *)

(* The loop sees the character c at place p of the pattern. *)
At(pat, p, c) == p < Len(pat) /\ pat[p + 1] = c

(* The three ways the loop goes on. *)
Onward(x) == [x EXCEPT !.p = @ + 1, !.s = @ + 1]
ToStar(x) == [x EXCEPT !.p = @ + 1, !.star = x.p, !.match = x.s]
Back(x) == [x EXCEPT !.p = x.star + 1, !.s = x.match + 1, !.match = @ + 1]

Body(pat, str, f, x) ==
    IF x.s = Len(str) THEN RestMatches(pat, x.p)
    ELSE IF At(pat, x.p, "?") \/ At(pat, x.p, str[x.s + 1]) THEN f[Onward(x)]
    ELSE IF At(pat, x.p, "*") THEN f[ToStar(x)]
    ELSE IF x.star # -1 THEN f[Back(x)]
    ELSE FALSE

Loops(f, pat, str) == f = [x \in Places(pat, str) |-> Body(pat, str, f, x)]

(* What the loop has left to do: each '*' it goes back to is tried further on. *)
Rank(pat, str, x) == (Len(str) - x.match) * (Len(pat) + 1) + (Len(pat) - x.p)

(* A place by its parts. *)
LEMMA PlaceParts ==
    ASSUME NEW S, NEW pat \in Seq(S), NEW str \in Seq(S), NEW x \in Places(pat, str)
    PROVE  /\ Len(pat) \in Nat /\ Len(str) \in Nat
           /\ x.p \in Nat /\ x.p <= Len(pat) /\ x.s \in Nat /\ x.s <= Len(str)
           /\ x.star \in Int /\ x.star >= -1 /\ x.star < x.p
           /\ x.match \in Nat /\ x.match <= x.s
BY DEF Places

(* Where each way leads. *)
LEMMA WaysLead ==
    ASSUME NEW S, NEW pat \in Seq(S), NEW str \in Seq(S), NEW x \in Places(pat, str),
           x.s # Len(str)
    PROVE  /\ x.p < Len(pat) =>
                 /\ Onward(x) \in Places(pat, str)
                 /\ Onward(x).p = x.p + 1 /\ Onward(x).s = x.s + 1
                 /\ Onward(x).star = x.star /\ Onward(x).match = x.match
                 /\ ToStar(x) \in Places(pat, str)
                 /\ ToStar(x).p = x.p + 1 /\ ToStar(x).s = x.s
                 /\ ToStar(x).star = x.p /\ ToStar(x).match = x.s
           /\ x.star # -1 =>
                 /\ Back(x) \in Places(pat, str)
                 /\ Back(x).p = x.star + 1 /\ Back(x).s = x.match + 1
                 /\ Back(x).star = x.star /\ Back(x).match = x.match + 1
<1>1. /\ Len(pat) \in Nat /\ Len(str) \in Nat
      /\ x.p \in Nat /\ x.p <= Len(pat) /\ x.s \in Nat /\ x.s <= Len(str)
      /\ x.star \in Int /\ x.star >= -1 /\ x.star < x.p
      /\ x.match \in Nat /\ x.match <= x.s
  BY PlaceParts
<1>2. x \in [p : Int, s : Int, star : Int, match : Int]
  BY DEF Places
<1> DEFINE Place == [p : Int, s : Int, star : Int, match : Int]
<1>i. x.p + 1 \in Int /\ x.s + 1 \in Int /\ x.star + 1 \in Int /\ x.match + 1 \in Int
  BY <1>1
<1>j. x.p \in Int /\ x.s \in Int
  BY <1>1
<1>3. /\ Onward(x).p = x.p + 1 /\ Onward(x).s = x.s + 1
      /\ Onward(x).star = x.star /\ Onward(x).match = x.match
      /\ Onward(x) \in Place
  <2>1. ASSUME NEW i \in Int, NEW j \in Int
        PROVE  LET y == [x EXCEPT !.p = i, !.s = j]
               IN  y.p = i /\ y.s = j /\ y.star = x.star /\ y.match = x.match /\ y \in Place
    BY <1>2
  <2> QED
    BY <1>i, <2>1 DEF Onward
<1>a. /\ ToStar(x).p = x.p + 1 /\ ToStar(x).s = x.s
      /\ ToStar(x).star = x.p /\ ToStar(x).match = x.s
      /\ ToStar(x) \in Place
  <2>1. ASSUME NEW i \in Int, NEW j \in Int, NEW k \in Int
        PROVE  LET y == [x EXCEPT !.p = i, !.star = j, !.match = k]
               IN  y.p = i /\ y.s = x.s /\ y.star = j /\ y.match = k /\ y \in Place
    BY <1>2
  <2> QED
    BY <1>i, <1>j, <2>1 DEF ToStar
<1>b. /\ Back(x).p = x.star + 1 /\ Back(x).s = x.match + 1
      /\ Back(x).star = x.star /\ Back(x).match = x.match + 1
      /\ Back(x) \in Place
  <2>1. ASSUME NEW i \in Int, NEW j \in Int, NEW k \in Int
        PROVE  LET y == [x EXCEPT !.p = i, !.s = j, !.match = k]
               IN  y.p = i /\ y.s = j /\ y.star = x.star /\ y.match = k /\ y \in Place
    BY <1>2
  <2> QED
    BY <1>i, <2>1 DEF Back
<1>c. ASSUME NEW y \in Place,
             y.p \in 0 .. Len(pat), y.s \in 0 .. Len(str), y.star \in -1 .. Len(pat) - 1,
             y.match \in 0 .. Len(str), y.star < y.p, y.match <= y.s
      PROVE  y \in Places(pat, str)
  BY <1>c DEF Places
<1>4. ASSUME x.p < Len(pat)
      PROVE  /\ Onward(x) \in Places(pat, str)
             /\ Onward(x).p = x.p + 1 /\ Onward(x).s = x.s + 1
             /\ Onward(x).star = x.star /\ Onward(x).match = x.match
             /\ ToStar(x) \in Places(pat, str)
             /\ ToStar(x).p = x.p + 1 /\ ToStar(x).s = x.s
             /\ ToStar(x).star = x.p /\ ToStar(x).match = x.s
  <2> HIDE DEF Place
  <2>0. /\ x.p + 1 \in 0 .. Len(pat) /\ x.s + 1 \in 0 .. Len(str) /\ x.s \in 0 .. Len(str)
        /\ x.star \in -1 .. Len(pat) - 1 /\ x.p \in -1 .. Len(pat) - 1
        /\ x.match \in 0 .. Len(str)
        /\ x.star < x.p + 1 /\ x.p < x.p + 1 /\ x.match <= x.s + 1 /\ x.s <= x.s
    BY <1>1, <1>4
  <2>1. Onward(x) \in Places(pat, str)
    BY <1>3, <1>c, <2>0
  <2>2. ToStar(x) \in Places(pat, str)
    BY <1>a, <1>c, <2>0
  <2> QED
    BY <1>3, <1>a, <2>1, <2>2
<1>5. ASSUME x.star # -1
      PROVE  /\ Back(x) \in Places(pat, str)
             /\ Back(x).p = x.star + 1 /\ Back(x).s = x.match + 1
             /\ Back(x).star = x.star /\ Back(x).match = x.match + 1
  <2> HIDE DEF Place
  <2>0. /\ x.star + 1 \in 0 .. Len(pat) /\ x.match + 1 \in 0 .. Len(str)
        /\ x.star \in -1 .. Len(pat) - 1 /\ x.star < x.star + 1 /\ x.match + 1 <= x.match + 1
    BY <1>1, <1>5
  <2>1. Back(x) \in Places(pat, str)
    BY <1>b, <1>c, <2>0
  <2> QED
    BY <1>b, <2>1
<1> QED
  BY <1>4, <1>5

(* Lexicographic order as one number. *)
LEMMA RankArithmetic ==
    ASSUME NEW a \in Nat, NEW b \in Nat, NEW n \in Nat, NEW c \in 0 .. n, NEW d \in 0 .. n,
           a < b \/ (a = b /\ c < d)
    PROVE  /\ a * (n + 1) + c \in Nat /\ b * (n + 1) + d \in Nat
           /\ a * (n + 1) + c < b * (n + 1) + d
<1>1. a * (n + 1) \in Nat /\ b * (n + 1) \in Nat
  OBVIOUS
<1>2. CASE a = b
  BY <1>1, <1>2
<1>3. CASE a < b
  <2>1. PICK k \in Nat : b = a + 1 + k
    <3>1. b - a - 1 \in Nat
      BY <1>3
    <3> QED
      BY <3>1
  <2>2. b * (n + 1) = a * (n + 1) + (n + 1) + k * (n + 1)
    BY <2>1
  <2>3. k * (n + 1) \in Nat
    OBVIOUS
  <2> QED
    BY <1>1, <2>2, <2>3
<1> QED
  BY <1>2, <1>3

(* How much there is to do at most. *)
LEMMA RankIsNat ==
    ASSUME NEW S, NEW pat \in Seq(S), NEW str \in Seq(S)
    PROVE  /\ Len(str) * (Len(pat) + 1) + Len(pat) + 1 \in Nat
           /\ \A x \in Places(pat, str) :
                 /\ Rank(pat, str, x) \in Nat
                 /\ Rank(pat, str, x) < Len(str) * (Len(pat) + 1) + Len(pat) + 1
<1> DEFINE n == Len(pat)
           l == Len(str)
<1>1. n \in Nat /\ l \in Nat
  OBVIOUS
<1>2. ASSUME NEW x \in Places(pat, str)
      PROVE  x.match \in Nat /\ x.match <= l /\ x.p \in Nat /\ x.p <= n
  BY PlaceParts
<1> HIDE DEF n, l
<1>3. l * (n + 1) \in Nat /\ n + 1 \in Nat
  BY <1>1
<1>4. ASSUME NEW x \in Places(pat, str)
      PROVE  Rank(pat, str, x) \in Nat /\ Rank(pat, str, x) < l * (n + 1) + n + 1
  <2> DEFINE i == x.p
             j == x.match
  <2>1. j \in Nat /\ j <= l /\ i \in Nat /\ i <= n
    BY <1>2
  <2> HIDE DEF i, j
  <2>2. l - j \in Nat /\ n - i \in 0 .. n
    BY <1>1, <2>1
  <2>3. j * (n + 1) \in Nat /\ (l - j) * (n + 1) \in Nat
    BY <1>3, <2>1, <2>2
  <2>4. (l - j) * (n + 1) = l * (n + 1) - j * (n + 1)
    BY <1>1, <2>1
  <2>5. /\ (l - j) * (n + 1) + (n - i) \in Nat
        /\ (l - j) * (n + 1) + (n - i) < l * (n + 1) + n + 1
    BY <1>1, <1>3, <2>1, <2>2, <2>3, <2>4
  <2> QED
    BY <2>5 DEF Rank, n, l, i, j
<1> QED
  BY <1>1, <1>3, <1>4 DEF n, l

(* Every way leaves less to do. *)
LEMMA RankFalls ==
    ASSUME NEW S, NEW pat \in Seq(S), NEW str \in Seq(S), NEW x \in Places(pat, str),
           x.s # Len(str)
    PROVE  /\ Rank(pat, str, x) \in Nat
           /\ x.p < Len(pat) =>
                 /\ Rank(pat, str, Onward(x)) < Rank(pat, str, x)
                 /\ Rank(pat, str, ToStar(x)) < Rank(pat, str, x)
           /\ x.star # -1 => Rank(pat, str, Back(x)) < Rank(pat, str, x)
<1> DEFINE n == Len(pat)
           l == Len(str)
<1>1. /\ n \in Nat /\ l \in Nat
      /\ x.p \in Nat /\ x.p <= n /\ x.s \in Nat /\ x.s <= l
      /\ x.star \in Int /\ x.star >= -1 /\ x.star < x.p
      /\ x.match \in Nat /\ x.match <= x.s
  BY PlaceParts
<1> HIDE DEF n, l
<1>2. Rank(pat, str, x) \in Nat
  <2> DEFINE i == x.p
             j == x.match
             k == x.s
  <2>0. /\ i \in Nat /\ i <= n /\ k \in Nat /\ k <= l /\ j \in Nat /\ j <= k
        /\ n \in Nat /\ l \in Nat
    BY <1>1
  <2> HIDE DEF i, j, k
  <2>a. l - j \in Nat /\ n - i \in Nat /\ n + 1 \in Nat
    BY ONLY <2>0
  <2>1. l - x.match \in Nat /\ n - x.p \in Nat /\ n + 1 \in Nat
    BY <2>a DEF i, j
  <2>2. (l - x.match) * (n + 1) \in Nat
    BY <2>1
  <2> QED
    BY <2>1, <2>2 DEF Rank, n, l
<1>3. ASSUME NEW y, NEW q \in Nat, NEW m \in Nat, y.p = q, y.match = m, q <= n, m <= l,
             m > x.match \/ (m = x.match /\ q > x.p)
      PROVE  Rank(pat, str, y) < Rank(pat, str, x)
  <2> DEFINE i == x.p
             j == x.match
  <2>0. i \in Nat /\ i <= n /\ j \in Nat /\ j <= l /\ (m > j \/ (m = j /\ q > i))
    BY <1>1, <1>3
  <2> HIDE DEF i, j
  <2>1. /\ l - m \in Nat /\ l - j \in Nat /\ n - q \in 0 .. n /\ n - i \in 0 .. n
        /\ l - m < l - j \/ (l - m = l - j /\ n - q < n - i)
    BY <1>1, <1>3, <2>0
  <2>2. (l - m) * (n + 1) + (n - q) < (l - j) * (n + 1) + (n - i)
    BY <1>1, <2>1, RankArithmetic
  <2> QED
    BY <1>3, <2>2 DEF Rank, n, l, i, j
<1>4. ASSUME x.p < n
      PROVE  /\ Rank(pat, str, Onward(x)) < Rank(pat, str, x)
             /\ Rank(pat, str, ToStar(x)) < Rank(pat, str, x)
  <2>1. /\ Onward(x).p = x.p + 1 /\ Onward(x).match = x.match
        /\ ToStar(x).p = x.p + 1 /\ ToStar(x).match = x.s
    BY <1>4, WaysLead DEF n
  <2> DEFINE i == x.p
             j == x.match
             k == x.s
  <2>0. /\ i \in Nat /\ i < n /\ k \in Nat /\ k <= l /\ j \in Nat /\ j <= k
        /\ n \in Nat /\ l \in Nat
    BY <1>1, <1>4
  <2> HIDE DEF i, j, k
  <2>a. i + 1 \in Nat /\ i + 1 <= n /\ i + 1 > i /\ j <= l /\ (k > j \/ k = j)
    BY ONLY <2>0
  <2>2. /\ x.p + 1 \in Nat /\ x.p + 1 <= n /\ x.p + 1 > x.p /\ x.match <= l
        /\ x.s > x.match \/ x.s = x.match
    BY <2>a DEF i, j, k
  <2>3. Rank(pat, str, Onward(x)) < Rank(pat, str, x)
    BY <1>1, <1>3, <2>1, <2>2
  <2>4. Rank(pat, str, ToStar(x)) < Rank(pat, str, x)
    BY <1>1, <1>3, <2>1, <2>2
  <2> QED
    BY <2>3, <2>4
<1>5. ASSUME x.star # -1
      PROVE  Rank(pat, str, Back(x)) < Rank(pat, str, x)
  <2>1. Back(x).p = x.star + 1 /\ Back(x).match = x.match + 1
    BY <1>5, WaysLead
  <2> DEFINE a == x.star
             j == x.match
             k == x.s
  <2>2. /\ a \in Int /\ -1 <= a /\ a <= n - 1 /\ a # -1 /\ n \in Nat
        /\ j \in Nat /\ k \in Nat /\ j <= k /\ k <= l /\ k # l /\ l \in Nat
    <3>1. k # l
      BY DEF l
    <3>2. a \in Int /\ -1 <= a /\ a <= n - 1 /\ a # -1 /\ n \in Nat
      BY <1>1, <1>5
    <3>3. j \in Nat /\ k \in Nat /\ j <= k /\ k <= l /\ l \in Nat
      BY <1>1
    <3> QED
      BY <3>1, <3>2, <3>3
  <2> HIDE DEF a, j, k
  <2>a. a + 1 \in Nat /\ a + 1 <= n
    BY ONLY <2>2
  <2>b. j + 1 \in Nat /\ j + 1 <= l /\ j + 1 > j
    BY ONLY <2>2
  <2>3. /\ x.star + 1 \in Nat /\ x.star + 1 <= n
        /\ x.match + 1 \in Nat /\ x.match + 1 <= l /\ x.match + 1 > x.match
    BY <2>a, <2>b DEF a, j
  <2> QED
    BY <1>3, <2>1, <2>3
<1> QED
  BY <1>2, <1>4, <1>5 DEF n

(* Two functions that agree on what is left to do agree on what the loop does. *)
LEMMA BodyDepends ==
    ASSUME NEW S, NEW pat \in Seq(S), NEW str \in Seq(S), NEW x \in Places(pat, str),
           NEW f, NEW g,
           \A y \in Places(pat, str) : Rank(pat, str, y) < Rank(pat, str, x) => f[y] = g[y]
    PROVE  Body(pat, str, f, x) = Body(pat, str, g, x)
<1>1. CASE x.s = Len(str)
  BY <1>1 DEF Body
<1>2. CASE x.s # Len(str)
  <2>1. x.p < Len(pat) => f[Onward(x)] = g[Onward(x)] /\ f[ToStar(x)] = g[ToStar(x)]
    BY <1>2, WaysLead, RankFalls
  <2>2. x.star # -1 => f[Back(x)] = g[Back(x)]
    BY <1>2, WaysLead, RankFalls
  <2> QED
    BY <1>2, <2>1, <2>2 DEF Body, At
<1> QED
  BY <1>1, <1>2

(* There is a function that does what the loop does. *)
LEMMA LoopExists ==
    ASSUME NEW S, NEW pat \in Seq(S), NEW str \in Seq(S)
    PROVE  \E f : Loops(f, pat, str)
<1> DEFINE D == Places(pat, str)
           rank(x) == Rank(pat, str, x)
           Q == {n \in Nat : \E g : \A x \in D : rank(x) < n => g[x] = Body(pat, str, g, x)}
<1>1. \A x \in D : rank(x) \in Nat
  BY RankIsNat
<1>2. 0 \in Q
  <2>1. \A x \in D : ~(rank(x) < 0)
    BY <1>1
  <2> QED
    BY <2>1
<1>3. ASSUME NEW n \in Nat, n \in Q PROVE n + 1 \in Q
  <2>1. PICK g : \A x \in D : rank(x) < n => g[x] = Body(pat, str, g, x)
    BY <1>3
  <2> DEFINE h == [x \in D |-> Body(pat, str, g, x)]
  <2>2. ASSUME NEW x \in D, rank(x) < n + 1
        PROVE  h[x] = Body(pat, str, h, x)
    <3>1. ASSUME NEW y \in D, rank(y) < rank(x) PROVE g[y] = h[y]
      <4>1. rank(y) < n
        BY <1>1, <2>2, <3>1
      <4> QED
        BY <2>1, <4>1
    <3> HIDE DEF h
    <3>2. Body(pat, str, g, x) = Body(pat, str, h, x)
      BY <3>1, BodyDepends
    <3> QED
      BY <3>2 DEF h
  <2> HIDE DEF h, D, rank
  <2> QED
    BY <2>2 DEF Q
<1> DEFINE top == Len(str) * (Len(pat) + 1) + Len(pat) + 1
<1>4. top \in Nat /\ \A x \in D : rank(x) < top
  BY RankIsNat
<1> HIDE DEF Q, D, rank, top
<1>5. top \in Q
  BY <1>2, <1>3, <1>4, NatSetInduction
<1>6. PICK g : \A x \in D : g[x] = Body(pat, str, g, x)
  BY <1>4, <1>5 DEF Q
<1> DEFINE h == [x \in D |-> Body(pat, str, g, x)]
<1>7. ASSUME NEW x \in D PROVE Body(pat, str, g, x) = Body(pat, str, h, x)
  <2>1. \A y \in D : g[y] = h[y]
    BY <1>6
  <2> HIDE DEF h
  <2> QED
    BY <2>1, BodyDepends DEF D
<1>8. h = [x \in D |-> Body(pat, str, h, x)]
  BY <1>7
<1> HIDE DEF h
<1> QED
  BY <1>8 DEF Loops, D

Start == [p |-> 0, s |-> 0, star |-> -1, match |-> 0]

(* MatchPattern asks such a function for its value at the start. *)
LEMMA MatcherIs ==
    ASSUME NEW S, NEW pat \in Seq(S), NEW str \in Seq(S)
    PROVE  \E f : /\ Loops(f, pat, str)
                  /\ MatchPattern(pat, str) = (pat = <<"*">> \/ f[Start])
<1> DEFINE f == CHOOSE f : Loops(f, pat, str)
<1>1. Loops(f, pat, str)
  BY LoopExists
<1>2. MatchPattern(pat, str) = (pat = <<"*">> \/ f[Start])
  BY DEF MatchPattern, Loops, Body, At, Onward, ToStar, Back, Start
<1> HIDE DEF f
<1> QED
  BY <1>1, <1>2

(* What is left of the pattern after p stands for what is left of the key after s. *)
From(pat, str, p, s) ==
    \E cut \in [p .. Len(pat) -> 0 .. Len(str)] :
        /\ cut[p] = s
        /\ cut[Len(pat)] = Len(str)
        /\ \A i \in p + 1 .. Len(pat) : StandsFor(pat[i], str, cut[i - 1], cut[i])

(* Glob is about all of both. *)
LEMMA GlobIs ==
    ASSUME NEW pat, NEW str
    PROVE  Glob(pat, str) = From(pat, str, 0, 0)
BY DEF Glob, From

(* At the end of the pattern nothing may be left of the key. *)
LEMMA FromEnd ==
    ASSUME NEW S, NEW pat \in Seq(S), NEW str \in Seq(S), NEW s \in 0 .. Len(str)
    PROVE  From(pat, str, Len(pat), s) <=> s = Len(str)
<1> DEFINE n == Len(pat)
           l == Len(str)
<1>1. n \in Nat /\ l \in Nat /\ s \in 0 .. l
  OBVIOUS
<1>2. From(pat, str, n, s) => s = l
  BY DEF From
<1>3. ASSUME s = l PROVE From(pat, str, n, s)
  <2> DEFINE cut == [i \in n .. n |-> l]
  <2> HIDE DEF n, l
  <2>1. cut \in [n .. n -> 0 .. l] /\ cut[n] = l /\ n + 1 .. n = {}
    BY <1>1
  <2> HIDE DEF cut
  <2> QED
    BY <1>3, <2>1 DEF From, n, l
<1> QED
  BY <1>2, <1>3

(* The next character of the pattern stands for something, and the rest for the rest. *)
LEMMA FromNext ==
    ASSUME NEW S, NEW pat \in Seq(S), NEW str \in Seq(S),
           NEW p \in Nat, p < Len(pat), NEW s \in 0 .. Len(str)
    PROVE  From(pat, str, p, s) <=>
               \E t \in 0 .. Len(str) : StandsFor(pat[p + 1], str, s, t) /\ From(pat, str, p + 1, t)
<1> DEFINE n == Len(pat)
           l == Len(str)
<1>1. n \in Nat /\ l \in Nat /\ s \in 0 .. l /\ p < n
  OBVIOUS
<1> HIDE DEF n, l
<1>2. ASSUME From(pat, str, p, s)
      PROVE  \E t \in 0 .. l : StandsFor(pat[p + 1], str, s, t) /\ From(pat, str, p + 1, t)
  <2>1. PICK cut \in [p .. n -> 0 .. l] :
            /\ cut[p] = s /\ cut[n] = l
            /\ \A i \in p + 1 .. n : StandsFor(pat[i], str, cut[i - 1], cut[i])
    BY <1>2 DEF From, n, l
  <2> DEFINE t == cut[p + 1]
             rest == [i \in p + 1 .. n |-> cut[i]]
  <2>2. t \in 0 .. l /\ p + 1 \in p + 1 .. n /\ (p + 1) - 1 = p
    BY <1>1, <2>1
  <2>3. StandsFor(pat[p + 1], str, s, t)
    BY <2>1, <2>2
  <2>4. rest \in [p + 1 .. n -> 0 .. l] /\ rest[p + 1] = t /\ rest[n] = l
    BY <1>1, <2>1
  <2>5. ASSUME NEW i \in (p + 1) + 1 .. n
        PROVE  StandsFor(pat[i], str, rest[i - 1], rest[i])
    <3>1. i \in p + 1 .. n /\ i - 1 \in p + 1 .. n
      BY <1>1
    <3> QED
      BY <2>1, <3>1
  <2> HIDE DEF rest, t
  <2>6. From(pat, str, p + 1, t)
    BY <2>4, <2>5 DEF From, n, l
  <2> QED
    BY <2>2, <2>3, <2>6
<1>3. ASSUME NEW t \in 0 .. l, StandsFor(pat[p + 1], str, s, t), From(pat, str, p + 1, t)
      PROVE  From(pat, str, p, s)
  <2>1. PICK rest \in [p + 1 .. n -> 0 .. l] :
            /\ rest[p + 1] = t /\ rest[n] = l
            /\ \A i \in (p + 1) + 1 .. n : StandsFor(pat[i], str, rest[i - 1], rest[i])
    BY <1>3 DEF From, n, l
  <2> DEFINE cut == [i \in p .. n |-> IF i = p THEN s ELSE rest[i]]
  <2>2. cut \in [p .. n -> 0 .. l] /\ cut[p] = s /\ cut[n] = l /\ cut[p + 1] = t
    BY <1>1, <2>1
  <2>3. ASSUME NEW i \in p + 1 .. n
        PROVE  StandsFor(pat[i], str, cut[i - 1], cut[i])
    <3>1. CASE i = p + 1
      <4>1. i - 1 = p
        BY <1>1, <3>1
      <4> QED
        BY <1>3, <2>2, <3>1, <4>1
    <3>2. CASE i # p + 1
      <4>1. /\ i \in (p + 1) + 1 .. n
            /\ i \in p .. n /\ i - 1 \in p .. n /\ i # p /\ i - 1 # p
        BY <1>1, <3>2
      <4>2. cut[i] = rest[i] /\ cut[i - 1] = rest[i - 1]
        BY <4>1
      <4> QED
        BY <2>1, <4>1, <4>2
    <3> QED
      BY <3>1, <3>2
  <2> HIDE DEF cut
  <2> QED
    BY <2>2, <2>3 DEF From, n, l
<1> QED
  BY <1>2, <1>3 DEF l

(* A '*' stands for as much as there is, or for less. *)
LEMMA FromStar ==
    ASSUME NEW S, NEW pat \in Seq(S), NEW str \in Seq(S),
           NEW p \in Nat, p < Len(pat), pat[p + 1] = "*", NEW s \in 0 .. Len(str)
    PROVE  /\ From(pat, str, p, s) <=> \E t \in s .. Len(str) : From(pat, str, p + 1, t)
           /\ \A t \in s .. Len(str) : From(pat, str, p, t) => From(pat, str, p, s)
<1>1. Len(str) \in Nat
  OBVIOUS
<1>2. ASSUME NEW r \in 0 .. Len(str)
      PROVE  From(pat, str, p, r) <=> \E t \in r .. Len(str) : From(pat, str, p + 1, t)
  <2>1. From(pat, str, p, r) <=>
            \E t \in 0 .. Len(str) : StandsFor(pat[p + 1], str, r, t) /\ From(pat, str, p + 1, t)
    BY FromNext
  <2>2. \A t : StandsFor(pat[p + 1], str, r, t) <=> r <= t
    BY DEF StandsFor
  <2>3. \A t : t \in r .. Len(str) <=> t \in 0 .. Len(str) /\ r <= t
    BY <1>1
  <2> QED
    BY <2>1, <2>2, <2>3
<1>3. ASSUME NEW t \in s .. Len(str), From(pat, str, p, t) PROVE From(pat, str, p, s)
  <2>1. t \in 0 .. Len(str)
    BY <1>1
  <2>2. PICK u \in t .. Len(str) : From(pat, str, p + 1, u)
    BY <1>2, <1>3, <2>1
  <2>3. u \in s .. Len(str)
    BY <1>1
  <2> QED
    BY <1>2, <2>2, <2>3
<1> QED
  BY <1>2, <1>3

(* Any other character stands for one. *)
LEMMA FromLiteral ==
    ASSUME NEW S, NEW pat \in Seq(S), NEW str \in Seq(S),
           NEW p \in Nat, p < Len(pat), pat[p + 1] # "*", NEW s \in 0 .. Len(str)
    PROVE  From(pat, str, p, s) <=>
               s < Len(str) /\ pat[p + 1] \in {"?", str[s + 1]} /\ From(pat, str, p + 1, s + 1)
<1>1. Len(str) \in Nat
  OBVIOUS
<1>2. From(pat, str, p, s) <=>
          \E t \in 0 .. Len(str) : StandsFor(pat[p + 1], str, s, t) /\ From(pat, str, p + 1, t)
  BY FromNext
<1>3. \A t : StandsFor(pat[p + 1], str, s, t) <=> t = s + 1 /\ pat[p + 1] \in {"?", str[t]}
  BY DEF StandsFor
<1>4. s + 1 \in 0 .. Len(str) <=> s < Len(str)
  BY <1>1
<1> QED
  BY <1>2, <1>3, <1>4

(* When the key is used up, what is left of the pattern must be stars. *)
LEMMA FromUsed ==
    ASSUME NEW S, NEW pat \in Seq(S), NEW str \in Seq(S), NEW p \in 0 .. Len(pat)
    PROVE  From(pat, str, p, Len(str)) <=> RestMatches(pat, p)
<1> DEFINE n == Len(pat)
           l == Len(str)
           Q == {m \in Nat : m <= n => (From(pat, str, n - m, l) <=> RestMatches(pat, n - m))}
<1>1. n \in Nat /\ l \in Nat /\ l \in 0 .. l
  OBVIOUS
<1>2. 0 \in Q
  <2>1. From(pat, str, n, l)
    BY <1>1, FromEnd
  <2>2. RestMatches(pat, n)
    BY <1>1 DEF RestMatches
  <2>3. n - 0 = n
    BY <1>1
  <2> QED
    BY <2>1, <2>2, <2>3
<1>3. ASSUME NEW m \in Nat, m \in Q PROVE m + 1 \in Q
  <2> SUFFICES ASSUME m + 1 <= n
               PROVE  From(pat, str, n - (m + 1), l) <=> RestMatches(pat, n - (m + 1))
    OBVIOUS
  <2> DEFINE q == n - (m + 1)
  <2>1. q \in Nat /\ q < n /\ q + 1 = n - m /\ m <= n
    BY <1>1
  <2>2. From(pat, str, q + 1, l) <=> RestMatches(pat, q + 1)
    BY <1>3, <2>1
  <2> HIDE DEF q
  <2>3. RestMatches(pat, q) <=> pat[q + 1] = "*" /\ RestMatches(pat, q + 1)
    <3>1. \A i : i \in q + 1 .. n <=> i = q + 1 \/ i \in (q + 1) + 1 .. n
      BY <1>1, <2>1
    <3> QED
      BY <3>1 DEF RestMatches, n
  <2>4. CASE pat[q + 1] = "*"
    <3>1. From(pat, str, q, l) <=> \E t \in l .. l : From(pat, str, q + 1, t)
      BY <1>1, <2>1, <2>4, FromStar DEF n, l
    <3>2. \A t : t \in l .. l <=> t = l
      BY <1>1
    <3> QED
      BY <2>2, <2>3, <2>4, <3>1, <3>2 DEF q
  <2>5. CASE pat[q + 1] # "*"
    <3>1. ~From(pat, str, q, l)
      <4>1. ~(l < l)
        BY <1>1
      <4> QED
        BY <1>1, <2>1, <2>5, <4>1, FromLiteral DEF n, l
    <3> QED
      BY <2>3, <2>5, <3>1 DEF q
  <2> QED
    BY <2>4, <2>5
<1>4. p \in Nat /\ n - p \in Nat /\ n - p <= n /\ n - (n - p) = p
  BY <1>1
<1> HIDE DEF Q
<1>5. n - p \in Q
  BY <1>2, <1>3, <1>4, NatSetInduction
<1> QED
  BY <1>4, <1>5 DEF Q

(* Without a '*' the pattern goes along the key character by character. *)
LEMMA FromPlain ==
    ASSUME NEW S, NEW pat \in Seq(S), NEW str \in Seq(S),
           NEW q \in Nat, NEW m \in Nat, q + m <= Len(pat), NEW a \in 0 .. Len(str),
           \A j \in 1 .. m : pat[q + j] # "*"
    PROVE  From(pat, str, q, a) <=>
               /\ a + m <= Len(str)
               /\ \A j \in 1 .. m : pat[q + j] \in {"?", str[a + j]}
               /\ From(pat, str, q + m, a + m)
<1> DEFINE n == Len(pat)
           l == Len(str)
           fits(k) == \A j \in 1 .. k : pat[q + j] \in {"?", str[a + j]}
           Q == {k \in Nat : k <= m =>
                    (From(pat, str, q, a) <=>
                        a + k <= l /\ fits(k) /\ From(pat, str, q + k, a + k))}
<1>1. n \in Nat /\ l \in Nat /\ a \in 0 .. l /\ q + m <= n
  OBVIOUS
<1>2. 0 \in Q
  <2>1. a + 0 = a /\ q + 0 = q /\ a <= l /\ 1 .. 0 = {}
    BY <1>1
  <2> QED
    BY <2>1
<1>3. ASSUME NEW k \in Nat, k \in Q PROVE k + 1 \in Q
  <2> SUFFICES ASSUME k + 1 <= m
               PROVE  From(pat, str, q, a) <=>
                          /\ a + (k + 1) <= l /\ fits(k + 1)
                          /\ From(pat, str, q + (k + 1), a + (k + 1))
    OBVIOUS
  <2>1. From(pat, str, q, a) <=> a + k <= l /\ fits(k) /\ From(pat, str, q + k, a + k)
    BY <1>3
  <2>2. /\ q + k \in Nat /\ q + k < n /\ k + 1 \in 1 .. m
        /\ (q + k) + 1 = q + (k + 1) /\ (a + k) + 1 = a + (k + 1)
        /\ a + k < l <=> a + (k + 1) <= l
        /\ a + k <= l <=> a + k \in 0 .. l
        /\ a + (k + 1) <= l => a + k <= l
    BY <1>1
  <2>3. fits(k + 1) <=> fits(k) /\ pat[q + (k + 1)] \in {"?", str[a + (k + 1)]}
    <3>1. \A j : j \in 1 .. k + 1 <=> j \in 1 .. k \/ j = k + 1
      OBVIOUS
    <3> QED
      BY <3>1
  <2>4. pat[(q + k) + 1] # "*"
    BY <2>2
  <2> HIDE DEF fits
  <2>5. ASSUME a + k <= l
        PROVE  From(pat, str, q + k, a + k) <=>
                   /\ a + k < l /\ pat[(q + k) + 1] \in {"?", str[(a + k) + 1]}
                   /\ From(pat, str, (q + k) + 1, (a + k) + 1)
    BY <2>2, <2>4, <2>5, FromLiteral DEF n, l
  <2> QED
    BY <2>1, <2>2, <2>3, <2>5
<1> HIDE DEF Q
<1>4. m \in Q
  BY <1>2, <1>3, NatSetInduction
<1> QED
  BY <1>4 DEF Q

(***************************************************************************)
(* What the loop has matched since the last '*' it saw: the characters of  *)
(* the pattern after it stand for those of the key after match.            *)
(***************************************************************************)
Matched(pat, str, x) ==
    x.star # -1 =>
        /\ pat[x.star + 1] = "*"
        /\ x.s - x.match = x.p - (x.star + 1)
        /\ \A j \in 1 .. x.p - (x.star + 1) :
              /\ pat[x.star + 1 + j] # "*"
              /\ pat[x.star + 1 + j] \in {"?", str[x.match + j]}

(* The key has no '*' of its own. *)
NoStar(str) == \A i \in 1 .. Len(str) : str[i] # "*"

(* What the loop finds out: whether the rest stands, from the last '*' if there is one. *)
Answer(pat, str, x) ==
    IF x.star = -1 THEN From(pat, str, x.p, x.s) ELSE From(pat, str, x.star, x.match)

(* The two distances from the last try, in numbers. *)
LEMMA TryArithmetic ==
    ASSUME NEW p \in Int, NEW s \in Int, NEW star \in Int, NEW match \in Int,
           s - match = p - (star + 1)
    PROVE  /\ (s + 1) - match = (p + 1) - (star + 1)
           /\ (star + 1) + (p - (star + 1)) = p
           /\ match + (p - (star + 1)) = s
           /\ \A j \in 1 .. (p + 1) - (star + 1) :
                 j \in 1 .. p - (star + 1) \/ (star + 1 + j = p + 1 /\ match + j = s + 1)
OBVIOUS

(* Going on keeps what was matched. *)
LEMMA MatchedOn ==
    ASSUME NEW S, NEW pat \in Seq(S), NEW str \in Seq(S),
           NoStar(str), NEW x \in Places(pat, str), x.s # Len(str), Matched(pat, str, x)
    PROVE  /\ x.p < Len(pat) /\ pat[x.p + 1] \in {"?", str[x.s + 1]} =>
                 Matched(pat, str, Onward(x))
           /\ At(pat, x.p, "*") => Matched(pat, str, ToStar(x))
           /\ x.star # -1 => Matched(pat, str, Back(x))
<1>1. /\ Len(pat) \in Nat /\ Len(str) \in Nat
      /\ x.p \in Nat /\ x.p <= Len(pat) /\ x.s \in Nat /\ x.s <= Len(str)
      /\ x.star \in Int /\ x.star >= -1 /\ x.star < x.p
      /\ x.match \in Nat /\ x.match <= x.s
  BY PlaceParts
<1>2. ASSUME x.p < Len(pat), pat[x.p + 1] \in {"?", str[x.s + 1]}
      PROVE  Matched(pat, str, Onward(x))
  <2>1. /\ Onward(x).p = x.p + 1 /\ Onward(x).s = x.s + 1
        /\ Onward(x).star = x.star /\ Onward(x).match = x.match
    BY <1>2, WaysLead
  <2>2. pat[x.p + 1] # "*"
    <3>1. x.s + 1 \in 1 .. Len(str)
      BY <1>1
    <3> QED
      BY <1>2, <3>1 DEF NoStar
  <2> SUFFICES ASSUME x.star # -1
               PROVE  /\ pat[x.star + 1] = "*"
                      /\ (x.s + 1) - x.match = (x.p + 1) - (x.star + 1)
                      /\ \A j \in 1 .. (x.p + 1) - (x.star + 1) :
                            /\ pat[x.star + 1 + j] # "*"
                            /\ pat[x.star + 1 + j] \in {"?", str[x.match + j]}
    BY <2>1 DEF Matched
  <2>3. /\ pat[x.star + 1] = "*"
        /\ x.s - x.match = x.p - (x.star + 1)
        /\ \A j \in 1 .. x.p - (x.star + 1) :
              /\ pat[x.star + 1 + j] # "*"
              /\ pat[x.star + 1 + j] \in {"?", str[x.match + j]}
    BY DEF Matched
  <2>a. x.s - x.match = x.p - (x.star + 1)
    BY <2>3
  <2>b. /\ (x.s + 1) - x.match = (x.p + 1) - (x.star + 1)
        /\ \A j \in 1 .. (x.p + 1) - (x.star + 1) :
              \/ j \in 1 .. x.p - (x.star + 1)
              \/ x.star + 1 + j = x.p + 1 /\ x.match + j = x.s + 1
    <3> DEFINE p == x.p
               s == x.s
               star == x.star
               match == x.match
    <3>1. p \in Int /\ s \in Int /\ star \in Int /\ match \in Int
      BY <1>1
    <3>2. s - match = p - (star + 1)
      BY <2>a
    <3> HIDE DEF p, s, star, match
    <3>3. /\ (s + 1) - match = (p + 1) - (star + 1)
          /\ \A j \in 1 .. (p + 1) - (star + 1) :
                j \in 1 .. p - (star + 1) \/ (star + 1 + j = p + 1 /\ match + j = s + 1)
      BY <3>1, <3>2, TryArithmetic
    <3> QED
      BY <3>3 DEF p, s, star, match
  <2>4. ASSUME NEW j \in 1 .. (x.p + 1) - (x.star + 1)
        PROVE  /\ pat[x.star + 1 + j] # "*"
               /\ pat[x.star + 1 + j] \in {"?", str[x.match + j]}
    <3>1. j \in 1 .. x.p - (x.star + 1) \/ (x.star + 1 + j = x.p + 1 /\ x.match + j = x.s + 1)
      BY <2>b
    <3> QED
      BY <1>2, <2>2, <2>3, <3>1
  <2> QED
    BY <2>3, <2>4, <2>b
<1>3. ASSUME At(pat, x.p, "*") PROVE Matched(pat, str, ToStar(x))
  <2>1. /\ ToStar(x).p = x.p + 1 /\ ToStar(x).s = x.s
        /\ ToStar(x).star = x.p /\ ToStar(x).match = x.s
    BY <1>3, WaysLead DEF At
  <2>2. /\ x.s - x.s = (x.p + 1) - (x.p + 1)
        /\ 1 .. (x.p + 1) - (x.p + 1) = {}
    BY <1>1
  <2> QED
    BY <1>3, <2>1, <2>2 DEF At, Matched
<1>4. ASSUME x.star # -1 PROVE Matched(pat, str, Back(x))
  <2>1. /\ Back(x).p = x.star + 1 /\ Back(x).s = x.match + 1
        /\ Back(x).star = x.star /\ Back(x).match = x.match + 1
    BY <1>4, WaysLead
  <2>2. /\ (x.match + 1) - (x.match + 1) = (x.star + 1) - (x.star + 1)
        /\ 1 .. (x.star + 1) - (x.star + 1) = {}
    BY <1>1
  <2> QED
    BY <1>4, <2>1, <2>2 DEF Matched
<1> QED
  BY <1>2, <1>3, <1>4

(***************************************************************************)
(* The last '*' is the only one to go back to: if the rest stands from it  *)
(* at all, then with a try not before the one under way, and the place the *)
(* loop has reached moves along with the try.                              *)
(***************************************************************************)
LEMMA FromLastStar ==
    ASSUME NEW S, NEW pat \in Seq(S), NEW str \in Seq(S),
           NEW x \in Places(pat, str), x.star # -1, Matched(pat, str, x)
    PROVE  /\ From(pat, str, x.star, x.match) <=>
                 \E t \in x.match .. Len(str) : From(pat, str, x.star + 1, t)
           /\ From(pat, str, x.star + 1, x.match) <=> From(pat, str, x.p, x.s)
           /\ \A t \in x.match .. Len(str) :
                 From(pat, str, x.star + 1, t) =>
                     \E u \in x.s .. Len(str) :
                         u - x.s = t - x.match /\ From(pat, str, x.p, u)
<1> DEFINE q == x.star + 1
           m == x.p - (x.star + 1)
<1>1. /\ Len(pat) \in Nat /\ Len(str) \in Nat
      /\ x.p \in Nat /\ x.p <= Len(pat) /\ x.s \in Nat /\ x.s <= Len(str)
      /\ x.star \in Int /\ x.star >= -1 /\ x.star < x.p
      /\ x.match \in Nat /\ x.match <= x.s
  BY PlaceParts
<1>2. /\ pat[x.star + 1] = "*"
      /\ x.s - x.match = m
      /\ \A j \in 1 .. m : pat[q + j] # "*" /\ pat[q + j] \in {"?", str[x.match + j]}
  BY DEF Matched
<1>3. /\ x.star \in Nat /\ x.star < Len(pat) /\ x.match \in 0 .. Len(str)
      /\ q \in Nat /\ m \in Nat /\ q + m = x.p /\ q + m <= Len(pat) /\ x.match + m = x.s
  <2>1. x.s - x.match = x.p - (x.star + 1)
    BY <1>2
  <2>2. x.p \in Int /\ x.s \in Int /\ x.match \in Int
    BY <1>1
  <2>3. q + m = x.p /\ x.match + m = x.s
    BY <1>1, <2>1, <2>2, TryArithmetic
  <2>4. /\ x.star \in Nat /\ x.star < Len(pat) /\ x.match \in 0 .. Len(str)
        /\ q \in Nat /\ m \in Nat
    BY <1>1
  <2> QED
    BY <1>1, <2>3, <2>4
<1>4. From(pat, str, x.star, x.match) <=>
          \E t \in x.match .. Len(str) : From(pat, str, x.star + 1, t)
  BY <1>2, <1>3, FromStar
<1> HIDE DEF q, m
<1>5. ASSUME NEW a \in 0 .. Len(str)
      PROVE  From(pat, str, q, a) <=>
                 /\ a + m <= Len(str)
                 /\ \A j \in 1 .. m : pat[q + j] \in {"?", str[a + j]}
                 /\ From(pat, str, q + m, a + m)
  <2>1. \A j \in 1 .. m : pat[q + j] # "*"
    BY <1>2
  <2>2. q \in Nat /\ m \in Nat /\ q + m <= Len(pat)
    BY <1>3
  <2> QED
    BY <2>1, <2>2, FromPlain
<1>6. From(pat, str, q, x.match) <=> From(pat, str, x.p, x.s)
  BY <1>1, <1>2, <1>3, <1>5
<1>7. ASSUME NEW t \in x.match .. Len(str), From(pat, str, q, t)
      PROVE  \E u \in x.s .. Len(str) : u - x.s = t - x.match /\ From(pat, str, x.p, u)
  <2>1. t \in 0 .. Len(str)
    BY <1>1
  <2>2. t + m <= Len(str) /\ From(pat, str, x.p, t + m)
    BY <1>3, <1>5, <1>7, <2>1
  <2>3. t + m \in x.s .. Len(str) /\ (t + m) - x.s = t - x.match
    BY <1>1, <1>3, <2>1, <2>2
  <2> QED
    BY <2>2, <2>3
<1> QED
  BY <1>4, <1>6, <1>7 DEF q

(* One turn of the loop, with the right answers for what is left, finds the right answer. *)
LEMMA TurnAnswers ==
    ASSUME NEW S, NEW pat \in Seq(S), NEW str \in Seq(S), NoStar(str), NEW f,
           NEW x \in Places(pat, str), Matched(pat, str, x),
           \A y \in Places(pat, str) :
               Rank(pat, str, y) < Rank(pat, str, x) /\ Matched(pat, str, y) =>
                   f[y] = Answer(pat, str, y)
    PROVE  Body(pat, str, f, x) = Answer(pat, str, x)
<1>1. /\ Len(pat) \in Nat /\ Len(str) \in Nat
      /\ x.p \in Nat /\ x.p <= Len(pat) /\ x.s \in Nat /\ x.s <= Len(str)
      /\ x.star \in Int /\ x.star >= -1 /\ x.star < x.p
      /\ x.match \in Nat /\ x.match <= x.s
  BY PlaceParts
<1> DEFINE from(p, s) == From(pat, str, p, s)
           l == Len(str)
           fits == x.p < Len(pat) /\ pat[x.p + 1] \in {"?", str[x.s + 1]}
<1>2. ASSUME x.star # -1
      PROVE  /\ from(x.star, x.match) <=> \E t \in x.match .. l : from(x.star + 1, t)
             /\ from(x.star + 1, x.match) <=> from(x.p, x.s)
             /\ \A t \in x.match .. l :
                   from(x.star + 1, t) =>
                       \E u \in x.s .. l : u - x.s = t - x.match /\ from(x.p, u)
  BY <1>2, FromLastStar
<1>3. fits <=> At(pat, x.p, "?") \/ At(pat, x.p, str[x.s + 1])
  BY DEF At
<1>4. x.p \in 0 .. Len(pat) /\ x.s \in 0 .. l /\ x.match \in x.match .. l
  BY <1>1
<1>5. CASE x.s = l
  <2>1. from(x.p, l) <=> RestMatches(pat, x.p)
    BY <1>4, FromUsed
  <2>2. ASSUME x.star # -1 PROVE from(x.star, x.match) <=> from(x.p, l)
    <3>1. ASSUME NEW t \in x.match .. l, from(x.star + 1, t) PROVE t = x.match
      <4>1. PICK u \in x.s .. l : u - x.s = t - x.match
        BY <1>2, <2>2, <3>1
      <4>2. u = x.s
        BY <1>1, <1>5, <4>1
      <4> HIDE DEF from, fits
      <4> QED
        BY <1>1, <4>1, <4>2
    <3> HIDE DEF from
    <3> QED
      BY <1>2, <1>4, <1>5, <2>2, <3>1
  <2>3. Body(pat, str, f, x) = RestMatches(pat, x.p)
    BY <1>5 DEF Body
  <2>4. RestMatches(pat, x.p) \in BOOLEAN /\ from(x.p, l) \in BOOLEAN
        /\ from(x.star, x.match) \in BOOLEAN
    BY DEF RestMatches, From
  <2> QED
    BY <1>5, <2>1, <2>2, <2>3, <2>4 DEF Answer
<1>6. CASE x.s # l /\ fits
  <2>1. pat[x.p + 1] # "*"
    <3>1. x.s + 1 \in 1 .. l
      BY <1>1, <1>6
    <3> QED
      BY <1>6, <3>1 DEF NoStar
  <2>2. f[Onward(x)] = Answer(pat, str, Onward(x))
    BY <1>6, MatchedOn, RankFalls, WaysLead
  <2>3. /\ Onward(x).p = x.p + 1 /\ Onward(x).s = x.s + 1
        /\ Onward(x).star = x.star /\ Onward(x).match = x.match
    BY <1>6, WaysLead
  <2>4. from(x.p, x.s) <=> from(x.p + 1, x.s + 1)
    <3>1. x.s < Len(str) /\ x.p < Len(pat) /\ pat[x.p + 1] \in {"?", str[x.s + 1]}
      BY <1>1, <1>6
    <3> QED
      BY <1>1, <1>4, <2>1, <3>1, FromLiteral
  <2>5. from(x.p, x.s) \in BOOLEAN /\ from(x.p + 1, x.s + 1) \in BOOLEAN
    BY DEF From
  <2>6. Body(pat, str, f, x) = f[Onward(x)]
    BY <1>3, <1>6 DEF Body
  <2> QED
    BY <2>2, <2>3, <2>4, <2>5, <2>6 DEF Answer
<1>7. CASE x.s # l /\ ~fits /\ At(pat, x.p, "*")
  <2>0. x.p < Len(pat) /\ pat[x.p + 1] = "*"
    BY <1>7 DEF At
  <2>1. f[ToStar(x)] = Answer(pat, str, ToStar(x))
    BY <1>7, <2>0, MatchedOn, RankFalls, WaysLead
  <2>2. ToStar(x).star = x.p /\ ToStar(x).match = x.s
    BY <1>7, <2>0, WaysLead
  <2>3. Answer(pat, str, ToStar(x)) = from(x.p, x.s)
    BY <1>1, <2>2 DEF Answer
  <2>4. ASSUME x.star # -1 PROVE from(x.star, x.match) <=> from(x.p, x.s)
    <3>1. \A u \in x.s .. l : from(x.p, u) => from(x.p, x.s)
      BY <1>1, <1>4, <2>0, FromStar
    <3> HIDE DEF from
    <3> QED
      BY <1>2, <1>4, <2>4, <3>1
  <2>5. from(x.p, x.s) \in BOOLEAN /\ from(x.star, x.match) \in BOOLEAN
    BY DEF From
  <2>6. Body(pat, str, f, x) = f[ToStar(x)]
    BY <1>3, <1>7 DEF Body
  <2> QED
    BY <2>1, <2>3, <2>4, <2>5, <2>6 DEF Answer
<1>8. CASE x.s # l /\ ~fits /\ ~At(pat, x.p, "*")
  <2>1. ~from(x.p, x.s)
    <3>1. CASE x.p = Len(pat)
      BY <1>4, <1>8, <3>1, FromEnd
    <3>2. CASE x.p < Len(pat)
      <4>1. pat[x.p + 1] # "*" /\ pat[x.p + 1] \notin {"?", str[x.s + 1]}
        BY <1>8, <3>2 DEF At
      <4> QED
        BY <1>1, <1>4, <3>2, <4>1, FromLiteral
    <3> QED
      BY <1>1, <3>1, <3>2
  <2>2. CASE x.star = -1
    <3>1. Body(pat, str, f, x) = FALSE
      BY <1>3, <1>8, <2>2 DEF Body
    <3>2. from(x.p, x.s) = FALSE
      BY <2>1 DEF From
    <3> QED
      BY <2>2, <3>1, <3>2 DEF Answer
  <2>3. CASE x.star # -1
    <3>1. f[Back(x)] = Answer(pat, str, Back(x))
      BY <1>8, <2>3, MatchedOn, RankFalls, WaysLead
    <3>2. Back(x).star = x.star /\ Back(x).match = x.match + 1
      BY <1>8, <2>3, WaysLead
    <3>3. Answer(pat, str, Back(x)) = from(x.star, x.match + 1)
      BY <2>3, <3>2 DEF Answer
    <3>4. from(x.star, x.match + 1) <=> \E t \in x.match + 1 .. l : from(x.star + 1, t)
      <4>1. pat[x.star + 1] = "*"
        BY <2>3 DEF Matched
      <4>2. x.star \in Nat /\ x.star < Len(pat) /\ x.match + 1 \in 0 .. l
        BY <1>1, <1>8, <2>3
      <4> QED
        BY <4>1, <4>2, FromStar
    <3>5. \A t : t \in x.match .. l <=> t = x.match \/ t \in x.match + 1 .. l
      BY <1>1
    <3>6. from(x.star, x.match) <=> from(x.star, x.match + 1)
      <4> HIDE DEF from
      <4> QED
        BY <1>2, <2>1, <2>3, <3>4, <3>5
    <3>7. from(x.star, x.match) \in BOOLEAN /\ from(x.star, x.match + 1) \in BOOLEAN
      BY DEF From
    <3>8. Body(pat, str, f, x) = f[Back(x)]
      BY <1>3, <1>8, <2>3 DEF Body
    <3> QED
      BY <2>3, <3>1, <3>3, <3>6, <3>7, <3>8 DEF Answer
  <2> QED
    BY <2>2, <2>3
<1> QED
  BY <1>5, <1>6, <1>7, <1>8

(* The loop finds the right answer wherever it is. *)
LEMMA LoopAnswers ==
    ASSUME NEW S, NEW pat \in Seq(S), NEW str \in Seq(S), NoStar(str),
           NEW f, Loops(f, pat, str)
    PROVE  \A x \in Places(pat, str) : Matched(pat, str, x) => f[x] = Answer(pat, str, x)
<1> DEFINE D == Places(pat, str)
           rank(x) == Rank(pat, str, x)
           right(x) == Matched(pat, str, x) => f[x] = Answer(pat, str, x)
           Q == {n \in Nat : \A x \in D : rank(x) < n => right(x)}
<1>1. \A x \in D : rank(x) \in Nat
  BY RankIsNat
<1>2. 0 \in Q
  <2>1. \A x \in D : ~(rank(x) < 0)
    BY <1>1
  <2> QED
    BY <2>1
<1>3. ASSUME NEW n \in Nat, n \in Q PROVE n + 1 \in Q
  <2> SUFFICES ASSUME NEW x \in D, rank(x) < n + 1, Matched(pat, str, x)
               PROVE  f[x] = Answer(pat, str, x)
    OBVIOUS
  <2>1. ASSUME NEW y \in D, rank(y) < rank(x), Matched(pat, str, y)
        PROVE  f[y] = Answer(pat, str, y)
    <3>1. rank(y) < n
      BY <1>1, <2>1
    <3> QED
      BY <1>3, <2>1, <3>1
  <2>2. f[x] = Body(pat, str, f, x)
    BY DEF Loops
  <2>3. Body(pat, str, f, x) = Answer(pat, str, x)
    BY <2>1, TurnAnswers
  <2> QED
    BY <2>2, <2>3
<1> DEFINE top == Len(str) * (Len(pat) + 1) + Len(pat) + 1
<1>4. top \in Nat /\ \A x \in D : rank(x) < top
  BY RankIsNat
<1> HIDE DEF Q, D, rank, top, right
<1>5. top \in Q
  BY <1>2, <1>3, <1>4, NatSetInduction
<1> QED
  BY <1>4, <1>5 DEF Q, D, right

(***************************************************************************)
(* MatchPattern, which goes back to the last '*' only, finds out whether   *)
(* the key can be cut into what the characters of the pattern stand for,   *)
(* for every pattern and every key without a '*' of its own.               *)
(***************************************************************************)
THEOREM MatcherDecides ==
    ASSUME NEW S, NEW pat \in Seq(S), NEW str \in Seq(S), NoStar(str)
    PROVE  MatchPattern(pat, str) = Glob(pat, str)
<1>1. PICK f : Loops(f, pat, str) /\ MatchPattern(pat, str) = (pat = <<"*">> \/ f[Start])
  BY MatcherIs
<1>2. Len(pat) \in Nat /\ Len(str) \in Nat
  OBVIOUS
<1>3. Start \in Places(pat, str) /\ Matched(pat, str, Start)
  BY <1>2 DEF Start, Places, Matched
<1>4. f[Start] = From(pat, str, 0, 0)
  <2>1. f[Start] = Answer(pat, str, Start)
    BY <1>1, <1>3, LoopAnswers
  <2> QED
    BY <2>1 DEF Answer, Start
<1>5. Glob(pat, str) = From(pat, str, 0, 0)
  BY GlobIs
<1>6. From(pat, str, Len(pat), Len(str))
  <2>1. Len(str) \in 0 .. Len(str)
    BY <1>2
  <2> QED
    BY <2>1, FromEnd
<1>7. pat = <<"*">> => From(pat, str, 0, 0)
  <2> SUFFICES ASSUME pat = <<"*">> PROVE From(pat, str, 0, 0)
    OBVIOUS
  <2>1. Len(pat) = 1 /\ pat[1] = "*"
    OBVIOUS
  <2>2. From(pat, str, 1, Len(str))
    BY <1>6, <2>1
  <2>3. 0 \in Nat /\ 0 < Len(pat) /\ pat[0 + 1] = "*" /\ 0 + 1 = 1
        /\ 0 \in 0 .. Len(str) /\ Len(str) \in 0 .. Len(str)
    BY <1>2, <2>1
  <2>4. From(pat, str, 0, 0) <=> \E t \in 0 .. Len(str) : From(pat, str, 0 + 1, t)
    BY <2>3, FromStar
  <2> QED
    BY <2>2, <2>3, <2>4
<1>8. From(pat, str, 0, 0) \in BOOLEAN
  BY DEF From
<1> QED
  BY <1>1, <1>4, <1>5, <1>7, <1>8

-----------------------------------------------------------------------------
(* The table. *)

(***************************************************************************)
(* A table of shard s with c buckets: every key is a key of the shard, in  *)
(* the bucket its hash says, size_ counts them, and the load is within     *)
(* max_load_factor_.                                                       *)
(***************************************************************************)
Shape(t, c, s) ==
    /\ c \in Nat \ {0}
    /\ t \in [buckets : [0 .. c - 1 -> SUBSET {k \in Keys : ShardOf[k] = s}], size : Nat]
    /\ \A b \in 0 .. c - 1 : \A k \in t.buckets[b] : HashOf[k] % c = b
    /\ IsFiniteSet(Stored(t))
    /\ t.size = Cardinality(Stored(t))
    /\ 4 * t.size <= 3 * c

(* What a well-formed table is good for: Find looks where the key is. *)
LEMMA ShapeFacts ==
    ASSUME NEW t, NEW c, NEW s, Shape(t, c, s)
    PROVE  /\ c \in Nat \ {0}
           /\ DOMAIN t.buckets = 0 .. c - 1
           /\ Capacity(t) = c
           /\ t.size \in Nat
           /\ \A k : k \in Stored(t) <=> \E b \in 0 .. c - 1 : k \in t.buckets[b]
           /\ \A k \in Stored(t) : k \in Keys /\ ShardOf[k] = s
           /\ \A k \in Keys : HashKey(t, k) = HashOf[k] % c /\ HashKey(t, k) \in 0 .. c - 1
           /\ \A k \in Keys : Find(t, k) <=> k \in Stored(t)
           /\ \A k \in Keys : k \in Stored(t) <=> k \in t.buckets[HashOf[k] % c]
<1>1. c \in Nat \ {0} /\ DOMAIN t.buckets = 0 .. c - 1 /\ t.size \in Nat
  BY DEF Shape
<1>2. Capacity(t) = c
  <2>1. 0 \in Int /\ c - 1 \in Int
    BY <1>1
  <2>2. Cardinality(0 .. c - 1) = IF 0 > c - 1 THEN 0 ELSE c - 1 - 0 + 1
    BY <2>1, FS_Interval
  <2> QED
    BY <1>1, <2>2 DEF Capacity
<1>3. \A k : k \in Stored(t) <=> \E b \in 0 .. c - 1 : k \in t.buckets[b]
  BY <1>1 DEF Stored
<1>4. \A k \in Stored(t) : k \in Keys /\ ShardOf[k] = s
  BY <1>3 DEF Shape
<1>5. \A k \in Keys : HashKey(t, k) = HashOf[k] % c /\ HashOf[k] % c \in 0 .. c - 1
  BY <1>1, <1>2, Remainder, HashScanAssumption DEF HashKey
<1>6. \A k \in Keys : k \in Stored(t) <=> k \in t.buckets[HashOf[k] % c]
  BY <1>3, <1>5 DEF Shape
<1>7. \A k \in Keys : Find(t, k) <=> k \in Stored(t)
  BY <1>5, <1>6 DEF Find
<1> QED
  BY <1>1, <1>2, <1>3, <1>4, <1>5, <1>6, <1>7

(* A new table is well formed and empty. *)
LEMMA EmptyShape ==
    ASSUME NEW s
    PROVE  Shape(EmptyTable, InitialCapacity, s) /\ Stored(EmptyTable) = {}
<1>1. Stored(EmptyTable) = {}
  BY DEF Stored, EmptyTable
<1>2. InitialCapacity \in Nat \ {0}
  BY HashScanAssumption
<1>3. /\ EmptyTable \in [buckets : [0 .. InitialCapacity - 1 ->
                                       SUBSET {k \in Keys : ShardOf[k] = s}], size : Nat]
      /\ \A b \in 0 .. InitialCapacity - 1 : EmptyTable.buckets[b] = {}
      /\ EmptyTable.size = 0
  BY DEF EmptyTable
<1>4. IsFiniteSet(Stored(EmptyTable)) /\ Cardinality(Stored(EmptyTable)) = 0
  BY <1>1, FS_EmptySet
<1> QED
  BY <1>1, <1>2, <1>3, <1>4 DEF Shape

(* Erase takes one key out of a well-formed table. *)
LEMMA EraseShape ==
    ASSUME NEW t, NEW c, NEW s, Shape(t, c, s), NEW k \in Keys
    PROVE  /\ Shape(Erase(t, k), c, s)
           /\ Stored(Erase(t, k)) = Stored(t) \ {k}
<1> DEFINE u == Erase(t, k)
           h == HashOf[k] % c
<1>0. /\ c \in Nat \ {0} /\ DOMAIN t.buckets = 0 .. c - 1
      /\ t.size \in Nat /\ HashKey(t, k) = h /\ h \in 0 .. c - 1
      /\ \A j : j \in Stored(t) <=> \E b \in 0 .. c - 1 : j \in t.buckets[b]
      /\ Find(t, k) <=> k \in Stored(t)
  BY ShapeFacts
<1>1. CASE ~Find(t, k)
  BY <1>0, <1>1 DEF Erase
<1>2. CASE Find(t, k)
  <2>1. u = [buckets |-> [t.buckets EXCEPT ![h] = t.buckets[h] \ {k}], size |-> t.size - 1]
    BY <1>0, <1>2 DEF Erase
  <2> HIDE DEF h, u
  <2>2. /\ DOMAIN u.buckets = 0 .. c - 1
        /\ u.buckets[h] = t.buckets[h] \ {k}
        /\ \A b \in 0 .. c - 1 : b # h => u.buckets[b] = t.buckets[b]
    BY <1>0, <2>1 DEF Shape
  <2>3. \A b \in 0 .. c - 1 : b # h => k \notin t.buckets[b]
    BY DEF Shape, h
  <2>4. \A j : j \in Stored(u) <=> \E b \in 0 .. c - 1 : j \in u.buckets[b]
    BY <2>2 DEF Stored
  <2>5. Stored(u) = Stored(t) \ {k}
    BY <1>0, <2>2, <2>3, <2>4
  <2>6. /\ IsFiniteSet(Stored(u)) /\ Cardinality(Stored(u)) = Cardinality(Stored(t)) - 1
        /\ Cardinality(Stored(t)) \in Nat /\ Cardinality(Stored(u)) \in Nat
    BY <1>0, <1>2, <2>5, FS_RemoveElement, FS_CardinalityType DEF Shape
  <2>7. u.size = t.size - 1 /\ u.size \in Nat /\ u.size = Cardinality(Stored(u))
        /\ 4 * u.size <= 3 * c
    BY <1>0, <2>1, <2>6 DEF Shape
  <2>8. u.buckets \in [0 .. c - 1 -> SUBSET {j \in Keys : ShardOf[j] = s}]
    BY <1>0, <2>1 DEF Shape
  <2>9. u = [buckets |-> u.buckets, size |-> u.size]
    BY <2>1
  <2>10. \A b \in 0 .. c - 1 : \A j \in u.buckets[b] : HashOf[j] % c = b
    BY <2>2 DEF Shape
  <2>11. Shape(u, c, s)
    BY <1>0, <2>6, <2>7, <2>8, <2>9, <2>10 DEF Shape
  <2> QED
    BY <2>5, <2>11 DEF u
<1> QED
  BY <1>1, <1>2

(* A table that grows keeps its entries and has room for one more. *)
HasRoom(g, t, d, s) ==
    /\ Shape(g, d, s)
    /\ Stored(g) = Stored(t)
    /\ g.size = t.size
    /\ 4 * (t.size + 1) <= 3 * d

(* Growing, when it is due, doubles the table and keeps every key. *)
LEMMA GrownShape ==
    ASSUME NEW t, NEW c, NEW s, Shape(t, c, s)
    PROVE  HasRoom(Grown(t), t, c, s) \/ HasRoom(Grown(t), t, 2 * c, s)
<1>0. /\ c \in Nat \ {0} /\ DOMAIN t.buckets = 0 .. c - 1
      /\ t.size \in Nat /\ Capacity(t) = c
      /\ \A j : j \in Stored(t) <=> \E b \in 0 .. c - 1 : j \in t.buckets[b]
      /\ \A j \in Stored(t) : j \in Keys /\ ShardOf[j] = s
  BY ShapeFacts
<1>1. CASE ~(4 * (t.size + 1) > 3 * c)
  <2>1. Grown(t) = t /\ 4 * (t.size + 1) <= 3 * c
    BY <1>0, <1>1 DEF Grown
  <2> QED
    BY <2>1 DEF HasRoom
<1>2. CASE 4 * (t.size + 1) > 3 * c
  <2> DEFINE d == 2 * c
             new == [b \in 0 .. d - 1 |-> {k \in Stored(t) : HashOf[k] % d = b}]
             u == Grown(t)
  <2>1. d \in Nat \ {0} /\ ~(d <= t.size) /\ 4 * (t.size + 1) <= 3 * d /\ 4 * t.size <= 3 * d
    BY <1>0 DEF Shape
  <2>2. u = [t EXCEPT !.buckets = new]
    BY <1>0, <1>2, <2>1 DEF Grown, Resize
  <2>3. u = [buckets |-> new, size |-> t.size]
    BY <2>2 DEF Shape
  <2> HIDE DEF u, d
  <2>4. DOMAIN u.buckets = 0 .. d - 1 /\ u.size = t.size /\ u.buckets = new
    BY <2>3
  <2>5. \A b \in 0 .. d - 1 : u.buckets[b] = {k \in Stored(t) : HashOf[k] % d = b}
    BY <2>4
  <2> HIDE DEF new
  <2>6. \A j : j \in Stored(u) <=> \E b \in 0 .. d - 1 : j \in u.buckets[b]
    BY <2>4 DEF Stored
  <2>7. \A j \in Stored(t) : HashOf[j] % d \in 0 .. d - 1
    BY <1>0, <2>1, Remainder, HashScanAssumption
  <2>8. Stored(u) = Stored(t)
    BY <2>5, <2>6, <2>7
  <2>9. u.buckets \in [0 .. d - 1 -> SUBSET {j \in Keys : ShardOf[j] = s}]
    BY <1>0, <2>4, <2>5 DEF new
  <2>10. \A b \in 0 .. d - 1 : \A j \in u.buckets[b] : HashOf[j] % d = b
    BY <2>5
  <2>11. u = [buckets |-> u.buckets, size |-> u.size]
    BY <2>3, <2>4
  <2>12. Shape(u, d, s)
    BY <1>0, <2>1, <2>4, <2>8, <2>9, <2>10, <2>11 DEF Shape
  <2>13. HasRoom(u, t, d, s)
    BY <2>1, <2>4, <2>8, <2>12 DEF HasRoom
  <2> QED
    BY <2>13 DEF u, d
<1> QED
  BY <1>1, <1>2

(* Insert adds one key to a well-formed table, which may double. *)
LEMMA InsertShape ==
    ASSUME NEW t, NEW c, NEW s, Shape(t, c, s), NEW k \in Keys, ShardOf[k] = s
    PROVE  /\ Stored(Insert(t, k)) = Stored(t) \cup {k}
           /\ Shape(Insert(t, k), c, s) \/ Shape(Insert(t, k), 2 * c, s)
<1>0. Find(t, k) <=> k \in Stored(t)
  BY ShapeFacts
<1>1. CASE Find(t, k)
  BY <1>0, <1>1 DEF Insert
<1>2. CASE ~Find(t, k)
  <2> DEFINE g == Grown(t)
             u == Insert(t, k)
  <2>1. PICK d \in {c, 2 * c} :
            /\ Shape(g, d, s) /\ Stored(g) = Stored(t) /\ g.size = t.size
            /\ 4 * (t.size + 1) <= 3 * d
    <3>1. HasRoom(g, t, c, s) \/ HasRoom(g, t, 2 * c, s)
      BY GrownShape
    <3> QED
      BY <3>1 DEF HasRoom
  <2> DEFINE h == HashOf[k] % d
  <2>2. /\ d \in Nat \ {0} /\ DOMAIN g.buckets = 0 .. d - 1 /\ g.size \in Nat
        /\ HashKey(g, k) = h /\ h \in 0 .. d - 1
        /\ \A j : j \in Stored(g) <=> \E b \in 0 .. d - 1 : j \in g.buckets[b]
    BY <2>1, ShapeFacts
  <2>3. u = [buckets |-> [g.buckets EXCEPT ![h] = g.buckets[h] \cup {k}], size |-> t.size + 1]
    BY <1>2, <2>2 DEF Insert
  <2> HIDE DEF g, u, h
  <2>4. /\ DOMAIN u.buckets = 0 .. d - 1
        /\ u.buckets[h] = g.buckets[h] \cup {k}
        /\ \A b \in 0 .. d - 1 : b # h => u.buckets[b] = g.buckets[b]
    BY <2>1, <2>2, <2>3 DEF Shape
  <2>5. \A j : j \in Stored(u) <=> \E b \in 0 .. d - 1 : j \in u.buckets[b]
    BY <2>4 DEF Stored
  <2>6. Stored(u) = Stored(t) \cup {k}
    BY <2>1, <2>2, <2>4, <2>5
  <2>7. /\ IsFiniteSet(Stored(u)) /\ Cardinality(Stored(u)) = Cardinality(Stored(t)) + 1
    <3>1. IsFiniteSet(Stored(t)) /\ k \notin Stored(t)
      BY <1>0, <1>2 DEF Shape
    <3>2. /\ IsFiniteSet(Stored(t) \cup {k})
          /\ Cardinality(Stored(t) \cup {k}) =
                IF k \in Stored(t) THEN Cardinality(Stored(t)) ELSE Cardinality(Stored(t)) + 1
      BY <3>1, FS_AddElement
    <3> QED
      BY <2>6, <3>1, <3>2
  <2>8. /\ u.size = t.size + 1 /\ u.size \in Nat
        /\ u.size = Cardinality(Stored(u)) /\ 4 * u.size <= 3 * d
    BY <2>1, <2>2, <2>3, <2>7 DEF Shape
  <2>9. u.buckets \in [0 .. d - 1 -> SUBSET {j \in Keys : ShardOf[j] = s}]
    BY <2>1, <2>2, <2>3 DEF Shape
  <2>10. u = [buckets |-> u.buckets, size |-> u.size]
    BY <2>3
  <2>11. \A b \in 0 .. d - 1 : \A j \in u.buckets[b] : HashOf[j] % d = b
    BY <2>1, <2>4 DEF Shape, h
  <2>12. Shape(u, d, s)
    BY <2>2, <2>7, <2>8, <2>9, <2>10, <2>11 DEF Shape
  <2> QED
    BY <2>6, <2>12 DEF u
<1> QED
  BY <1>1, <1>2

(* One call of Scan passes over no key: a stored key from the cursor on is *)
(* returned, or lies from the new cursor on.                               *)
LEMMA ScanFacts ==
    ASSUME NEW t, NEW c, NEW s, Shape(t, c, s),
           NEW cursor \in 0 .. c - 1, NEW count
    PROVE  LET scan == TableScan(t, cursor, count)
           IN  /\ scan.keys \subseteq Stored(t)
               /\ scan.next \in 0 .. c - 1
               /\ \A k \in Stored(t) :
                     HashOf[k] % c >= cursor =>
                         \/ k \in scan.keys
                         \/ scan.next # 0 /\ HashOf[k] % c >= scan.next
<1> DEFINE upTo(i) == UNION {t.buckets[b] : b \in cursor .. i - 1}
           ends == {i \in cursor + 1 .. c : Cardinality(upTo(i)) >= count}
           end == IF ends = {} THEN c ELSE Min(ends)
           scan == TableScan(t, cursor, count)
<1>1. /\ c \in Nat \ {0} /\ Capacity(t) = c
      /\ \A k : k \in Stored(t) <=> \E b \in 0 .. c - 1 : k \in t.buckets[b]
      /\ \A k \in Stored(t) : k \in Keys
      /\ \A k \in Keys : k \in Stored(t) <=> k \in t.buckets[HashOf[k] % c]
      /\ \A k \in Keys : HashKey(t, k) = HashOf[k] % c /\ HashKey(t, k) \in 0 .. c - 1
  BY ShapeFacts
<1>2. ~(cursor >= c)
  BY <1>1
<1>3. scan = [next |-> NextBucket(t, end), keys |-> upTo(end)]
  BY <1>1, <1>2 DEF TableScan
<1>4. end \in cursor + 1 .. c
  <2>1. CASE ends = {}
    BY <1>1, <2>1
  <2>2. CASE ends # {}
    <3>1. ends \subseteq cursor + 1 .. c /\ ends \subseteq Nat
      BY <1>1
    <3> HIDE DEF ends
    <3>2. Min(ends) \in ends
      BY <2>2, <3>1, MinInSet
    <3> QED
      BY <2>2, <3>1, <3>2
  <2> QED
    BY <2>1, <2>2
<1> HIDE DEF end, scan
<1>5. scan.next = (IF end >= c THEN 0 ELSE end) /\ scan.keys = upTo(end)
  BY <1>1, <1>3 DEF NextBucket
<1>6. scan.next \in 0 .. c - 1
  BY <1>1, <1>4, <1>5
<1>7. \A k : k \in scan.keys <=> \E b \in cursor .. end - 1 : k \in t.buckets[b]
  BY <1>5
<1>8. scan.keys \subseteq Stored(t)
  <2>1. cursor .. end - 1 \subseteq 0 .. c - 1
    BY <1>1, <1>4
  <2> QED
    BY <1>1, <1>7, <2>1
<1>9. ASSUME NEW k \in Stored(t), HashOf[k] % c >= cursor
      PROVE  \/ k \in scan.keys
             \/ scan.next # 0 /\ HashOf[k] % c >= scan.next
  <2>1. HashOf[k] % c \in 0 .. c - 1 /\ k \in t.buckets[HashOf[k] % c]
    BY <1>1
  <2>2. CASE HashOf[k] % c < end
    <3>1. HashOf[k] % c \in cursor .. end - 1
      BY <1>1, <1>4, <1>9, <2>1, <2>2
    <3> QED
      BY <1>7, <2>1, <3>1
  <2>3. CASE HashOf[k] % c >= end
    BY <1>1, <1>4, <1>5, <2>1, <2>3
  <2> QED
    BY <1>4, <2>1, <2>2, <2>3
<1> QED
  BY <1>6, <1>8, <1>9 DEF scan

-----------------------------------------------------------------------------
(* The inductive invariant. *)

TablesOK ==
    /\ tables = [s \in Shards |-> tables[s]]
    /\ \A s \in Shards : Shape(tables[s], Capacity(tables[s]), s)

ScanWalk == [op : {"SCAN"}, at : {"shard", "client", "end"}, shard : 0 .. NumShards,
             bucket : Nat, count : Nat, page : Nat, stale : SUBSET Keys]

KeysWalk == [op : {"KEYS"}, at : {"shard", "end"}, shard : 0 .. NumShards,
             pattern : Patterns, stale : SUBSET Keys]

(* The walk stands at a bucket that exists. *)
WalkOK ==
    /\ walk \in {NoWalk} \cup ScanWalk \cup KeysWalk
    /\ walk.op # "none" /\ walk.at # "end" => walk.shard \in Shards
    /\ walk.op = "SCAN" /\ walk.at # "end" =>
          walk.bucket \in 0 .. Capacity(tables[walk.shard]) - 1
    /\ expired \subseteq Keys
    /\ result \subseteq Keys
    /\ due \subseteq Keys

(* MatchPattern and the meaning of patterns agree on the patterns and keys at hand. *)
MatcherIsRight ==
    \A pat \in Patterns, k \in Keys : MatchPattern(pat, k) <=> Glob(pat, k)

(* SCAN matches nothing; KEYS is exact if its matcher is right. *)
Exact == walk.op = "SCAN" \/ MatcherIsRight

(* The key is still what the walk is to return, and lies ahead of it. *)
Ahead(k) ==
    /\ k \in Stored(TableOf(k))
    /\ k \notin expired
    /\ k \notin walk.stale
    /\ walk.op = "KEYS" => Glob(walk.pattern, k)
    /\ Exact =>
          /\ walk.at # "end"
          /\ \/ ShardOf[k] > walk.shard
             \/ /\ ShardOf[k] = walk.shard
                /\ walk.op = "SCAN" => HashOf[k] % Capacity(TableOf(k)) >= walk.bucket

(* What is still owed lies ahead: this is what makes the walk exact. *)
DueAhead == \A k \in due : walk.op # "none" /\ Ahead(k)

KeysMatch == MatcherIsRight /\ walk.op = "KEYS" => \A k \in result : Glob(walk.pattern, k)

IInv ==
    /\ TablesOK
    /\ WalkOK
    /\ DueAhead
    /\ KeysMatch

-----------------------------------------------------------------------------
(* The other clients. *)

(* The table of a key, and when the key is live. *)
LEMMA KeyFacts ==
    ASSUME TablesOK, NEW k \in Keys
    PROVE  /\ ShardOf[k] \in Shards
           /\ Shape(TableOf(k), Capacity(TableOf(k)), ShardOf[k])
           /\ Capacity(TableOf(k)) \in Nat \ {0}
           /\ Find(TableOf(k), k) <=> k \in Stored(TableOf(k))
           /\ k \in LiveKeys <=> k \in Stored(TableOf(k)) /\ k \notin expired
<1>1. ShardOf[k] \in Shards
  BY HashScanAssumption
<1>2. Shape(TableOf(k), Capacity(TableOf(k)), ShardOf[k])
  BY <1>1 DEF TablesOK, TableOf
<1>3. /\ Capacity(TableOf(k)) \in Nat \ {0}
      /\ Find(TableOf(k), k) <=> k \in Stored(TableOf(k))
  BY <1>2, ShapeFacts
<1> QED
  BY <1>1, <1>2, <1>3 DEF LiveKeys

(* A write leaves a key that the walk is still to reach ahead of it: its   *)
(* table is the same, or has doubled.                                      *)
LEMMA WritePreserves ==
    ASSUME IInv, NEW k \in Keys, NEW u, NEW d,
           d \in {Capacity(TableOf(k)), 2 * Capacity(TableOf(k))},
           Shape(u, d, ShardOf[k]),
           Stored(u) \ {k} = Stored(TableOf(k)) \ {k},
           tables' = [tables EXCEPT ![ShardOf[k]] = u],
           Touched(k), result' = result, due' \subseteq due \ {k}
    PROVE  IInv'
<1> DEFINE s == ShardOf[k]
           c == Capacity(TableOf(k))
<1>1. /\ s \in Shards /\ TableOf(k) = tables[s]
      /\ c \in Nat \ {0} /\ d \in Nat \ {0} /\ c <= d
  BY KeyFacts DEF IInv, TableOf
<1>2. Capacity(u) = d
  BY ShapeFacts
<1>3. /\ tables'[s] = u
      /\ \A r \in Shards \ {s} : tables'[r] = tables[r]
  BY <1>1 DEF IInv, TablesOK
<1>4. TablesOK'
  <2>1. tables' = [r \in Shards |-> tables'[r]]
    BY <1>1 DEF IInv, TablesOK
  <2>2. \A r \in Shards : Shape(tables'[r], Capacity(tables'[r]), r)
    BY <1>2, <1>3 DEF IInv, TablesOK
  <2> QED
    BY <2>1, <2>2 DEF TablesOK
<1>5. /\ walk' \in {NoWalk} \cup ScanWalk \cup KeysWalk
      /\ walk'.op = walk.op
      /\ walk.op # "none" =>
            /\ walk'.at = walk.at /\ walk'.shard = walk.shard
            /\ walk'.stale \subseteq walk.stale
            /\ walk.op = "SCAN" => walk'.bucket = walk.bucket
            /\ walk.op = "KEYS" => walk'.pattern = walk.pattern
  <2>1. CASE walk = NoWalk
    BY <2>1 DEF Touched, NoWalk
  <2>2. CASE walk \in ScanWalk
    <3>1. walk' = [walk EXCEPT !.stale = walk.stale \ {k}]
      BY <2>2 DEF Touched, ScanWalk
    <3> QED
      BY <2>2, <3>1 DEF ScanWalk
  <2>3. CASE walk \in KeysWalk
    <3>1. walk' = [walk EXCEPT !.stale = walk.stale \ {k}]
      BY <2>3 DEF Touched, KeysWalk
    <3> QED
      BY <2>3, <3>1 DEF KeysWalk
  <2> QED
    BY <2>1, <2>2, <2>3 DEF IInv, WalkOK
<1>6. expired' \subseteq expired
  BY DEF Touched
<1>7. \A r \in Shards : Capacity(tables[r]) \in Nat /\ Capacity(tables'[r]) \in Nat
                        /\ Capacity(tables[r]) <= Capacity(tables'[r])
  <2> TAKE r \in Shards
  <2>1. Capacity(tables[r]) \in Nat
    BY ShapeFacts DEF IInv, TablesOK
  <2> QED
    BY <1>1, <1>2, <1>3, <2>1
<1>8. WalkOK'
  <2>1. ASSUME walk.op = "SCAN", walk.at # "end"
        PROVE  walk.bucket \in 0 .. Capacity(tables'[walk.shard]) - 1
    <3>1. walk.shard \in Shards /\ walk.bucket \in 0 .. Capacity(tables[walk.shard]) - 1
      BY <2>1 DEF IInv, WalkOK
    <3> QED
      BY <1>7, <3>1
  <2>2. walk.op = "SCAN" => walk.op # "none"
    OBVIOUS
  <2>3. walk'.op # "none" /\ walk'.at # "end" => walk'.shard \in Shards
    BY <1>5 DEF IInv, WalkOK
  <2>4. walk'.op = "SCAN" /\ walk'.at # "end" =>
            walk'.bucket \in 0 .. Capacity(tables'[walk'.shard]) - 1
    BY <1>5, <2>1, <2>2
  <2>5. expired' \subseteq Keys /\ result' \subseteq Keys /\ due' \subseteq Keys
    BY <1>6 DEF IInv, WalkOK
  <2> QED
    BY <1>5, <2>3, <2>4, <2>5 DEF WalkOK
<1>9. DueAhead'
  <2> SUFFICES ASSUME NEW j \in due'
               PROVE  walk'.op # "none" /\ Ahead(j)'
    BY DEF DueAhead
  <2>1. j \in due /\ j # k /\ j \in Keys
    BY DEF IInv, WalkOK
  <2>2. walk.op # "none" /\ Ahead(j)
    BY <2>1 DEF IInv, DueAhead
  <2>3. ShardOf[j] \in Shards
    BY <2>1, HashScanAssumption
  <2>4. ASSUME ShardOf[j] # s
        PROVE  tables'[ShardOf[j]] = tables[ShardOf[j]]
    BY <1>3, <2>3, <2>4
  <2>5. ASSUME ShardOf[j] = s
        PROVE  /\ j \in Stored(tables'[ShardOf[j]])
               /\ HashOf[j] % Capacity(tables'[ShardOf[j]])
                    >= HashOf[j] % Capacity(tables[ShardOf[j]])
    <3>1. j \in Stored(tables[s])
      BY <1>1, <2>2, <2>5 DEF Ahead, TableOf
    <3>2. j \in Stored(u)
      BY <1>1, <2>1, <3>1
    <3>3. /\ HashOf[j] \in Nat /\ HashOf[j] % c \in 0 .. c - 1
          /\ HashOf[j] % (2 * c) \in {HashOf[j] % c, (HashOf[j] % c) + c}
      BY <1>1, <2>1, Remainder, RemainderOfDouble, HashScanAssumption
    <3>4. HashOf[j] % d >= HashOf[j] % c
      BY <1>1, <3>3
    <3> QED
      BY <1>1, <1>2, <1>3, <2>5, <3>2, <3>4
  <2>6. j \in Stored(tables'[ShardOf[j]])
    BY <2>2, <2>4, <2>5 DEF Ahead, TableOf
  <2>7. walk.op = "SCAN" /\ ShardOf[j] = walk.shard =>
            HashOf[j] % Capacity(tables'[ShardOf[j]]) >= walk.bucket
    <3> SUFFICES ASSUME walk.op = "SCAN", ShardOf[j] = walk.shard
                 PROVE  HashOf[j] % Capacity(tables'[ShardOf[j]]) >= walk.bucket
      OBVIOUS
    <3>1. HashOf[j] % Capacity(tables[ShardOf[j]]) >= walk.bucket
      <4>1. ShardOf[j] \in Int /\ ~(ShardOf[j] > walk.shard)
        BY <2>3, HashScanAssumption DEF Shards
      <4> QED
        BY <2>2, <4>1 DEF Ahead, TableOf, Exact
    <3>2. walk.bucket \in Int
      BY <2>2 DEF IInv, WalkOK, Ahead, Exact
    <3>3. \A r \in Shards : /\ HashOf[j] % Capacity(tables[r]) \in Int
                            /\ HashOf[j] % Capacity(tables'[r]) \in Int
      <4> TAKE r \in Shards
      <4>1. Capacity(tables[r]) \in Nat \ {0} /\ Capacity(tables'[r]) \in Nat \ {0}
        BY <1>4, ShapeFacts DEF IInv, TablesOK
      <4>2. HashOf[j] \in Nat
        BY <2>1, HashScanAssumption
      <4> QED
        BY <4>1, <4>2, Remainder
    <3>4. CASE ShardOf[j] = s
      <4>1. HashOf[j] % Capacity(tables'[ShardOf[j]])
              >= HashOf[j] % Capacity(tables[ShardOf[j]])
        BY <2>5, <3>4
      <4> QED
        BY <2>3, <3>1, <3>2, <3>3, <4>1
    <3>5. CASE ShardOf[j] # s
      BY <2>4, <3>1, <3>5
    <3> QED
      BY <3>4, <3>5
  <2>8. Ahead(j)'
    BY <1>5, <1>6, <2>2, <2>6, <2>7 DEF Ahead, TableOf, Exact
  <2> QED
    BY <1>5, <2>2, <2>8
<1>10. KeysMatch'
  BY <1>5 DEF IInv, KeysMatch
<1> QED
  BY <1>4, <1>8, <1>9, <1>10 DEF IInv

(* A write may double a table under a cursor. *)
LEMMA SetPreserves ==
    ASSUME IInv, NEW k \in Keys, Set(k)
    PROVE  IInv'
<1> DEFINE s == ShardOf[k]
           c == Capacity(TableOf(k))
           t == IF k \in expired THEN Erase(TableOf(k), k) ELSE TableOf(k)
           u == Insert(t, k)
<1>1. /\ Shape(TableOf(k), c, s)
      /\ k \in LiveKeys <=> k \in Stored(TableOf(k)) /\ k \notin expired
  BY KeyFacts DEF IInv
<1>2. /\ k \notin LiveKeys /\ tables' = [tables EXCEPT ![s] = u]
      /\ Touched(k) /\ result' = result /\ due' = due
  BY DEF Set
<1>3. Shape(t, c, s) /\ Stored(t) \ {k} = Stored(TableOf(k)) \ {k}
  BY <1>1, EraseShape
<1> HIDE DEF t
<1>4. /\ Stored(u) = Stored(t) \cup {k}
      /\ Shape(u, c, s) \/ Shape(u, 2 * c, s)
  BY <1>3, InsertShape
<1>5. Stored(u) \ {k} = Stored(TableOf(k)) \ {k}
  BY <1>3, <1>4
<1>6. k \notin due
  BY <1>1, <1>2 DEF IInv, DueAhead, Ahead
<1>7. due' \subseteq due \ {k}
  BY <1>2, <1>6
<1> HIDE DEF u
<1>8. CASE Shape(u, c, s)
  BY <1>2, <1>5, <1>7, <1>8, WritePreserves
<1>9. CASE Shape(u, 2 * c, s)
  BY <1>2, <1>5, <1>7, <1>9, WritePreserves
<1> QED
  BY <1>4, <1>8, <1>9

(* A deletion or a sweep takes a key from the table and from what is due. *)
LEMMA ForgetPreserves ==
    ASSUME IInv, NEW k \in Keys, Forget(k)
    PROVE  IInv'
<1> DEFINE s == ShardOf[k]
           c == Capacity(TableOf(k))
           u == Erase(TableOf(k), k)
<1>1. Shape(TableOf(k), c, s) /\ s \in Shards
  BY KeyFacts DEF IInv
<1>2. /\ tables' = [tables EXCEPT ![s] = u]
      /\ Touched(k) /\ result' = result /\ due' = due \ {k}
  BY <1>1 DEF Forget, TableOf, IInv, TablesOK
<1>3. Shape(u, c, s) /\ Stored(u) = Stored(TableOf(k)) \ {k}
  BY <1>1, EraseShape
<1>4. Stored(u) \ {k} = Stored(TableOf(k)) \ {k}
  BY <1>3
<1> HIDE DEF u
<1> QED
  BY <1>2, <1>3, <1>4, WritePreserves

(* A key whose deadline passes is no longer due. *)
LEMMA DeadlinePreserves ==
    ASSUME IInv, NEW k \in Keys, DeadlinePasses(k)
    PROVE  IInv'
<1>1. /\ tables' = tables /\ walk' = walk /\ result' = result
      /\ expired' = expired \cup {k} /\ due' = due \ {k}
  BY DEF DeadlinePasses
<1>2. TablesOK' /\ WalkOK' /\ KeysMatch'
  BY <1>1 DEF IInv, TablesOK, WalkOK, KeysMatch
<1>3. DueAhead'
  BY <1>1 DEF IInv, DueAhead, Ahead, TableOf, Exact
<1> QED
  BY <1>2, <1>3 DEF IInv

-----------------------------------------------------------------------------
(* The walks. *)

(* At its start a walk is behind every key. *)
LEMMA BeginFacts ==
    ASSUME TablesOK
    PROVE  /\ 0 \in Shards
           /\ Capacity(tables[0]) \in Nat \ {0}
           /\ \A k \in LiveKeys :
                 /\ k \in Keys /\ k \in Stored(TableOf(k)) /\ k \notin expired
                 /\ ShardOf[k] \in Nat
                 /\ HashOf[k] % Capacity(TableOf(k)) >= 0
<1>1. 0 \in Shards
  BY HashScanAssumption DEF Shards
<1>2. Capacity(tables[0]) \in Nat \ {0}
  BY <1>1, ShapeFacts DEF TablesOK
<1>3. ASSUME NEW k \in LiveKeys
      PROVE  /\ k \in Keys /\ k \in Stored(TableOf(k)) /\ k \notin expired
             /\ ShardOf[k] \in Nat
             /\ HashOf[k] % Capacity(TableOf(k)) >= 0
  <2>1. k \in Keys
    BY DEF LiveKeys
  <2>2. ShardOf[k] \in Nat /\ HashOf[k] \in Nat
    BY <2>1, HashScanAssumption DEF Shards
  <2> QED
    <3>1. /\ Capacity(TableOf(k)) \in Nat \ {0}
          /\ k \in Stored(TableOf(k)) /\ k \notin expired
      BY <2>1, KeyFacts
    <3>2. HashOf[k] % Capacity(TableOf(k)) \in 0 .. Capacity(TableOf(k)) - 1
      BY <2>2, <3>1, Remainder
    <3> QED
      BY <2>1, <2>2, <3>1, <3>2
<1> QED
  BY <1>1, <1>2, <1>3

(* A SCAN starts at the first bucket, and owes every live key. *)
LEMMA ScanBeginPreserves ==
    ASSUME IInv, NEW count \in Counts, ScanBegin(count)
    PROVE  IInv'
<1>1. /\ walk' = [op |-> "SCAN", at |-> "shard", shard |-> 0, bucket |-> 0,
                  count |-> IF count = 0 THEN DefaultCount ELSE count,
                  page |-> 0, stale |-> expired]
      /\ result' = {} /\ due' = LiveKeys /\ tables' = tables /\ expired' = expired
  BY DEF ScanBegin
<1>2. TablesOK'
  BY <1>1 DEF IInv, TablesOK
<1>3. walk' \in ScanWalk
  BY <1>1, HashScanAssumption DEF ScanWalk, IInv, WalkOK
<1>4. WalkOK'
  BY <1>1, <1>3, BeginFacts DEF IInv, WalkOK
<1>5. DueAhead'
  <2> SUFFICES ASSUME NEW k \in LiveKeys PROVE Ahead(k)'
    BY <1>1 DEF DueAhead
  <2>1. /\ k \in Stored(TableOf(k)) /\ k \notin expired /\ ShardOf[k] \in Nat
        /\ HashOf[k] % Capacity(TableOf(k)) >= 0
    BY BeginFacts DEF IInv
  <2>2. ShardOf[k] > 0 \/ ShardOf[k] = 0
    BY <2>1
  <2> QED
    BY <1>1, <2>1, <2>2 DEF Ahead, TableOf, Exact
<1>6. KeysMatch'
  BY <1>1 DEF KeysMatch
<1> QED
  BY <1>2, <1>4, <1>5, <1>6 DEF IInv

(* KEYS starts at the first shard, and owes every live key that matches. *)
LEMMA KeysBeginPreserves ==
    ASSUME IInv, NEW pat \in Patterns, KeysBegin(pat)
    PROVE  IInv'
<1>1. /\ walk' = [op |-> "KEYS", at |-> "shard", shard |-> 0, pattern |-> pat,
                  stale |-> expired]
      /\ result' = {} /\ due' = {k \in LiveKeys : Glob(pat, k)}
      /\ tables' = tables /\ expired' = expired
  BY DEF KeysBegin
<1>2. TablesOK'
  BY <1>1 DEF IInv, TablesOK
<1>3. walk' \in KeysWalk
  BY <1>1, HashScanAssumption DEF KeysWalk, IInv, WalkOK
<1>4. WalkOK'
  BY <1>1, <1>3, BeginFacts DEF IInv, WalkOK
<1>5. DueAhead'
  <2> SUFFICES ASSUME NEW k \in LiveKeys, Glob(pat, k) PROVE Ahead(k)'
    BY <1>1 DEF DueAhead
  <2>1. k \in Stored(TableOf(k)) /\ k \notin expired /\ ShardOf[k] \in Nat
    BY BeginFacts DEF IInv
  <2>2. ShardOf[k] > 0 \/ ShardOf[k] = 0
    BY <2>1
  <2> QED
    BY <1>1, <2>1, <2>2 DEF Ahead, TableOf, Exact
<1>6. KeysMatch'
  BY <1>1 DEF KeysMatch
<1> QED
  BY <1>2, <1>4, <1>5, <1>6 DEF IInv

(* The client calls SCAN with the cursor it was given. *)
LEMMA ScanAgainPreserves ==
    ASSUME IInv, ScanAgain
    PROVE  IInv'
<1>1. walk \in ScanWalk /\ walk.at = "client"
  BY DEF ScanAgain, IInv, WalkOK, NoWalk, KeysWalk
<1>2. /\ tables' = tables /\ expired' = expired /\ result' = result /\ due' = due
      /\ walk' = [walk EXCEPT !.at = "shard", !.page = 0, !.stale = expired]
  BY DEF ScanAgain
<1>3. /\ walk' \in ScanWalk /\ walk'.op = "SCAN" /\ walk'.at = "shard"
      /\ walk'.shard = walk.shard /\ walk'.bucket = walk.bucket /\ walk'.stale = expired
      /\ walk.op = "SCAN"
  BY <1>1, <1>2 DEF ScanWalk, IInv, WalkOK
<1>4. TablesOK' /\ WalkOK' /\ KeysMatch'
  BY <1>1, <1>2, <1>3 DEF IInv, TablesOK, WalkOK, KeysMatch
<1>5. DueAhead'
  BY <1>1, <1>2, <1>3 DEF IInv, DueAhead, Ahead, TableOf, Exact
<1> QED
  BY <1>4, <1>5 DEF IInv

(* A SCAN call in one shard: what is still due lies behind the new cursor. *)
LEMMA ScanShardPreserves ==
    ASSUME IInv, ScanShard
    PROVE  IInv'
<1> DEFINE r == walk.shard
           t == tables[r]
           c == Capacity(t)
           scan == TableScan(t, walk.bucket, walk.count - walk.page)
           keys == scan.keys \ walk.stale
           page == walk.page + Cardinality(keys)
<1>1. walk \in ScanWalk /\ walk.at = "shard" /\ walk.op = "SCAN"
  BY DEF ScanShard, IInv, WalkOK, NoWalk, KeysWalk
<1>2. /\ r \in Shards /\ walk.bucket \in 0 .. c - 1
      /\ Shape(t, c, r)
  BY <1>1 DEF IInv, WalkOK, TablesOK
<1>3. c \in Nat \ {0} /\ \A k \in Stored(t) : k \in Keys /\ ShardOf[k] = r
  BY <1>2, ShapeFacts
<1>4. /\ scan.keys \subseteq Stored(t)
      /\ scan.next \in 0 .. c - 1
      /\ \A k \in Stored(t) :
            HashOf[k] % c >= walk.bucket =>
                \/ k \in scan.keys
                \/ scan.next # 0 /\ HashOf[k] % c >= scan.next
  BY <1>2, ScanFacts
<1>5. page \in Nat
  <2>1. IsFiniteSet(Stored(t)) /\ keys \in SUBSET Stored(t)
    BY <1>2, <1>4 DEF Shape
  <2>2. IsFiniteSet(keys)
    BY <2>1, FS_Subset
  <2>3. Cardinality(keys) \in Nat
    BY <2>2, FS_CardinalityType
  <2>4. walk.page \in Nat
    BY <1>1 DEF ScanWalk
  <2> QED
    BY <2>3, <2>4
<1>6. /\ result' = result \cup keys /\ due' = due \ keys
      /\ tables' = tables /\ expired' = expired
      /\ \/ /\ scan.next = 0
            /\ walk' = [walk EXCEPT !.shard = walk.shard + 1, !.bucket = 0, !.page = page,
                          !.at = IF walk.shard + 1 = NumShards THEN "end"
                                 ELSE IF page < walk.count THEN "shard" ELSE "client"]
         \/ /\ scan.next # 0
            /\ walk' = [walk EXCEPT !.bucket = scan.next, !.page = page, !.at = "client"]
  <2>1. walk = [op |-> walk.op, at |-> walk.at, shard |-> walk.shard,
                bucket |-> walk.bucket, count |-> walk.count, page |-> walk.page,
                stale |-> walk.stale]
    BY <1>1 DEF ScanWalk
  <2> QED
    BY <1>1, <2>1 DEF ScanShard, Returned
<1> HIDE DEF r, t, c, scan, keys, page
<1>7. r \in 0 .. NumShards - 1 /\ NumShards \in Nat \ {0}
  BY <1>2, HashScanAssumption DEF Shards
<1>8. ASSUME NEW k \in due'
      PROVE  /\ k \in Keys /\ k \in Stored(TableOf(k)) /\ k \notin expired
             /\ k \notin walk.stale
             /\ ShardOf[k] \in 0 .. NumShards - 1
             /\ \/ ShardOf[k] > r
                \/ /\ ShardOf[k] = r /\ scan.next # 0
                   /\ HashOf[k] % Capacity(TableOf(k)) >= scan.next
  <2>1. k \in due /\ k \notin keys /\ k \in Keys
    BY <1>6, <1>8 DEF IInv, WalkOK
  <2>2. Ahead(k)
    BY <2>1 DEF IInv, DueAhead
  <2>3. ShardOf[k] \in 0 .. NumShards - 1
    BY <2>1, HashScanAssumption DEF Shards
  <2>4. ASSUME ShardOf[k] = r
        PROVE  scan.next # 0 /\ HashOf[k] % Capacity(TableOf(k)) >= scan.next
    <3>1. TableOf(k) = t
      BY <2>4 DEF TableOf, t
    <3>2. k \in Stored(t) /\ k \notin walk.stale
      BY <2>2, <3>1 DEF Ahead
    <3>3. HashOf[k] % c >= walk.bucket
      <4>1. ~(ShardOf[k] > walk.shard) /\ ShardOf[k] = walk.shard
        BY <1>7, <2>3, <2>4 DEF r
      <4> QED
        BY <1>1, <2>2, <3>1, <4>1 DEF Ahead, Exact, c
    <3>4. k \notin scan.keys
      BY <2>1, <3>2 DEF keys
    <3> QED
      BY <1>4, <3>1, <3>2, <3>3, <3>4 DEF c
  <2>5. ShardOf[k] > r \/ ShardOf[k] = r
    BY <1>1, <2>2 DEF Ahead, Exact, r
  <2> QED
    BY <2>1, <2>2, <2>3, <2>4, <2>5 DEF Ahead
<1>9. TablesOK'
  BY <1>6 DEF IInv, TablesOK
<1>10. keys \subseteq Keys
  BY <1>3, <1>4 DEF keys
<1>11. expired' \subseteq Keys /\ result' \subseteq Keys /\ due' \subseteq Keys
  BY <1>6, <1>10 DEF IInv, WalkOK
<1>12. CASE scan.next = 0
  <2>1. /\ walk' \in ScanWalk /\ walk'.op = "SCAN" /\ walk'.stale = walk.stale
        /\ walk'.shard = r + 1 /\ walk'.bucket = 0
        /\ (walk'.at = "end" <=> r + 1 = NumShards)
    <3>1. /\ DOMAIN walk' = DOMAIN walk
          /\ walk'.op = walk.op /\ walk'.count = walk.count /\ walk'.stale = walk.stale
          /\ walk'.shard = r + 1 /\ walk'.bucket = 0 /\ walk'.page = page
          /\ walk'.at = IF r + 1 = NumShards THEN "end"
                        ELSE IF page < walk.count THEN "shard" ELSE "client"
      BY <1>1, <1>6, <1>12 DEF ScanWalk, r
    <3>2. walk'.at \in {"shard", "client", "end"} /\ (walk'.at = "end" <=> r + 1 = NumShards)
      BY <3>1
    <3>3. walk' = [op |-> walk'.op, at |-> walk'.at, shard |-> walk'.shard,
                   bucket |-> walk'.bucket, count |-> walk'.count, page |-> walk'.page,
                   stale |-> walk'.stale]
      BY <1>1, <1>6, <1>12, <3>1 DEF ScanWalk
    <3>4. /\ walk.op = "SCAN" /\ walk.count \in Nat /\ walk.stale \in SUBSET Keys
      BY <1>1 DEF ScanWalk
    <3>5. r + 1 \in 0 .. NumShards
      BY <1>7
    <3>6. walk' \in ScanWalk
      BY <1>5, <3>1, <3>2, <3>3, <3>4, <3>5 DEF ScanWalk
    <3> QED
      BY <3>1, <3>2, <3>4, <3>6
  <2>2. ASSUME walk'.at # "end"
        PROVE  /\ walk'.shard \in Shards
               /\ walk'.bucket \in 0 .. Capacity(tables'[walk'.shard]) - 1
    <3>1. r + 1 \in Shards
      BY <1>7, <2>1, <2>2 DEF Shards
    <3>2. Capacity(tables[r + 1]) \in Nat \ {0}
      BY <3>1, ShapeFacts DEF IInv, TablesOK
    <3> QED
      BY <1>6, <2>1, <3>1, <3>2
  <2>3. WalkOK'
    BY <1>11, <2>1, <2>2 DEF WalkOK
  <2>4. DueAhead'
    <3> SUFFICES ASSUME NEW k \in due'
                 PROVE  Ahead(k)'
      BY <2>1 DEF DueAhead
    <3>1. /\ k \in Keys /\ k \in Stored(TableOf(k)) /\ k \notin expired
          /\ k \notin walk.stale
          /\ ShardOf[k] \in 0 .. NumShards - 1 /\ ShardOf[k] > r
      BY <1>8, <1>12
    <3>2. walk'.at # "end" /\ (ShardOf[k] > r + 1 \/ ShardOf[k] = r + 1)
      BY <1>7, <2>1, <3>1
    <3>3. HashOf[k] % Capacity(TableOf(k)) >= 0
      <4>1. HashOf[k] \in Nat /\ Capacity(TableOf(k)) \in Nat \ {0}
        BY <3>1, KeyFacts, HashScanAssumption DEF IInv
      <4>2. HashOf[k] % Capacity(TableOf(k)) \in 0 .. Capacity(TableOf(k)) - 1
        BY <4>1, Remainder
      <4> QED
        BY <4>1, <4>2
    <3> QED
      BY <1>6, <2>1, <3>1, <3>2, <3>3 DEF Ahead, TableOf, Exact
  <2>5. KeysMatch'
    BY <2>1 DEF KeysMatch
  <2> QED
    BY <1>9, <2>3, <2>4, <2>5 DEF IInv
<1>13. CASE scan.next # 0
  <2>1. /\ walk' \in ScanWalk /\ walk'.op = "SCAN" /\ walk'.stale = walk.stale
        /\ walk'.shard = r /\ walk'.bucket = scan.next /\ walk'.at = "client"
    <3>1. /\ DOMAIN walk' = DOMAIN walk
          /\ walk'.op = walk.op /\ walk'.count = walk.count /\ walk'.stale = walk.stale
          /\ walk'.shard = r /\ walk'.bucket = scan.next /\ walk'.page = page
          /\ walk'.at = "client"
      BY <1>1, <1>6, <1>13 DEF ScanWalk, r
    <3>2. walk' = [op |-> walk'.op, at |-> walk'.at, shard |-> walk'.shard,
                   bucket |-> walk'.bucket, count |-> walk'.count, page |-> walk'.page,
                   stale |-> walk'.stale]
      BY <1>1, <1>6, <1>13, <3>1 DEF ScanWalk
    <3>3. /\ walk.op = "SCAN" /\ walk.count \in Nat /\ walk.stale \in SUBSET Keys
          /\ r \in 0 .. NumShards /\ scan.next \in Nat
      BY <1>1, <1>3, <1>4 DEF ScanWalk, r
    <3> QED
      BY <1>5, <3>1, <3>2, <3>3 DEF ScanWalk
  <2>2. WalkOK'
    BY <1>2, <1>4, <1>6, <1>11, <2>1 DEF WalkOK, c, t
  <2>3. DueAhead'
    BY <1>6, <1>8, <2>1 DEF DueAhead, Ahead, TableOf, Exact
  <2>4. KeysMatch'
    BY <2>1 DEF KeysMatch
  <2> QED
    BY <1>9, <2>2, <2>3, <2>4 DEF IInv
<1> QED
  BY <1>12, <1>13

(* KEYS in one shard: what is still due lies in later shards. *)
LEMMA KeysShardPreserves ==
    ASSUME IInv, KeysShard
    PROVE  IInv'
<1> DEFINE r == walk.shard
           t == tables[r]
           keys == {k \in Stored(t) \ walk.stale : MatchPattern(walk.pattern, k)}
<1>1. walk \in KeysWalk /\ walk.at = "shard" /\ walk.op = "KEYS"
  BY DEF KeysShard, IInv, WalkOK, NoWalk, ScanWalk
<1>2. r \in Shards /\ Shape(t, Capacity(t), r)
  BY <1>1 DEF IInv, WalkOK, TablesOK
<1>3. r \in 0 .. NumShards - 1 /\ NumShards \in Nat \ {0}
  BY <1>2, HashScanAssumption DEF Shards
<1>4. \A k \in Stored(t) : k \in Keys
  BY <1>2, ShapeFacts
<1>5. /\ result' = result \cup keys /\ due' = due \ keys
      /\ tables' = tables /\ expired' = expired
      /\ walk' = [walk EXCEPT !.shard = r + 1,
                              !.at = IF r + 1 = NumShards THEN "end" ELSE "shard"]
  BY <1>1 DEF KeysShard, Returned, KeysWalk
<1> HIDE DEF r, t, keys
<1>6. /\ walk' \in KeysWalk /\ walk'.op = "KEYS" /\ walk'.stale = walk.stale
      /\ walk'.pattern = walk.pattern /\ walk'.shard = r + 1
      /\ (walk'.at = "end" <=> r + 1 = NumShards)
  <2>1. walk = [op |-> walk.op, at |-> walk.at, shard |-> walk.shard,
                pattern |-> walk.pattern, stale |-> walk.stale]
    BY <1>1 DEF KeysWalk
  <2>2. walk' = [op |-> walk.op, at |-> IF r + 1 = NumShards THEN "end" ELSE "shard",
                 shard |-> r + 1, pattern |-> walk.pattern, stale |-> walk.stale]
    BY <1>5, <2>1
  <2>3. /\ walk'.op = walk.op /\ walk'.shard = r + 1
        /\ walk'.at = IF r + 1 = NumShards THEN "end" ELSE "shard"
        /\ walk'.stale = walk.stale /\ walk'.pattern = walk.pattern
    BY <2>2
  <2>4. r + 1 \in 0 .. NumShards
    BY <1>3
  <2>5. walk' \in KeysWalk
    BY <1>1, <2>2, <2>4 DEF KeysWalk
  <2> QED
    BY <1>1, <2>3, <2>5
<1>7. TablesOK'
  BY <1>5 DEF IInv, TablesOK
<1>8. keys \subseteq Keys
  BY <1>4 DEF keys
<1>9. walk'.at # "end" => walk'.shard \in Shards
  BY <1>3, <1>6 DEF Shards
<1>10. WalkOK'
  BY <1>5, <1>6, <1>8, <1>9 DEF IInv, WalkOK
<1>11. DueAhead'
  <2> SUFFICES ASSUME NEW k \in due' PROVE Ahead(k)'
    BY <1>6 DEF DueAhead
  <2>1. k \in due /\ k \notin keys /\ k \in Keys /\ Ahead(k)
    BY <1>5 DEF IInv, WalkOK, DueAhead
  <2>2. ShardOf[k] \in 0 .. NumShards - 1
    BY <2>1, HashScanAssumption DEF Shards
  <2>3. ASSUME MatcherIsRight
        PROVE  walk'.at # "end" /\ (ShardOf[k] > r + 1 \/ ShardOf[k] = r + 1)
    <3>1. ShardOf[k] # r
      <4> SUFFICES ASSUME ShardOf[k] = r PROVE FALSE
        OBVIOUS
      <4>1. k \in Stored(t) /\ k \notin walk.stale /\ Glob(walk.pattern, k)
        BY <1>1, <2>1 DEF Ahead, TableOf, t
      <4>2. MatchPattern(walk.pattern, k)
        BY <1>1, <2>1, <2>3, <4>1 DEF MatcherIsRight, KeysWalk
      <4> QED
        BY <2>1, <4>1, <4>2 DEF keys
    <3>2. ShardOf[k] > r
      BY <2>1, <2>3, <3>1 DEF Ahead, Exact, r
    <3> QED
      BY <1>3, <1>6, <2>2, <3>2
  <2> QED
    BY <1>1, <1>5, <1>6, <2>1, <2>3 DEF Ahead, TableOf, Exact
<1>12. KeysMatch'
  <2> SUFFICES ASSUME MatcherIsRight, NEW k \in result'
               PROVE  Glob(walk.pattern, k)
    BY <1>6 DEF KeysMatch
  <2>1. CASE k \in result
    BY <1>1, <2>1 DEF IInv, KeysMatch
  <2>2. CASE k \in keys
    <3>1. MatchPattern(walk.pattern, k) /\ k \in Keys
      BY <1>8, <2>2 DEF keys
    <3> QED
      BY <1>1, <3>1 DEF MatcherIsRight, KeysWalk
  <2> QED
    BY <1>5, <2>1, <2>2
<1> QED
  BY <1>7, <1>10, <1>11, <1>12 DEF IInv

-----------------------------------------------------------------------------
(* All tables are empty and nobody walks. *)
LEMMA InitInvariant == Init => IInv
<1> SUFFICES ASSUME Init PROVE IInv
  OBVIOUS
<1>1. TablesOK
  <2>1. tables = [s \in Shards |-> EmptyTable]
    BY DEF Init
  <2>2. \A s \in Shards : Shape(EmptyTable, Capacity(EmptyTable), s)
    BY EmptyShape, ShapeFacts
  <2>3. \A s \in Shards : tables[s] = EmptyTable
    BY <2>1
  <2> QED
    BY <2>1, <2>2, <2>3 DEF TablesOK
<1> QED
  BY <1>1 DEF Init, IInv, WalkOK, DueAhead, KeysMatch, NoWalk

(* One case per action. *)
LEMMA StepInvariant == IInv /\ [Next]_vars => IInv'
<1> SUFFICES ASSUME IInv, [Next]_vars PROVE IInv'
  OBVIOUS
<1>1. ASSUME NEW k \in Keys, Set(k) \/ Forget(k) \/ DeadlinePasses(k) PROVE IInv'
  BY <1>1, SetPreserves, ForgetPreserves, DeadlinePreserves
<1>2. ASSUME NEW count \in Counts, ScanBegin(count) PROVE IInv'
  BY <1>2, ScanBeginPreserves
<1>3. ASSUME NEW pat \in Patterns, KeysBegin(pat) PROVE IInv'
  BY <1>3, KeysBeginPreserves
<1>4. CASE WalkStep
  BY <1>4, ScanAgainPreserves, ScanShardPreserves, KeysShardPreserves DEF WalkStep
<1>5. CASE WalkEnd
  <2>1. walk' = NoWalk /\ result' = {} /\ due' = {} /\ tables' = tables /\ expired' = expired
    BY <1>5 DEF WalkEnd
  <2> QED
    BY <2>1 DEF IInv, TablesOK, WalkOK, DueAhead, KeysMatch, NoWalk
<1>6. CASE UNCHANGED vars
  BY <1>6 DEF vars, IInv, TablesOK, WalkOK, DueAhead, Ahead, Exact, TableOf, KeysMatch
<1> QED
  BY <1>1, <1>2, <1>3, <1>4, <1>5, <1>6 DEF Next

(***************************************************************************)
(* Writes, expiry, the growth of a table and the steps of SCAN, KEYS and   *)
(* DBSIZE keep the inductive invariant.                                    *)
(***************************************************************************)
THEOREM Invariance == Spec => []IInv
BY InitInvariant, StepInvariant, PTL DEF Spec

(***************************************************************************)
(* Buckets hold keys of their shard only, and a SCAN cursor that has been  *)
(* handed out stays a bucket of the table however it grows.                *)
(***************************************************************************)
THEOREM TypeCorrect == Spec => []TypeOK
<1>1. IInv => TypeOK
  <2> SUFFICES ASSUME IInv PROVE TypeOK
    OBVIOUS
  <2>1. ASSUME NEW s \in Shards
        PROVE  /\ tables[s].size \in Nat
               /\ DOMAIN tables[s].buckets = 0 .. Capacity(tables[s]) - 1
               /\ \A b \in DOMAIN tables[s].buckets :
                     tables[s].buckets[b] \subseteq {k \in Keys : ShardOf[k] = s}
    <3>1. Shape(tables[s], Capacity(tables[s]), s)
      BY DEF IInv, TablesOK
    <3>2. /\ DOMAIN tables[s].buckets = 0 .. Capacity(tables[s]) - 1
          /\ tables[s].size \in Nat
      BY <3>1, ShapeFacts
    <3> QED
      BY <3>1, <3>2 DEF Shape
  <2> QED
    BY <2>1 DEF IInv, WalkOK, TypeOK
<1> QED
  BY <1>1, Invariance, PTL

(***************************************************************************)
(* Insert, Erase and Resize keep the table whole: every stored key is      *)
(* where its hash says, size_ is right and the load within its factor.     *)
(***************************************************************************)
THEOREM TablesArePlaced == Spec => []Placed
<1>1. IInv => Placed
  <2> SUFFICES ASSUME IInv, NEW s \in Shards
               PROVE  LET t == tables[s]
                      IN  /\ \A b \in DOMAIN t.buckets :
                                \A k \in t.buckets[b] : HashKey(t, k) = b
                          /\ t.size = Cardinality(Stored(t))
                          /\ 4 * t.size <= 3 * Capacity(t)
    BY DEF Placed
  <2> DEFINE t == tables[s]
             c == Capacity(t)
  <2>1. Shape(t, c, s)
    BY DEF IInv, TablesOK
  <2>2. /\ DOMAIN t.buckets = 0 .. c - 1
        /\ \A k \in Keys : HashKey(t, k) = HashOf[k] % c
    BY <2>1, ShapeFacts
  <2> HIDE DEF t, c
  <2> QED
    BY <2>1, <2>2 DEF Shape, t, c
<1> QED
  BY <1>1, Invariance, PTL

(***************************************************************************)
(* A SCAN that has reached the end has returned every key that was there   *)
(* and live from its first call on, although tables grew between calls.    *)
(***************************************************************************)
THEOREM ScanIsComplete == Spec => [](walk.op = "SCAN" /\ walk.at = "end" => due = {})
<1>1. IInv => (walk.op = "SCAN" /\ walk.at = "end" => due = {})
  BY DEF IInv, DueAhead, Ahead, Exact
<1> QED
  BY <1>1, Invariance, PTL

(***************************************************************************)
(* No key has a '*' of its own: a '*' of the pattern that meets it is      *)
(* taken for that one character.                                           *)
(***************************************************************************)
PlainKeys == \A k \in Keys : NoStar(k)

(* On such keys the matcher is right, whatever the patterns. *)
LEMMA PlainKeysMatch == PlainKeys => MatcherIsRight
BY MatcherDecides, HashScanAssumption DEF PlainKeys, MatcherIsRight

(***************************************************************************)
(* Every walk is exact: SCAN, KEYS and DBSIZE miss no key that was live    *)
(* throughout, and KEYS lists no key its pattern does not stand for, if no *)
(* key has a '*' of its own.                                               *)
(***************************************************************************)
THEOREM WalksAreExact == PlainKeys => (Spec => []WalkIsExact)
<1> SUFFICES ASSUME PlainKeys PROVE Spec => []WalkIsExact
  OBVIOUS
<1>1. MatcherIsRight
  BY PlainKeysMatch
<1>2. IInv => WalkIsExact
  BY <1>1 DEF IInv, DueAhead, Ahead, Exact, KeysMatch, WalkIsExact
<1> QED
  BY <1>2, Invariance, PTL
=============================================================================
