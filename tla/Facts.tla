--------------------------------- MODULE Facts ---------------------------------
(***************************************************************************)
(* Facts about numbers, finite sets, sequences and bounded loops that the  *)
(* proofs of several components need.  The library states induction for    *)
(* operators; the provers at hand need it for sets.                        *)
(***************************************************************************)
EXTENDS Integers, Sequences, FiniteSetsExt, FiniteSetTheorems, SequenceTheorems,
        WellFoundedInduction, TLAPS

\* A nonempty set of natural numbers has a least element.
LEMMA LeastNat ==
    ASSUME NEW S \in SUBSET Nat, S # {}
    PROVE  \E x \in S : \A y \in S : x <= y
<1> DEFINE R == {ss \in Nat \X Nat : ss[1] < ss[2]}
<1>1. IsWellFoundedOn(R, Nat)
  BY NatLessThanWellFounded DEF OpToRel
<1>0. \A a, b \in Nat : a < b => <<a, b>> \in R
  OBVIOUS
<1> HIDE DEF R
<1>2. PICK x \in S : \A y \in S : ~(<<y, x>> \in R)
  BY <1>1, WFMin
<1>3. ASSUME NEW y \in S PROVE x <= y
  <2>1. x \in Nat /\ y \in Nat /\ ~(<<y, x>> \in R)
    BY <1>2
  <2>2. ~(y < x)
    BY <1>0, <2>1
  <2>3. QED
    BY <2>1, <2>2
<1>4. QED
  BY <1>3

\* Min picks the least element.
LEMMA MinNat ==
    ASSUME NEW S \in SUBSET Nat, S # {}
    PROVE  Min(S) \in S /\ \A y \in S : Min(S) <= y
<1>1. \E x \in S : \A y \in S : x <= y
  BY LeastNat
<1>2. QED
  BY <1>1 DEF Min

\* A set of numbers that has 0 and the successor of each of its elements has
\* all: induction for sets.
LEMMA NatSetInduction ==
    ASSUME NEW T, 0 \in T, \A n \in Nat : n \in T => n + 1 \in T
    PROVE  \A n \in Nat : n \in T
<1> SUFFICES ASSUME \E n \in Nat : n \notin T PROVE FALSE
  OBVIOUS
<1> DEFINE S == {n \in Nat : n \notin T}
<1>1. PICK x \in S : \A y \in S : x <= y
  BY LeastNat
<1>2. x # 0 /\ x - 1 \in Nat /\ x - 1 \notin S
  BY <1>1
<1>3. QED
  BY <1>1, <1>2

\* The steps of a loop over 1 .. N on a value in X.
LoopSteps(N, X) == [X -> [1 .. N -> X]]

\* f[s] is what a loop over 1 .. N has computed after s rounds.
LoopRuns(f, N, X, k, G) ==
    /\ f \in [0 .. N -> X]
    /\ f[0] = k
    /\ \A s \in 1 .. N : f[s] = G[f[s - 1]][s]

\* A loop over 1 .. N whose step maps X to X has a result at every index: what
\* a recursive function definition over the loop counter needs.
LEMMA LoopExists ==
    ASSUME NEW N \in Nat, NEW X, NEW k \in X, NEW G \in LoopSteps(N, X)
    PROVE  \E f : LoopRuns(f, N, X, k, G)
<1> USE DEF LoopSteps
<1> DEFINE Upto(n) == \E f \in [0 .. N -> X] :
                        f[0] = k /\ \A s \in 1 .. n : f[s] = G[f[s - 1]][s]
           T == {n \in Nat : n <= N => Upto(n)}
<1>1. Upto(0)
  <2>1. [s \in 0 .. N |-> k] \in [0 .. N -> X] /\ [s \in 0 .. N |-> k][0] = k
    OBVIOUS
  <2>2. \A s \in 1 .. 0 : FALSE
    OBVIOUS
  <2>3. QED
    BY <2>1, <2>2
<1>2. ASSUME NEW n \in Nat, n + 1 <= N, Upto(n) PROVE Upto(n + 1)
  <2>1. PICK f \in [0 .. N -> X] :
           f[0] = k /\ \A s \in 1 .. n : f[s] = G[f[s - 1]][s]
    BY <1>2
  <2> DEFINE g == [f EXCEPT ![n + 1] = G[f[n]][n + 1]]
  <2>2. G[f[n]][n + 1] \in X
    BY <1>2, <2>1
  <2>3. g \in [0 .. N -> X] /\ g[0] = k
    BY <1>2, <2>1, <2>2
  <2>4. ASSUME NEW s \in 1 .. n + 1 PROVE g[s] = G[g[s - 1]][s]
    <3>1. CASE s = n + 1
      BY <1>2, <2>1, <3>1
    <3>2. CASE s \in 1 .. n
      BY <1>2, <2>1, <3>2
    <3>3. QED
      BY <3>1, <3>2
  <2> HIDE DEF g
  <2>5. QED
    BY <2>3, <2>4
<1> HIDE DEF Upto
<1>3. \A n \in Nat : n \in T
  <2>1. 0 \in T
    BY <1>1
  <2>2. \A n \in Nat : n \in T => n + 1 \in T
    BY <1>2
  <2> HIDE DEF T
  <2>3. QED
    BY <2>1, <2>2, NatSetInduction
<1>4. Upto(N)
  BY <1>3
<1>5. QED
  BY <1>4 DEF Upto, LoopRuns

\* What holds before a loop over 1 .. N and is kept by its steps holds after.
LEMMA LoopInvariant ==
    ASSUME NEW N \in Nat, NEW S, NEW f,
           f[0] \in S[0], \A s \in 1 .. N : f[s - 1] \in S[s - 1] => f[s] \in S[s]
    PROVE  f[N] \in S[N]
<1> DEFINE T == {n \in Nat : n <= N => f[n] \in S[n]}
<1>1. 0 \in T
  OBVIOUS
<1>2. ASSUME NEW n \in Nat, n \in T PROVE n + 1 \in T
  <2>1. n + 1 <= N => n + 1 \in 1 .. N /\ (n + 1) - 1 = n /\ f[n] \in S[n]
    BY <1>2
  <2>2. QED
    BY <2>1
<1>3. \A n \in Nat : n \in T
  <2> HIDE DEF T
  <2> QED
    BY <1>1, <1>2, NatSetInduction
<1>4. QED
  BY <1>3

-------------------------------------------------------------------------------
(* Queues: sequences in which no element occurs twice. *)

Has(q, x) == \E i \in DOMAIN q : q[i] = x

Distinct(q) == \A i, j \in DOMAIN q : q[i] = q[j] => i = j

\* Appending an element that is not in the queue.
LEMMA AppendQueue ==
    ASSUME NEW S, NEW q \in Seq(S), NEW x \in S
    PROVE  /\ Append(q, x) \in Seq(S)
           /\ \A y : Has(Append(q, x), y) <=> y = x \/ Has(q, y)
           /\ Distinct(q) /\ ~Has(q, x) => Distinct(Append(q, x))
<1> DEFINE r == Append(q, x)
<1>1. /\ r \in Seq(S) /\ Len(r) = Len(q) + 1 /\ Len(q) \in Nat
      /\ DOMAIN r = 1 .. Len(q) + 1 /\ DOMAIN q = 1 .. Len(q)
      /\ r[Len(q) + 1] = x /\ \A i \in 1 .. Len(q) : r[i] = q[i]
  OBVIOUS
<1> HIDE DEF r
<1>2. ASSUME NEW y PROVE Has(r, y) <=> y = x \/ Has(q, y)
  <2>1. ASSUME Has(r, y) PROVE y = x \/ Has(q, y)
    BY <1>1, <2>1 DEF Has
  <2>2. y = x => Has(r, y)
    BY <1>1 DEF Has
  <2>3. Has(q, y) => Has(r, y)
    BY <1>1 DEF Has
  <2>4. QED
    BY <2>1, <2>2, <2>3
<1>3. ASSUME Distinct(q), ~Has(q, x) PROVE Distinct(r)
  BY <1>1, <1>3 DEF Distinct, Has
<1>4. QED
  BY <1>1, <1>2, <1>3 DEF r

\* Removing the element at the front.
LEMMA TailQueue ==
    ASSUME NEW S, NEW q \in Seq(S), q # <<>>
    PROVE  /\ Tail(q) \in Seq(S) /\ Head(q) \in S /\ Has(q, Head(q))
           /\ Distinct(q) => Distinct(Tail(q))
           /\ Distinct(q) => \A y : Has(Tail(q), y) <=> Has(q, y) /\ y # Head(q)
<1> DEFINE r == Tail(q)
<1>1. /\ r \in Seq(S) /\ Len(q) \in Nat /\ Len(q) >= 1 /\ Head(q) = q[1] /\ q[1] \in S
      /\ DOMAIN r = 1 .. Len(q) - 1 /\ DOMAIN q = 1 .. Len(q)
      /\ \A i \in 1 .. Len(q) - 1 : r[i] = q[i + 1]
  OBVIOUS
<1> HIDE DEF r
<1>2. Has(q, Head(q))
  BY <1>1 DEF Has
<1>3. ASSUME Distinct(q) PROVE Distinct(r)
  <2>1. ASSUME NEW i \in 1 .. Len(q) - 1, NEW j \in 1 .. Len(q) - 1, r[i] = r[j]
        PROVE  i = j
    <3>1. i + 1 \in 1 .. Len(q) /\ j + 1 \in 1 .. Len(q) /\ q[i + 1] = q[j + 1]
      BY <1>1, <2>1
    <3>2. i + 1 = j + 1
      BY <1>1, <1>3, <3>1 DEF Distinct
    <3>3. QED
      BY <1>1, <3>2
  <2>2. QED
    BY <1>1, <2>1 DEF Distinct
<1>4. ASSUME Distinct(q), NEW y PROVE Has(r, y) <=> Has(q, y) /\ y # Head(q)
  <2>1. ASSUME Has(r, y) PROVE Has(q, y) /\ y # Head(q)
    <3>1. PICK i \in 1 .. Len(q) - 1 : q[i + 1] = y
      BY <1>1, <2>1 DEF Has
    <3>2. i + 1 \in 1 .. Len(q) /\ 1 \in 1 .. Len(q) /\ i + 1 # 1
      BY <1>1
    <3>3. QED
      BY <1>1, <1>4, <3>1, <3>2 DEF Has, Distinct
  <2>2. ASSUME Has(q, y), y # Head(q) PROVE Has(r, y)
    <3>1. PICK i \in 1 .. Len(q) : q[i] = y
      BY <1>1, <2>2 DEF Has
    <3>2. i - 1 \in 1 .. Len(q) - 1 /\ (i - 1) + 1 = i
      BY <1>1, <2>2, <3>1
    <3>3. QED
      BY <1>1, <3>1, <3>2 DEF Has
  <2>3. QED
    BY <2>1, <2>2
<1>5. QED
  BY <1>1, <1>2, <1>3, <1>4 DEF r

\* A queue cut in two.
LEMMA CutQueue ==
    ASSUME NEW S, NEW q \in Seq(S), Distinct(q), NEW m \in 0 .. Len(q)
    PROVE  LET a == SubSeq(q, 1, m)
               b == SubSeq(q, m + 1, Len(q))
           IN  /\ a \in Seq(S) /\ b \in Seq(S) /\ Len(a) = m /\ Len(b) = Len(q) - m
               /\ Distinct(a) /\ Distinct(b)
               /\ \A y : Has(q, y) <=> Has(a, y) \/ Has(b, y)
               /\ \A y : ~(Has(a, y) /\ Has(b, y))
               /\ \A i \in 1 .. m : a[i] = q[i]
               /\ m < Len(q) => b # <<>> /\ Head(b) = q[m + 1]
<1> DEFINE a == SubSeq(q, 1, m)
           b == SubSeq(q, m + 1, Len(q))
<1>1. /\ Len(q) \in Nat /\ DOMAIN q = 1 .. Len(q) /\ m \in Nat /\ m <= Len(q)
      /\ \A i \in 1 .. Len(q) : q[i] \in S
  OBVIOUS
<1>2. /\ a \in Seq(S) /\ Len(a) = m /\ DOMAIN a = 1 .. m
      /\ \A i \in 1 .. m : a[i] = q[i]
  <2>1. a = [i \in 1 .. m |-> q[i]]
    BY <1>1
  <2>2. QED
    BY <1>1, <2>1
<1>3. /\ b \in Seq(S) /\ Len(b) = Len(q) - m /\ DOMAIN b = 1 .. Len(q) - m
      /\ \A i \in 1 .. Len(q) - m : b[i] = q[m + i]
  <2>1. b = [i \in 1 .. Len(q) - m |-> q[m + i]]
    BY <1>1
  <2>2. Len(q) - m \in Nat /\ \A i \in 1 .. Len(q) - m : m + i \in 1 .. Len(q)
    BY <1>1
  <2> HIDE DEF b
  <2>3. b \in [1 .. Len(q) - m -> S]
    BY <1>1, <2>1, <2>2
  <2>4. b \in Seq(S) /\ Len(b) = Len(q) - m
    BY <2>2, <2>3
  <2>5. QED
    BY <2>1, <2>3, <2>4
<1> HIDE DEF a, b
<1>4. Distinct(a) /\ Distinct(b)
  <2>1. Distinct(a)
    BY <1>1, <1>2 DEF Distinct
  <2>2. ASSUME NEW i \in 1 .. Len(q) - m, NEW j \in 1 .. Len(q) - m, b[i] = b[j]
        PROVE  i = j
    <3>1. m + i \in 1 .. Len(q) /\ m + j \in 1 .. Len(q)
      BY <1>1
    <3>2. m + i = m + j
      BY <1>1, <1>3, <2>2, <3>1 DEF Distinct
    <3>3. QED
      BY <1>1, <3>2
  <2>3. QED
    BY <1>3, <2>1, <2>2 DEF Distinct
<1>5. ASSUME NEW y PROVE Has(q, y) <=> Has(a, y) \/ Has(b, y)
  <2>1. ASSUME NEW i \in 1 .. Len(q), q[i] = y PROVE Has(a, y) \/ Has(b, y)
    <3>1. CASE i \in 1 .. m
      BY <1>2, <2>1, <3>1 DEF Has
    <3>2. CASE i - m \in 1 .. Len(q) - m
      <4>1. m + (i - m) = i
        BY <1>1
      <4>2. b[i - m] = y
        BY <1>3, <2>1, <3>2, <4>1
      <4>3. QED
        BY <1>3, <3>2, <4>2 DEF Has
    <3>3. QED
      BY <1>1, <3>1, <3>2
  <2>2. Has(a, y) => Has(q, y)
    BY <1>1, <1>2 DEF Has
  <2>3. ASSUME NEW i \in 1 .. Len(q) - m, b[i] = y PROVE Has(q, y)
    <3>1. m + i \in 1 .. Len(q) /\ q[m + i] = y
      BY <1>1, <1>3, <2>3
    <3>2. QED
      BY <1>1, <3>1 DEF Has
  <2>4. QED
    BY <1>1, <1>3, <2>1, <2>2, <2>3 DEF Has
<1>6. ASSUME NEW y, Has(a, y), Has(b, y) PROVE FALSE
  <2>1. PICK i \in 1 .. m : q[i] = y
    BY <1>2, <1>6 DEF Has
  <2>2. PICK j \in 1 .. Len(q) - m : q[m + j] = y
    BY <1>3, <1>6 DEF Has
  <2>3. i \in 1 .. Len(q) /\ m + j \in 1 .. Len(q) /\ i # m + j
    BY <1>1
  <2>4. QED
    BY <1>1, <2>1, <2>2, <2>3 DEF Distinct
<1>7. m < Len(q) => b # <<>> /\ Head(b) = q[m + 1]
  BY <1>1, <1>3
<1>8. QED
  BY <1>2, <1>3, <1>4, <1>5, <1>6, <1>7 DEF a, b

\* Two queues with no element in common, one after the other.
LEMMA ConcatQueue ==
    ASSUME NEW S, NEW p \in Seq(S), NEW q \in Seq(S)
    PROVE  /\ p \o q \in Seq(S)
           /\ \A y : Has(p \o q, y) <=> Has(p, y) \/ Has(q, y)
           /\ Distinct(p) /\ Distinct(q) /\ (\A y : ~(Has(p, y) /\ Has(q, y)))
                 => Distinct(p \o q)
<1> DEFINE r == p \o q
           m == Len(p)
           n == Len(q)
<1>1. /\ r \in Seq(S) /\ m \in Nat /\ n \in Nat
      /\ DOMAIN p = 1 .. m /\ DOMAIN q = 1 .. n /\ DOMAIN r = 1 .. m + n
      /\ \A i \in 1 .. m + n : r[i] = IF i <= m THEN p[i] ELSE q[i - m]
  <2>1. r \in Seq(S) /\ Len(r) = m + n
        /\ \A i \in 1 .. m + n : r[i] = IF i <= m THEN p[i] ELSE q[i - m]
    BY ConcatProperties
  <2>2. QED
    BY <2>1
<1> HIDE DEF r, m, n
<1>2. ASSUME NEW y PROVE Has(r, y) <=> Has(p, y) \/ Has(q, y)
  <2>1. ASSUME NEW i \in 1 .. m + n, r[i] = y PROVE Has(p, y) \/ Has(q, y)
    <3>1. CASE i <= m
      <4>1. i \in 1 .. m /\ p[i] = y
        BY <1>1, <2>1, <3>1
      <4>2. QED
        BY <1>1, <4>1 DEF Has
    <3>2. CASE ~(i <= m)
      <4>1. i - m \in 1 .. n
        BY <1>1, <3>2
      <4>2. QED
        BY <1>1, <2>1, <3>2, <4>1 DEF Has
    <3>3. QED
      BY <3>1, <3>2
  <2>2. ASSUME NEW i \in 1 .. m, p[i] = y PROVE Has(r, y)
    <3>1. i \in 1 .. m + n /\ i <= m
      BY <1>1
    <3>2. QED
      BY <1>1, <2>2, <3>1 DEF Has
  <2>3. ASSUME NEW i \in 1 .. n, q[i] = y PROVE Has(r, y)
    <3>1. i + m \in 1 .. m + n /\ ~(i + m <= m) /\ (i + m) - m = i
      BY <1>1
    <3>2. r[i + m] = y
      BY <1>1, <2>3, <3>1
    <3>3. QED
      BY <1>1, <3>1, <3>2 DEF Has
  <2>4. QED
    BY <1>1, <2>1, <2>2, <2>3 DEF Has
<1>3. ASSUME Distinct(p), Distinct(q), \A y : ~(Has(p, y) /\ Has(q, y)),
             NEW i \in 1 .. m + n, NEW j \in 1 .. m + n, r[i] = r[j]
      PROVE  i = j
  <2>1. CASE i <= m /\ j <= m
    BY <1>1, <1>3, <2>1 DEF Distinct
  <2>2. CASE ~(i <= m) /\ ~(j <= m)
    <3>1. i - m \in 1 .. n /\ j - m \in 1 .. n
      BY <1>1, <2>2
    <3>2. i - m = j - m
      BY <1>1, <1>3, <2>2, <3>1 DEF Distinct
    <3>3. QED
      BY <1>1, <3>2
  <2>3. CASE i <= m /\ ~(j <= m)
    <3>1. j - m \in 1 .. n /\ i \in 1 .. m
      BY <1>1, <2>3
    <3>2. Has(p, r[i]) /\ Has(q, r[i])
      BY <1>1, <1>3, <2>3, <3>1 DEF Has
    <3>3. QED
      BY <1>3, <3>2
  <2>4. CASE ~(i <= m) /\ j <= m
    <3>1. i - m \in 1 .. n /\ j \in 1 .. m
      BY <1>1, <2>4
    <3>2. Has(p, r[i]) /\ Has(q, r[i])
      BY <1>1, <1>3, <2>4, <3>1 DEF Has
    <3>3. QED
      BY <1>3, <3>2
  <2>5. QED
    BY <2>1, <2>2, <2>3, <2>4
<1>4. QED
  BY <1>1, <1>2, <1>3 DEF r, Distinct

\* A queue is as long as the set of its elements is large.
LEMMA QueueLength ==
    ASSUME NEW S, NEW q \in Seq(S), Distinct(q)
    PROVE  /\ IsFiniteSet({x \in S : Has(q, x)})
           /\ Cardinality({x \in S : Has(q, x)}) = Len(q)
<1> DEFINE E == {x \in S : Has(q, x)}
<1>1. Len(q) \in Nat /\ DOMAIN q = 1 .. Len(q) /\ q \in [1 .. Len(q) -> S]
  OBVIOUS
<1>2. q \in Bijection(1 .. Len(q), E)
  <2>1. q \in [1 .. Len(q) -> E]
    BY <1>1 DEF Has
  <2>2. \A x \in E : \E i \in 1 .. Len(q) : q[i] = x
    BY <1>1 DEF Has
  <2>3. QED
    BY <1>1, <2>1, <2>2 DEF Bijection, Injection, Surjection, Distinct, IsInjective
<1>3. IsFiniteSet(1 .. Len(q)) /\ Cardinality(1 .. Len(q)) = Len(q)
  BY <1>1, FS_Interval
<1>4. QED
  BY <1>2, <1>3, FS_Bijection DEF ExistsBijection
===============================================================================
