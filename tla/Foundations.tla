---------------------------- MODULE Foundations -----------------------------
(***************************************************************************)
(* What the proofs need of numbers and loops: least elements (Min is a      *)
(* CHOOSE, and there must be something to choose), quotients and            *)
(* remainders, induction for sets, sequences of values, what a loop         *)
(* computes that is written as a recursive function of its state, powers,   *)
(* primes, and that RSA decrypts what it encrypted.                         *)
(***************************************************************************)
EXTENDS Integers, FiniteSetsExt, WellFoundedInduction, TLAPS

\* A set of natural numbers that is not empty has a least element, and Min
\* denotes it.  (The searches of the code, getNodeInVector and findModuloBase,
\* are modelled by Min.)
LEMMA MinIsLeast ==
    ASSUME NEW S, S \subseteq Nat, S # {}
    PROVE  Min(S) \in S /\ \A y \in S : Min(S) <= y
<1> DEFINE R == {ss \in Nat \X Nat : ss[1] < ss[2]}
<1>1. IsWellFoundedOn(R, Nat)
  BY NatLessThanWellFounded DEF OpToRel
<1> HIDE DEF R
<1>2. PICK x \in S : \A y \in S : ~ (<<y, x>> \in R)
  BY <1>1, WFMin
<1>3. ASSUME NEW y \in S PROVE x <= y
  <2>1. <<y, x>> \notin R
    BY <1>2
  <2>2. x \in Nat /\ y \in Nat
    OBVIOUS
  <2>3. ~ (y < x)
    BY <2>1, <2>2 DEF R
  <2> QED
    BY <2>2, <2>3
<1> QED
  BY <1>3 DEF Min

-----------------------------------------------------------------------------
(* Division. *)

\* Quotient and remainder; they are the only numbers of their kind.
LEMMA Division ==
    ASSUME NEW n \in Nat, NEW d \in Nat \ {0}
    PROVE  /\ n \div d \in Nat /\ (n % d) \in 0 .. d - 1
           /\ n = d * (n \div d) + (n % d)
  OBVIOUS

LEMMA QuotientUnique ==
    ASSUME NEW d \in Nat \ {0}, NEW q \in Nat, NEW p \in Nat,
           NEW r \in 0 .. d - 1, NEW s \in 0 .. d - 1, d * q + r = d * p + s
    PROVE  q = p /\ r = s
<1>1. ~ (q < p)
  <2> SUFFICES ASSUME q < p PROVE FALSE
    OBVIOUS
  <2>1. d * p >= d * q + d
    OBVIOUS
  <2> QED
    BY <2>1
<1>2. ~ (p < q)
  <2> SUFFICES ASSUME p < q PROVE FALSE
    OBVIOUS
  <2>1. d * q >= d * p + d
    OBVIOUS
  <2> QED
    BY <2>1
<1>3. q = p
  BY <1>1, <1>2
<1> QED
  BY <1>3

\* Quotients and remainders of integers.
LEMMA DivisionInt ==
    ASSUME NEW n \in Int, NEW d \in Nat \ {0}
    PROVE  /\ n \div d \in Int /\ (n % d) \in 0 .. d - 1
           /\ n = d * (n \div d) + (n % d)
  OBVIOUS

\* Two numbers leave the same remainder if they differ by a multiple of the divisor.
LEMMA SameRemainder ==
    ASSUME NEW a \in Int, NEW b \in Int, NEW n \in Nat \ {0}
    PROVE  a % n = b % n <=> \E u \in Int : a = b + u * n
<1> DEFINE qa == a \div n
           qb == b \div n
           ra == a % n
           rb == b % n
<1>1. /\ qa \in Int /\ ra \in 0 .. n - 1 /\ a = n * qa + ra
      /\ qb \in Int /\ rb \in 0 .. n - 1 /\ b = n * qb + rb
  BY DivisionInt
<1> HIDE DEF qa, qb, ra, rb
<1>2. ASSUME ra = rb PROVE \E u \in Int : a = b + u * n
  <2> DEFINE u == qa - qb
  <2>1. u \in Int /\ a = b + u * n
    BY <1>1, <1>2
  <2> HIDE DEF u
  <2> QED
    BY <2>1
<1>3. ASSUME NEW u \in Int, a = b + u * n PROVE ra = rb
  <2> DEFINE w == (qb + u) - qa
  <2>1. w \in Int /\ ra - rb = n * w
    <3>1. n * w = n * qb + n * u - n * qa
      BY <1>1
    <3>2. n * qa + ra = n * qb + rb + n * u
      BY <1>1, <1>3
    <3> QED
      BY <1>1, <3>1, <3>2
  <2>2. ~ (w >= 1)
    <3> SUFFICES ASSUME w >= 1 PROVE FALSE
      OBVIOUS
    <3> HIDE DEF w
    <3>1. n * w >= n
      BY <2>1
    <3> QED
      BY <1>1, <2>1, <3>1
  <2>3. ~ (w <= -1)
    <3> SUFFICES ASSUME w <= -1 PROVE FALSE
      OBVIOUS
    <3> HIDE DEF w
    <3>1. n * w <= -n
      BY <2>1
    <3> QED
      BY <1>1, <2>1, <3>1
  <2> HIDE DEF w
  <2>4. w = 0
    BY <2>1, <2>2, <2>3
  <2> QED
    BY <1>1, <2>1, <2>4
<1> QED
  BY <1>2, <1>3 DEF ra, rb

\* Remainders multiply.
Congruent(a, b, n) == a % n = b % n

LEMMA CongruentProduct ==
    ASSUME NEW a \in Int, NEW b \in Int, NEW c \in Int, NEW d \in Int, NEW n \in Nat \ {0},
           Congruent(a, c, n), Congruent(b, d, n)
    PROVE  Congruent(a * b, c * d, n)
<1>1. a % n = c % n /\ b % n = d % n
  BY DEF Congruent
<1>2. PICK u \in Int : a = c + u * n
  BY <1>1, SameRemainder
<1>3. PICK v \in Int : b = d + v * n
  BY <1>1, SameRemainder
<1> DEFINE w == c * v + u * d + u * v * n
           x == a * b
           y == c * d
<1>4. w \in Int /\ x = y + w * n /\ x \in Int /\ y \in Int
  BY <1>2, <1>3
<1> HIDE DEF w, x, y
<1>5. x % n = y % n
  BY <1>4, SameRemainder
<1> QED
  BY <1>5 DEF Congruent, x, y

\* A remainder is its own remainder.
LEMMA SmallRemainder ==
    ASSUME NEW n \in Nat \ {0}, NEW a \in 0 .. n - 1
    PROVE  a % n = a
  OBVIOUS

-----------------------------------------------------------------------------
(* Induction. *)

\* Induction over the natural numbers, for a set.
LEMMA Induction ==
    ASSUME NEW S, 0 \in S, \A i \in Nat : i \in S => i + 1 \in S
    PROVE  \A i \in Nat : i \in S
<1> DEFINE T == {i \in Nat : i \notin S}
<1> SUFFICES ASSUME T # {} PROVE FALSE
  OBVIOUS
<1>1. Min(T) \in T /\ \A i \in T : Min(T) <= i
  BY MinIsLeast
<1> DEFINE m == Min(T)
<1>2. m \in Nat /\ m \notin S /\ m # 0
  BY <1>1
<1>3. \A i \in T : m <= i
  BY <1>1
<1> HIDE DEF m
<1>4. m - 1 \in Nat /\ ~ (m <= m - 1) /\ (m - 1) + 1 = m
  BY <1>2
<1> DEFINE k == m - 1
<1>5. k \in Nat /\ k \notin T /\ k + 1 = m
  BY <1>3, <1>4
<1> HIDE DEF k
<1> QED
  BY <1>2, <1>5

\* A sequence of values that starts with v, each from the one before.
Closed(step, V) == \A x \in V : step[x] \in V
Follows(f, V, v, step) ==
    f \in [Nat -> V] /\ f[0] = v /\ \A i \in Nat : f[i + 1] = step[f[i]]

\* Such a sequence exists.
LEMMA Recursion ==
    ASSUME NEW V, NEW v \in V, NEW step, Closed(step, V)
    PROVE  \E f : Follows(f, V, v, step)
<1> USE DEF Closed
<1> DEFINE Good(m, f) == f \in [Nat -> V] /\ f[0] = v /\ \A i \in Nat : i < m => f[i + 1] = step[f[i]]
           S == {m \in Nat : \E f : Good(m, f)}
<1>1. 0 \in S
  <2>1. Good(0, [i \in Nat |-> v])
    OBVIOUS
  <2> QED
    BY <2>1
<1>2. ASSUME NEW m \in Nat, m \in S PROVE m + 1 \in S
  <2>1. PICK f : Good(m, f)
    BY <1>2
  <2> DEFINE g == [f EXCEPT ![m + 1] = step[f[m]]]
  <2>2. g \in [Nat -> V] /\ g[m + 1] = step[f[m]]
    BY <2>1
  <2>3. \A i \in Nat : i # m + 1 => g[i] = f[i]
    BY <2>1
  <2>4. Good(m + 1, g)
    <3>1. \A i \in Nat : /\ i < m => i # m + 1 /\ i + 1 # m + 1
                         /\ i < m + 1 => i < m \/ i = m
      OBVIOUS
    <3>2. 0 # m + 1 /\ m # m + 1 /\ \A i \in Nat : i + 1 \in Nat
      OBVIOUS
    <3> HIDE DEF g
    <3> QED
      BY <2>1, <2>2, <2>3, <3>1, <3>2
  <2>5. m + 1 \in Nat
    OBVIOUS
  <2> HIDE DEF Good, g
  <2> QED
    BY <2>4, <2>5
<1> HIDE DEF S
<1>3. \A m \in Nat : m \in S
  BY <1>1, <1>2, Induction
<1> DEFINE F == [m \in Nat |-> CHOOSE f : Good(m, f)]
<1>4. \A m \in Nat : Good(m, F[m])
  <2> SUFFICES ASSUME NEW m \in Nat PROVE Good(m, F[m])
    OBVIOUS
  <2>1. \E f : Good(m, f)
    BY <1>3 DEF S
  <2>2. F[m] = CHOOSE f : Good(m, f)
    OBVIOUS
  <2> HIDE DEF F, Good
  <2> QED
    BY <2>1, <2>2
<1> DEFINE h == [m \in Nat |-> F[m][m]]
<1> HIDE DEF F
<1>5. \A i \in Nat : \A m \in Nat : i <= m => F[m][i] = F[i][i]
  <2> DEFINE I == {i \in Nat : \A m \in Nat : \A k \in Nat : i <= m /\ i <= k => F[m][i] = F[k][i]}
  <2>1. 0 \in I
    BY <1>4
  <2>2. ASSUME NEW i \in Nat, i \in I PROVE i + 1 \in I
    <3> SUFFICES ASSUME NEW m \in Nat, NEW k \in Nat, i + 1 <= m, i + 1 <= k
                 PROVE  F[m][i + 1] = F[k][i + 1]
      OBVIOUS
    <3>1. i < m /\ i < k /\ i <= m /\ i <= k
      OBVIOUS
    <3>2. F[m][i] = F[k][i]
      BY <2>2, <3>1
    <3> QED
      BY <1>4, <3>1, <3>2
  <2> HIDE DEF I
  <2>3. \A i \in Nat : i \in I
    BY <2>1, <2>2, Induction
  <2> QED
    BY <2>3 DEF I
<1>6. h \in [Nat -> V] /\ h[0] = v
  BY <1>4
<1>7. ASSUME NEW i \in Nat PROVE h[i + 1] = step[h[i]]
  <2>1. i + 1 \in Nat /\ i < i + 1 /\ i <= i + 1
    OBVIOUS
  <2>2. F[i + 1][i + 1] = step[F[i + 1][i]]
    BY <1>4, <2>1
  <2>3. F[i + 1][i] = F[i][i]
    BY <1>5, <2>1
  <2> QED
    BY <2>1, <2>2, <2>3
<1> HIDE DEF h
<1> QED
  BY <1>6, <1>7 DEF Follows

-----------------------------------------------------------------------------
(* Loops. *)

\* A loop over the states D ends in the states stop; until then every round takes it to the
\* state next, closer to its end by the measure mu.
Ends(D, mu, stop, next) ==
    /\ mu \in [D -> Nat] /\ stop \in SUBSET D
    /\ \A x \in D \ stop : next[x] \in D /\ mu[next[x]] < mu[x]

\* f is the result of the loop, val in the states where it ends.
Runs(f, D, stop, val, next) ==
    \A x \in D : f[x] = IF x \in stop THEN val[x] ELSE f[next[x]]

\* A loop that comes to its end has a result: the recursive function exists.
LEMMA LoopExists ==
    ASSUME NEW D, NEW V, NEW mu, NEW stop, NEW next, NEW val \in [D -> V],
           Ends(D, mu, stop, next)
    PROVE  \E f \in [D -> V] : Runs(f, D, stop, val, next)
<1>0. /\ mu \in [D -> Nat] /\ stop \in SUBSET D
      /\ \A x \in D \ stop : next[x] \in D /\ mu[next[x]] < mu[x]
  BY DEF Ends
<1> USE <1>0
<1> DEFINE Round(f, x) == IF x \in stop THEN val[x] ELSE f[next[x]]
           Good(m, f) == \A x \in D : mu[x] < m => f[x] = Round(f, x)
<1>1. \A m \in Nat : \E f \in [D -> V] : Good(m, f)
  <2> DEFINE S == {m \in Nat : ~ \E f \in [D -> V] : Good(m, f)}
  <2> SUFFICES ASSUME S # {} PROVE FALSE
    OBVIOUS
  <2>1. Min(S) \in S /\ \A k \in S : Min(S) <= k
    BY MinIsLeast
  <2> DEFINE m == Min(S)
  <2>2. m \in Nat /\ ~ \E f \in [D -> V] : Good(m, f)
    BY <2>1
  <2>3. Good(0, val)
    OBVIOUS
  <2>4. m # 0
    BY <2>2, <2>3
  <2>5. m - 1 \in Nat /\ m - 1 \notin S
    <3>1. m - 1 \in Nat /\ ~ (m <= m - 1)
      BY <2>2, <2>4
    <3>2. \A k \in S : m <= k
      BY <2>1
    <3> HIDE DEF m, S
    <3> QED
      BY <3>1, <3>2
  <2>6. PICK f \in [D -> V] : Good(m - 1, f)
    BY <2>5
  <2> HIDE DEF m, S
  <2> DEFINE g == [x \in D |-> IF mu[x] < m - 1 THEN f[x] ELSE Round(f, x)]
  <2>7. g \in [D -> V]
    OBVIOUS
  <2>8. ASSUME NEW x \in D, mu[x] < m PROVE g[x] = Round(g, x)
    <3>1. g[x] = Round(f, x)
      BY <2>6
    <3>2. CASE x \in stop
      BY <3>1, <3>2
    <3>3. CASE x \notin stop
      <4>1. next[x] \in D /\ mu[next[x]] < m - 1
        <5>1. next[x] \in D /\ mu[next[x]] < mu[x] /\ mu[x] \in Nat /\ mu[next[x]] \in Nat
          BY <3>3
        <5> QED
          BY <2>2, <2>8, <5>1
      <4>2. g[next[x]] = f[next[x]]
        BY <4>1
      <4> HIDE DEF g
      <4> QED
        BY <3>1, <3>3, <4>2
    <3> QED
      BY <3>2, <3>3
  <2> HIDE DEF g
  <2>9. Good(m, g)
    BY <2>8
  <2> QED
    BY <2>2, <2>7, <2>9
<1>2. ASSUME NEW m \in Nat, NEW k \in Nat, NEW f, NEW g, Good(m, f), Good(k, g)
      PROVE  \A x \in D : mu[x] < m /\ mu[x] < k => f[x] = g[x]
  <2> DEFINE X == {x \in D : mu[x] < m /\ mu[x] < k /\ f[x] # g[x]}
             S == {mu[x] : x \in X}
  <2> SUFFICES ASSUME X # {} PROVE FALSE
    OBVIOUS
  <2>1. S \subseteq Nat /\ S # {}
    OBVIOUS
  <2>2. Min(S) \in S /\ \A i \in S : Min(S) <= i
    BY <2>1, MinIsLeast
  <2>3. PICK x \in X : mu[x] = Min(S)
    BY <2>2
  <2>4. /\ x \in D /\ mu[x] < m /\ mu[x] < k /\ f[x] # g[x] /\ mu[x] \in Nat
        /\ f[x] = Round(f, x) /\ g[x] = Round(g, x)
    BY <1>2, <2>3
  <2>5. x \notin stop
    BY <2>4
  <2>6. next[x] \in D /\ mu[next[x]] < mu[x] /\ mu[next[x]] \in Nat
    BY <2>4, <2>5
  <2>7. next[x] \notin X
    <3>1. \A y \in X : mu[x] <= mu[y]
      BY <2>2, <2>3
    <3> HIDE DEF X
    <3> QED
      BY <2>4, <2>6, <3>1
  <2>8. f[next[x]] = g[next[x]]
    BY <2>4, <2>6, <2>7
  <2> QED
    BY <2>4, <2>5, <2>8
<1> DEFINE F == [m \in Nat |-> CHOOSE f : f \in [D -> V] /\ Good(m, f)]
           h == [x \in D |-> F[mu[x] + 1][x]]
<1>3. \A m \in Nat : F[m] \in [D -> V] /\ Good(m, F[m])
  <2> SUFFICES ASSUME NEW m \in Nat PROVE F[m] \in [D -> V] /\ Good(m, F[m])
    OBVIOUS
  <2>1. \E f : f \in [D -> V] /\ Good(m, f)
    BY <1>1
  <2>2. F[m] = CHOOSE f : f \in [D -> V] /\ Good(m, f)
    OBVIOUS
  <2> HIDE DEF F, Good
  <2> QED
    BY <2>1, <2>2
<1> HIDE DEF F
<1>4. \A x \in D : mu[x] + 1 \in Nat /\ mu[x] \in Nat
  OBVIOUS
<1>5. h \in [D -> V]
  BY <1>3, <1>4
<1>6. ASSUME NEW x \in D PROVE h[x] = Round(h, x)
  <2>1. F[mu[x] + 1][x] = Round(F[mu[x] + 1], x)
    BY <1>3, <1>4
  <2>2. CASE x \in stop
    BY <2>1, <2>2
  <2>3. CASE x \notin stop
    <3> DEFINE y == next[x]
    <3>1. y \in D /\ mu[y] < mu[x] /\ mu[y] \in Nat /\ mu[x] \in Nat
      BY <2>3
    <3>2. mu[y] < mu[x] + 1 /\ mu[y] < mu[y] + 1
      BY <3>1
    <3>3. F[mu[x] + 1][y] = F[mu[y] + 1][y]
      <4>1. mu[x] + 1 \in Nat /\ mu[y] + 1 \in Nat
        BY <3>1
      <4>2. Good(mu[x] + 1, F[mu[x] + 1]) /\ Good(mu[y] + 1, F[mu[y] + 1])
        BY <1>3, <4>1
      <4> HIDE DEF Good, y
      <4> QED
        BY <1>2, <3>1, <3>2, <4>1, <4>2
    <3>4. h[x] = F[mu[x] + 1][y] /\ h[y] = F[mu[y] + 1][y]
      BY <2>1, <2>3, <3>1
    <3> HIDE DEF h
    <3> QED
      BY <2>3, <3>3, <3>4
  <2> QED
    BY <2>2, <2>3
<1> HIDE DEF h
<1> QED
  BY <1>5, <1>6 DEF Runs

\* What every round preserves holds at the end: the result is that of a state in I where
\* the loop ends.
LEMMA LoopEnds ==
    ASSUME NEW D, NEW mu, NEW stop, NEW next, NEW val, NEW f, NEW I \in SUBSET D,
           Ends(D, mu, stop, next), Runs(f, D, stop, val, next),
           \A x \in I \ stop : next[x] \in I
    PROVE  \A x \in I : \E y \in I \cap stop : f[x] = val[y]
<1>0. /\ mu \in [D -> Nat] /\ stop \in SUBSET D
      /\ \A x \in D \ stop : next[x] \in D /\ mu[next[x]] < mu[x]
      /\ \A x \in D : f[x] = IF x \in stop THEN val[x] ELSE f[next[x]]
  BY DEF Ends, Runs
<1> USE <1>0
<1> DEFINE X == {x \in I : ~ \E y \in I \cap stop : f[x] = val[y]}
           S == {mu[x] : x \in X}
<1> SUFFICES ASSUME X # {} PROVE FALSE
  OBVIOUS
<1>1. S \subseteq Nat /\ S # {}
  OBVIOUS
<1>2. Min(S) \in S /\ \A i \in S : Min(S) <= i
  BY <1>1, MinIsLeast
<1>3. PICK x \in X : mu[x] = Min(S)
  BY <1>2
<1>4. x \in I /\ x \in D /\ x \notin stop /\ f[x] = f[next[x]]
  <2>1. x \in I /\ x \in D /\ ~ \E y \in I \cap stop : f[x] = val[y]
    BY <1>3
  <2>2. x \notin stop
    BY <2>1
  <2> QED
    BY <2>1, <2>2
<1>5. next[x] \in I /\ mu[next[x]] < mu[x] /\ mu[x] \in Nat /\ mu[next[x]] \in Nat
  BY <1>4
<1>6. next[x] \notin X
  <2>1. \A y \in X : mu[x] <= mu[y]
    BY <1>2, <1>3
  <2> HIDE DEF X
  <2> QED
    BY <1>5, <2>1
<1> QED
  BY <1>3, <1>4, <1>5, <1>6

-----------------------------------------------------------------------------
(* Powers. *)

\* The powers of b.
Powers(b) == CHOOSE P \in [Nat -> Nat] : P[0] = 1 /\ \A i \in Nat : P[i + 1] = b * P[i]

LEMMA PowersAre ==
    ASSUME NEW b \in Nat
    PROVE  /\ Powers(b) \in [Nat -> Nat] /\ Powers(b)[0] = 1
           /\ \A i \in Nat : Powers(b)[i + 1] = b * Powers(b)[i]
<1> DEFINE N == Nat
           step == [x \in Nat |-> b * x]
<1>1. \A x \in Nat : step[x] = b * x
  OBVIOUS
<1>2. PICK P : Follows(P, Nat, 1, step)
  <2>1. 1 \in N /\ Closed(step, N)
    BY DEF Closed
  <2> HIDE DEF N, step
  <2>2. \E P : Follows(P, N, 1, step)
    BY <2>1, Recursion
  <2> QED
    BY <2>2 DEF N
<1> HIDE DEF step
<1>3. \A i \in Nat : P[i + 1] = b * P[i]
  BY <1>1, <1>2 DEF Follows
<1> QED
  BY <1>2, <1>3 DEF Powers, Follows

\* The powers of a sum of exponents.
LEMMA PowersAdd ==
    ASSUME NEW b \in Nat, NEW i \in Nat
    PROVE  \A j \in Nat : Powers(b)[i + j] = Powers(b)[i] * Powers(b)[j]
<1> DEFINE P == Powers(b)
           S == {j \in Nat : P[i + j] = P[i] * P[j]}
<1>1. P \in [Nat -> Nat] /\ P[0] = 1 /\ \A k \in Nat : P[k + 1] = b * P[k]
  BY PowersAre
<1> HIDE DEF P
<1>2. 0 \in S
  BY <1>1
<1>3. ASSUME NEW j \in Nat, j \in S PROVE j + 1 \in S
  <2>1. i + j \in Nat /\ i + (j + 1) = (i + j) + 1 /\ j + 1 \in Nat
    OBVIOUS
  <2>2. P[i + (j + 1)] = b * P[i + j] /\ P[j + 1] = b * P[j]
    BY <1>1, <2>1
  <2>3. P[i + j] = P[i] * P[j] /\ P[i] \in Nat /\ P[j] \in Nat
    BY <1>1, <1>3
  <2>4. \A x \in Nat : \A y \in Nat : b * (x * y) = x * (b * y)
    OBVIOUS
  <2> QED
    BY <2>1, <2>2, <2>3, <2>4
<1> HIDE DEF S
<1>4. \A j \in Nat : j \in S
  BY <1>2, <1>3, Induction
<1> QED
  BY <1>4 DEF P, S

-----------------------------------------------------------------------------
(* Products of a function over 1 .. n. *)

\* P[n] is the product of f[1], ..., f[n].
IsProduct(P, f) == P \in [Nat -> Nat] /\ P[0] = 1 /\ \A i \in Nat : P[i + 1] = P[i] * f[i + 1]
Product(f) == CHOOSE P : IsProduct(P, f)

\* The products exist.
LEMMA ProductIs ==
    ASSUME NEW f \in [Nat -> Nat]
    PROVE  IsProduct(Product(f), f)
<1> DEFINE V == Nat \X Nat
           v == <<0, 1>>
           step == [x \in V |-> <<x[1] + 1, x[2] * f[x[1] + 1]>>]
<1>1. v \in V /\ Closed(step, V)
  <2>1. ASSUME NEW x \in V PROVE step[x] \in V
    <3>1. x[1] \in Nat /\ x[2] \in Nat /\ x[1] + 1 \in Nat
      OBVIOUS
    <3>2. f[x[1] + 1] \in Nat
      BY <3>1
    <3>3. x[2] * f[x[1] + 1] \in Nat
      BY <3>1, <3>2
    <3> QED
      BY <3>1, <3>3
  <2> QED
    BY <2>1 DEF Closed
<1>2. PICK g : Follows(g, V, v, step)
  <2> HIDE DEF V, v, step
  <2> QED
    BY <1>1, Recursion
<1>3. g \in [Nat -> V] /\ g[0] = <<0, 1>> /\ \A i \in Nat : g[i + 1] = step[g[i]]
  BY <1>2 DEF Follows
<1>4. \A i \in Nat : g[i + 1] = <<g[i][1] + 1, g[i][2] * f[g[i][1] + 1]>>
  BY <1>3
<1> DEFINE S == {i \in Nat : g[i][1] = i}
           P == [i \in Nat |-> g[i][2]]
<1> HIDE DEF step
<1>5. 0 \in S
  BY <1>3
<1>6. ASSUME NEW i \in Nat, i \in S PROVE i + 1 \in S
  BY <1>4, <1>6
<1>7. \A i \in Nat : g[i][1] = i
  <2> HIDE DEF S
  <2>1. \A i \in Nat : i \in S
    BY <1>5, <1>6, Induction
  <2> QED
    BY <2>1 DEF S
<1>8. P \in [Nat -> Nat] /\ P[0] = 1
  <2>1. \A i \in Nat : g[i] \in Nat \X Nat
    BY <1>3
  <2>2. \A i \in Nat : g[i][2] \in Nat
    BY <2>1
  <2>3. g[0][2] = 1
    BY <1>3
  <2> QED
    BY <2>2, <2>3
<1>9. ASSUME NEW i \in Nat PROVE P[i + 1] = P[i] * f[i + 1]
  <2>1. i + 1 \in Nat /\ P[i + 1] = g[i + 1][2] /\ P[i] = g[i][2]
    OBVIOUS
  <2>2. g[i + 1] = <<g[i][1] + 1, g[i][2] * f[g[i][1] + 1]>> /\ g[i][1] = i
    BY <1>4, <1>7
  <2>3. g[i + 1][2] = g[i][2] * f[i + 1]
    BY <2>2
  <2> HIDE DEF P
  <2> QED
    BY <2>1, <2>3
<1> HIDE DEF P
<1>10. IsProduct(P, f)
  BY <1>8, <1>9 DEF IsProduct
<1> QED
  BY <1>10 DEF Product

LEMMA ProductStep ==
    ASSUME NEW f \in [Nat -> Nat]
    PROVE  /\ \A i \in Nat : Product(f)[i] \in Nat /\ Product(f)[i + 1] = Product(f)[i] * f[i + 1]
           /\ Product(f)[0] = 1
  BY ProductIs DEF IsProduct

\* Functions that agree up to n have the same product up to n.
LEMMA ProductSame ==
    ASSUME NEW f \in [Nat -> Nat], NEW g \in [Nat -> Nat]
    PROVE  \A n \in Nat : (\A i \in 1 .. n : f[i] = g[i]) => Product(f)[n] = Product(g)[n]
<1> DEFINE Same(n) == \A i \in 1 .. n : f[i] = g[i]
           S == {n \in Nat : Same(n) => Product(f)[n] = Product(g)[n]}
<1>1. 0 \in S
  BY ProductStep
<1>2. ASSUME NEW n \in Nat, n \in S PROVE n + 1 \in S
  <2>1. ASSUME Same(n + 1) PROVE Product(f)[n + 1] = Product(g)[n + 1]
    <3>1. Same(n) /\ f[n + 1] = g[n + 1]
      BY <2>1
    <3>2. Product(f)[n] = Product(g)[n]
      BY <1>2, <3>1
    <3>3. /\ Product(f)[n + 1] = Product(f)[n] * f[n + 1]
          /\ Product(g)[n + 1] = Product(g)[n] * g[n + 1]
      BY ProductStep
    <3> QED
      BY <3>1, <3>2, <3>3
  <2> QED
    BY <2>1
<1> HIDE DEF S
<1>3. \A n \in Nat : n \in S
  BY <1>1, <1>2, Induction
<1> QED
  BY <1>3 DEF S

\* Replacing one factor.
LEMMA ProductReplace ==
    ASSUME NEW f \in [Nat -> Nat], NEW g \in [Nat -> Nat], NEW j \in Nat \ {0},
           \A i \in Nat : i # j => g[i] = f[i]
    PROVE  \A n \in Nat : j <= n => f[j] * Product(g)[n] = g[j] * Product(f)[n]
<1> DEFINE y == g[j]
           S == {n \in Nat : j <= n => f[j] * Product(g)[n] = y * Product(f)[n]}
<1>1. y \in Nat /\ g[j] = y /\ \A i \in Nat : i # j => g[i] = f[i]
  OBVIOUS
<1> HIDE DEF y
<1>2. 0 \in S
  OBVIOUS
<1>3. ASSUME NEW n \in Nat, n \in S PROVE n + 1 \in S
  <2> SUFFICES ASSUME j <= n + 1 PROVE f[j] * Product(g)[n + 1] = y * Product(f)[n + 1]
    OBVIOUS
  <2>1. /\ Product(f)[n + 1] = Product(f)[n] * f[n + 1] /\ Product(f)[n] \in Nat
        /\ Product(g)[n + 1] = Product(g)[n] * g[n + 1] /\ Product(g)[n] \in Nat
    BY <1>1, ProductStep
  <2>2. CASE j = n + 1
    <3>1. \A i \in 1 .. n : i \in Nat /\ i # j
      BY <2>2
    <3>2. Product(g)[n] = Product(f)[n]
      BY <1>1, <3>1, ProductSame
    <3>3. \A a \in Nat, b \in Nat, c \in Nat : b * (a * c) = c * (a * b)
      OBVIOUS
    <3>4. f[j] \in Nat
      OBVIOUS
    <3> QED
      BY <1>1, <2>1, <2>2, <3>2, <3>3, <3>4
  <2>3. CASE j # n + 1
    <3>1. j <= n
      BY <2>3
    <3>2. f[j] * Product(g)[n] = y * Product(f)[n]
      BY <1>3, <3>1
    <3>3. g[n + 1] = f[n + 1] /\ f[n + 1] \in Nat /\ f[j] \in Nat
      BY <1>1, <2>3
    <3>4. \A a \in Nat, b \in Nat, c \in Nat : a * (b * c) = (a * b) * c
      OBVIOUS
    <3>5. f[j] * (Product(g)[n] * f[n + 1]) = (f[j] * Product(g)[n]) * f[n + 1]
      BY <2>1, <3>3, <3>4
    <3>6. y * (Product(f)[n] * f[n + 1]) = (y * Product(f)[n]) * f[n + 1]
      BY <1>1, <2>1, <3>3, <3>4
    <3> QED
      BY <2>1, <3>2, <3>3, <3>5, <3>6
  <2> QED
    BY <2>2, <2>3
<1> HIDE DEF S
<1>4. \A n \in Nat : n \in S
  BY <1>2, <1>3, Induction
<1> QED
  BY <1>4 DEF S, y

\* The factors in another order make the same product.
\* s is a permutation of 1 .. n.
Permutes(s, n) == /\ \A i \in 1 .. n : s[i] \in 1 .. n
                  /\ \A i, j \in 1 .. n : s[i] = s[j] => i = j

\* The product does not depend on the order of the factors.
LEMMA ProductPermuted ==
    \A n \in Nat : \A f \in [Nat -> Nat], g \in [Nat -> Nat], s \in [Nat -> Nat] :
        Permutes(s, n) /\ (\A i \in 1 .. n : f[i] = g[s[i]]) => Product(f)[n] = Product(g)[n]
<1> DEFINE Claim(n) ==
               \A f \in [Nat -> Nat], g \in [Nat -> Nat], s \in [Nat -> Nat] :
                   Permutes(s, n) /\ (\A i \in 1 .. n : f[i] = g[s[i]]) =>
                       Product(f)[n] = Product(g)[n]
           S == {n \in Nat : Claim(n)}
<1>1. 0 \in S
  BY ProductStep
<1>2. ASSUME NEW n \in Nat, n \in S PROVE n + 1 \in S
  <2> SUFFICES ASSUME NEW f \in [Nat -> Nat], NEW g \in [Nat -> Nat], NEW s \in [Nat -> Nat],
                      Permutes(s, n + 1), \A i \in 1 .. n + 1 : f[i] = g[s[i]]
               PROVE  Product(f)[n + 1] = Product(g)[n + 1]
    <3>1. n + 1 \in Nat
      OBVIOUS
    <3> QED
      BY <3>1, Zenon
  <2> DEFINE j == s[n + 1]
             y == g[n + 1]
             h == [g EXCEPT ![j] = y]
             r == [i \in Nat |-> IF s[i] = n + 1 THEN j ELSE s[i]]
  <2>1. j \in 1 .. n + 1 /\ y \in Nat /\ f[n + 1] = g[j] /\ n + 1 \in 1 .. n + 1
    <3>1. n + 1 \in 1 .. n + 1
      OBVIOUS
    <3> QED
      BY <3>1 DEF Permutes
  <2>2. h \in [Nat -> Nat] /\ h[j] = y /\ \A i \in Nat : i # j => h[i] = g[i]
    BY <2>1
  <2>3. r \in [Nat -> Nat] /\ \A i \in Nat : r[i] = IF s[i] = n + 1 THEN j ELSE s[i]
    BY <2>1
  <2> HIDE DEF j, y, h, r
  <2>4. \A i \in 1 .. n : /\ i \in 1 .. n + 1 /\ i # n + 1 /\ s[i] \in 1 .. n + 1
                          /\ s[i] # j /\ i \in Nat
    <3>1. \A i \in 1 .. n : i \in 1 .. n + 1 /\ i # n + 1 /\ i \in Nat
      OBVIOUS
    <3> QED
      BY <2>1, <3>1 DEF Permutes, j
  <2>5. \A i \in 1 .. n : r[i] \in 1 .. n
    <3> SUFFICES ASSUME NEW i \in 1 .. n PROVE r[i] \in 1 .. n
      OBVIOUS
    <3>1. s[i] \in 1 .. n + 1 /\ s[i] # j /\ r[i] = IF s[i] = n + 1 THEN j ELSE s[i]
      BY <2>3, <2>4
    <3>2. CASE s[i] = n + 1
      BY <2>1, <3>1, <3>2
    <3>3. CASE s[i] # n + 1
      <4>1. \A x \in 1 .. n + 1 : x # n + 1 => x \in 1 .. n
        OBVIOUS
      <4> QED
        BY <3>1, <3>3, <4>1
    <3> QED
      BY <3>2, <3>3
  <2>6. Permutes(r, n)
    <3>1. ASSUME NEW i \in 1 .. n, NEW k \in 1 .. n, r[i] = r[k] PROVE i = k
      <4>1. /\ r[i] = IF s[i] = n + 1 THEN j ELSE s[i]
            /\ r[k] = IF s[k] = n + 1 THEN j ELSE s[k]
            /\ s[i] # j /\ s[k] # j
        BY <2>3, <2>4
      <4>2. s[i] = s[k]
        BY <3>1, <4>1
      <4> QED
        BY <2>4, <4>2 DEF Permutes
    <3> QED
      BY <2>5, <3>1 DEF Permutes
  <2>7. \A i \in 1 .. n : f[i] = h[r[i]]
    <3> SUFFICES ASSUME NEW i \in 1 .. n PROVE f[i] = h[r[i]]
      OBVIOUS
    <3>1. /\ f[i] = g[s[i]] /\ s[i] # j /\ s[i] \in Nat
          /\ r[i] = IF s[i] = n + 1 THEN j ELSE s[i]
      BY <2>3, <2>4
    <3> QED
      BY <2>2, <3>1 DEF y
  <2>8. Product(f)[n] = Product(h)[n]
    BY <1>2, <2>2, <2>3, <2>6, <2>7
  <2>9. /\ Product(f)[n + 1] = Product(f)[n] * f[n + 1]
        /\ Product(g)[n + 1] = Product(g)[n] * y
        /\ Product(h)[n] \in Nat /\ Product(g)[n] \in Nat
    BY <2>2, ProductStep DEF y
  <2>10. CASE j = n + 1
    <3>1. \A i \in 1 .. n : h[i] = g[i]
      BY <2>2, <2>4, <2>10
    <3>2. Product(h)[n] = Product(g)[n]
      BY <2>2, <3>1, ProductSame
    <3> QED
      BY <2>1, <2>8, <2>9, <2>10, <3>2 DEF y
  <2>11. CASE j # n + 1
    <3>1. j <= n /\ j \in Nat \ {0}
      BY <2>1, <2>11
    <3>2. g[j] * Product(h)[n] = y * Product(g)[n]
      BY <2>2, <3>1, ProductReplace
    <3>3. g[j] \in Nat
      BY <3>1
    <3>4. \A a \in Nat, b \in Nat : a * b = b * a
      OBVIOUS
    <3> QED
      BY <2>1, <2>8, <2>9, <3>2, <3>3, <3>4
  <2> QED
    BY <2>10, <2>11
<1> HIDE DEF S
<1>3. \A n \in Nat : n \in S
  BY <1>1, <1>2, Induction
<1> QED
  BY <1>3 DEF S

-----------------------------------------------------------------------------
(* Primes. *)

Divides(d, a) == \E k \in Int : a = d * k
Prime(p) == p \in Nat /\ p > 1 /\ \A d \in 2 .. p - 1 : ~ Divides(d, p)

\* A divisor leaves no remainder.
LEMMA DividesIs ==
    ASSUME NEW d \in Nat \ {0}, NEW a \in Int
    PROVE  Divides(d, a) <=> a % d = 0
<1> DEFINE z == 0
<1>1. a % d = z % d <=> \E u \in Int : a = z + u * d
  <2>1. z \in Int
    OBVIOUS
  <2> HIDE DEF z
  <2> QED
    BY <2>1, SameRemainder
<1>2. 0 % d = 0
  BY SmallRemainder
<1>3. \A u \in Int : 0 + u * d = d * u
  OBVIOUS
<1> QED
  BY <1>1, <1>2, <1>3 DEF Divides

\* A divisor of two numbers divides their difference and their multiples.
LEMMA DividesSum ==
    ASSUME NEW d \in Nat, NEW a \in Int, NEW b \in Int, Divides(d, a), Divides(d, b)
    PROVE  Divides(d, a - b) /\ Divides(d, a + b)
<1>1. PICK j \in Int : a = d * j
  BY DEF Divides
<1>2. PICK k \in Int : b = d * k
  BY DEF Divides
<1>3. a - b = d * (j - k) /\ a + b = d * (j + k) /\ j - k \in Int /\ j + k \in Int
  BY <1>1, <1>2
<1> QED
  BY <1>3 DEF Divides

LEMMA DividesProduct ==
    ASSUME NEW d \in Nat, NEW a \in Int, NEW b \in Int, Divides(d, a)
    PROVE  Divides(d, a * b) /\ Divides(d, b * a)
<1>1. PICK k \in Int : a = d * k
  BY DEF Divides
<1>2. a * b = d * (k * b) /\ b * a = d * (k * b) /\ k * b \in Int
  BY <1>1
<1> QED
  BY <1>2 DEF Divides

\* A prime that divides a product divides one of its factors.
LEMMA PrimeDividesFactor ==
    ASSUME NEW p, Prime(p), NEW a \in Nat, NEW b \in Int, Divides(p, a * b)
    PROVE  Divides(p, a) \/ Divides(p, b)
<1> DEFINE S == {m \in Nat \ {0} : Divides(p, m * b)}
           m == Min(S)
<1> SUFFICES ASSUME ~ Divides(p, a) PROVE Divides(p, b)
  OBVIOUS
<1>1. p \in Nat /\ p > 1
  BY DEF Prime
<1>2. p \in S /\ a \in S
  <2>1. Divides(p, p * b)
    BY DEF Divides
  <2>2. a # 0
    <3>1. p * 0 = 0
      BY <1>1
    <3> QED
      BY <3>1 DEF Divides
  <2> QED
    BY <1>1, <2>1, <2>2
<1>3. m \in S /\ \A s \in S : m <= s
  <2>1. S \subseteq Nat /\ S # {}
    BY <1>2
  <2> HIDE DEF S
  <2> QED
    BY <2>1, MinIsLeast
<1>4. m \in Nat \ {0} /\ Divides(p, m * b)
  BY <1>3
<1> HIDE DEF m
<1>5. ASSUME NEW s \in S PROVE Divides(m, s)
  <2> DEFINE q == s \div m
             r == s % m
  <2>1. s \in Nat /\ Divides(p, s * b)
    OBVIOUS
  <2> HIDE DEF S
  <2>2. q \in Nat /\ r \in 0 .. m - 1 /\ s = m * q + r
    BY <1>4, <2>1, Division
  <2> HIDE DEF q, r
  <2>3. Divides(p, r * b)
    <3>1. Divides(p, q * (m * b))
      <4>1. m * b \in Int /\ q \in Int
        BY <1>4, <2>2
      <4> QED
        BY <1>1, <1>4, <4>1, DividesProduct
    <3>2. s * b \in Int /\ q * (m * b) \in Int
      BY <1>4, <2>1, <2>2
    <3>3. Divides(p, s * b - q * (m * b))
      BY <1>1, <2>1, <3>1, <3>2, DividesSum
    <3>4. s * b - q * (m * b) = r * b
      <4>1. (m * q + r) * b = q * (m * b) + r * b
        BY <1>4, <2>2
      <4>2. q * (m * b) \in Int /\ r * b \in Int
        BY <1>4, <2>2
      <4> QED
        BY <2>2, <4>1, <4>2
    <3> QED
      BY <3>3, <3>4
  <2>4. r = 0
    <3>1. r # 0 => r \in S
      BY <1>4, <2>2, <2>3 DEF S
    <3> QED
      BY <1>3, <1>4, <2>2, <3>1
  <2>5. s = m * q
    BY <1>4, <2>2, <2>4
  <2> QED
    BY <2>2, <2>5 DEF Divides
<1>6. Divides(m, p) /\ Divides(m, a) /\ m <= p
  BY <1>2, <1>3, <1>5
<1>7. m = 1 \/ m = p
  BY <1>1, <1>4, <1>6 DEF Prime
<1>8. m # p
  BY <1>6
<1>9. m * b = b
  BY <1>7, <1>8
<1> QED
  BY <1>4, <1>9

\* Two different primes that divide a number: so does their product.
LEMMA PrimesDivide ==
    ASSUME NEW p, NEW q, Prime(p), Prime(q), p # q, NEW a \in Int, Divides(p, a), Divides(q, a)
    PROVE  Divides(p * q, a)
<1>1. p \in Nat /\ p > 1 /\ q \in Nat /\ q > 1
  BY DEF Prime
<1>2. PICK k \in Int : a = p * k
  BY DEF Divides
<1>3. ~ Divides(q, p)
  <2> SUFFICES ASSUME NEW j \in Int, p = q * j PROVE FALSE
    BY DEF Divides
  <2>1. j > 0
    <3>1. j <= 0 => q * j <= 0
      BY <1>1
    <3> QED
      BY <1>1, <3>1
  <2>2. j # 1
    BY <1>1
  <2>3. q * j >= 2 * q
    BY <1>1, <2>1, <2>2
  <2>4. q \in 2 .. p - 1
    BY <1>1, <2>3
  <2> QED
    BY <2>4 DEF Prime, Divides
<1>4. Divides(q, k)
  BY <1>1, <1>2, <1>3, PrimeDividesFactor
<1>5. PICK j \in Int : k = q * j
  BY <1>4 DEF Divides
<1>6. a = (p * q) * j
  BY <1>1, <1>2, <1>5
<1> QED
  BY <1>6 DEF Divides

-----------------------------------------------------------------------------
(* Fermat's theorem, and what it makes of two primes. *)

\* Congruent numbers differ by a multiple.
LEMMA SameDivides ==
    ASSUME NEW a \in Int, NEW b \in Int, NEW n \in Nat \ {0}
    PROVE  a % n = b % n <=> Divides(n, a - b)
<1>1. \A k \in Int : a = b + k * n <=> a - b = n * k
  <2> SUFFICES ASSUME NEW k \in Int PROVE a = b + k * n <=> a - b = n * k
    OBVIOUS
  <2>1. k * n = n * k /\ n * k \in Int
    OBVIOUS
  <2> QED
    BY <2>1
<1>2. a % n = b % n <=> \E u \in Int : a = b + u * n
  BY SameRemainder
<1> QED
  BY <1>1, <1>2 DEF Divides

\* Between -p and p only 0 is a multiple of p.
LEMMA SmallMultiple ==
    ASSUME NEW p \in Nat, NEW i \in Int, 0 - p < i, i < p, Divides(p, i)
    PROVE  i = 0
<1>1. PICK k \in Int : i = p * k
  BY DEF Divides
<1>2. k >= 1 => p * k >= p
  OBVIOUS
<1>3. k <= 0 - 1 => p * k <= 0 - p
  OBVIOUS
<1>4. k = 0
  BY <1>1, <1>2, <1>3
<1> QED
  BY <1>1, <1>4

\* Fermat's theorem: a and its multiples up to p - 1 have the same product, as remainders
\* of p, as 1 .. p - 1, but for the power of a.
LEMMA Fermat ==
    ASSUME NEW p \in Nat, Prime(p), NEW a \in Nat, ~ Divides(p, a)
    PROVE  Powers(a)[p - 1] % p = 1
<1> DEFINE id == [i \in Nat |-> i]
           s == [i \in Nat |-> (a * i) % p]
           n == p - 1
           F == Product(id)[n]
           A == Powers(a)[n]
<1>1. p \in Nat /\ p > 1 /\ p \in Nat \ {0} /\ n \in Nat
  BY DEF Prime
<1>2. \A i \in Nat : a * i \in Nat /\ (a * i) % p \in 0 .. p - 1
  <2> SUFFICES ASSUME NEW i \in Nat PROVE a * i \in Nat /\ (a * i) % p \in 0 .. p - 1
    OBVIOUS
  <2> DEFINE x == a * i
  <2>1. x \in Nat
    OBVIOUS
  <2> HIDE DEF x
  <2>2. x % p \in 0 .. p - 1
    BY <1>1, <2>1, Division
  <2> QED
    BY <2>1, <2>2 DEF x
<1>3. /\ s \in [Nat -> Nat] /\ \A i \in Nat : s[i] = (a * i) % p
      /\ id \in [Nat -> Nat] /\ \A i \in Nat : id[i] = i
  BY <1>2
<1> HIDE DEF id, s
<1>16. /\ \A m \in Nat : Product(s)[m] \in Nat /\ Product(s)[m + 1] = Product(s)[m] * s[m + 1]
      /\ Product(s)[0] = 1
  BY <1>3, ProductStep
<1>17. /\ \A m \in Nat : Product(id)[m] \in Nat /\ Product(id)[m + 1] = Product(id)[m] * (m + 1)
      /\ Product(id)[0] = 1
  <2>1. /\ \A m \in Nat : Product(id)[m] \in Nat /\ Product(id)[m + 1] = Product(id)[m] * id[m + 1]
        /\ Product(id)[0] = 1
    BY <1>3, ProductStep
  <2>2. \A m \in Nat : id[m + 1] = m + 1
    BY <1>3
  <2> QED
    BY <2>1, <2>2
<1>18. /\ \A m \in Nat : Powers(a)[m] \in Nat /\ Powers(a)[m + 1] = a * Powers(a)[m]
      /\ Powers(a)[0] = 1
  BY PowersAre
<1>4. \A i \in 1 .. n : ~ Divides(p, i)
  <2> SUFFICES ASSUME NEW i \in 1 .. n, Divides(p, i) PROVE FALSE
    OBVIOUS
  <2>1. i \in Int /\ 0 - p < i /\ i < p /\ i # 0
    BY <1>1
  <2> QED
    BY <1>1, <2>1, SmallMultiple
<1>5. Permutes(s, n)
  <2>1. ASSUME NEW i \in 1 .. n PROVE s[i] \in 1 .. n
    <3>1. i \in Nat /\ a * i \in Nat /\ s[i] = (a * i) % p /\ s[i] \in 0 .. p - 1
      BY <1>1, <1>2, <1>3
    <3>2. ~ Divides(p, a * i)
      BY <1>4, <3>1, PrimeDividesFactor
    <3>3. (a * i) % p # 0
      BY <1>1, <3>1, <3>2, DividesIs
    <3> QED
      BY <1>1, <3>1, <3>3
  <2>2. ASSUME NEW i \in 1 .. n, NEW j \in 1 .. n, s[i] = s[j] PROVE i = j
    <3>1. i \in Nat /\ j \in Nat /\ a * i \in Int /\ a * j \in Int /\ i - j \in Int
      OBVIOUS
    <3>2. (a * i) % p = (a * j) % p
      BY <1>3, <2>2, <3>1
    <3>3. Divides(p, a * i - a * j)
      BY <1>1, <3>1, <3>2, SameDivides
    <3>4. a * i - a * j = a * (i - j)
      BY <3>1
    <3>5. Divides(p, i - j)
      BY <3>1, <3>3, <3>4, PrimeDividesFactor
    <3>6. 0 - p < i - j /\ i - j < p
      BY <1>1
    <3>7. i - j = 0
      BY <1>1, <3>1, <3>5, <3>6, SmallMultiple
    <3> QED
      BY <3>1, <3>7
  <2> QED
    BY <2>1, <2>2 DEF Permutes
<1>6. Product(s)[n] = F
  <2>1. \A i \in 1 .. n : s[i] = id[s[i]]
    BY <1>3
  <2> QED
    BY <1>1, <1>3, <1>5, <2>1, ProductPermuted
<1>7. \A m \in Nat : Product(s)[m] % p = (Powers(a)[m] * Product(id)[m]) % p
  <2> DEFINE S == {m \in Nat : Product(s)[m] % p = (Powers(a)[m] * Product(id)[m]) % p}
  <2>1. 0 \in S
    BY <1>16, <1>17, <1>18
  <2>2. ASSUME NEW m \in Nat, m \in S PROVE m + 1 \in S
    <3> DEFINE P == Product(s)[m]
               B == Powers(a)[m]
               Q == Product(id)[m]
               k == m + 1
    <3>1. k \in Nat /\ P \in Nat /\ B \in Nat /\ Q \in Nat
      BY <1>16, <1>17, <1>18
    <3>2. Product(s)[k] = P * s[k] /\ Product(id)[k] = Q * k /\ Powers(a)[k] = a * B
      BY <1>16, <1>17, <1>18
    <3>3. P % p = (B * Q) % p
      BY <2>2
    <3> HIDE DEF P, B, Q, k
    <3>4. s[k] = (a * k) % p /\ s[k] \in 0 .. p - 1 /\ a * k \in Nat
      BY <1>2, <1>3, <3>1
    <3>5. s[k] % p = (a * k) % p
      BY <1>1, <3>4, SmallRemainder
    <3>6. P \in Int /\ s[k] \in Int /\ B * Q \in Int /\ a * k \in Int
      BY <3>1, <3>4
    <3>7. (P * s[k]) % p = ((B * Q) * (a * k)) % p
      <4>1. Congruent(P, B * Q, p) /\ Congruent(s[k], a * k, p)
        BY <3>3, <3>5 DEF Congruent
      <4>2. Congruent(P * s[k], (B * Q) * (a * k), p)
        BY <1>1, <3>6, <4>1, CongruentProduct
      <4> QED
        BY <4>2 DEF Congruent
    <3>8. (B * Q) * (a * k) = (a * B) * (Q * k)
      BY <3>1
    <3> QED
      BY <3>1, <3>2, <3>7, <3>8 DEF k
  <2> HIDE DEF S
  <2>3. \A m \in Nat : m \in S
    BY <2>1, <2>2, Induction
  <2> QED
    BY <2>3 DEF S
<1>8. ~ Divides(p, F)
  <2> DEFINE S == {m \in Nat : m <= n => ~ Divides(p, Product(id)[m])}
  <2>1. 0 \in S
    <3>1. 1 \in 1 .. n
      BY <1>1
    <3>2. Product(id)[0] = 1
      BY <1>17
    <3> QED
      BY <1>4, <3>1, <3>2
  <2>2. ASSUME NEW m \in Nat, m \in S PROVE m + 1 \in S
    <3> SUFFICES ASSUME m + 1 <= n PROVE ~ Divides(p, Product(id)[m + 1])
      OBVIOUS
    <3>1. m + 1 \in 1 .. n /\ m <= n /\ m + 1 \in Nat
      BY <1>1
    <3>2. Product(id)[m + 1] = Product(id)[m] * (m + 1) /\ Product(id)[m] \in Nat
      BY <1>17, <3>1
    <3>3. ~ Divides(p, Product(id)[m]) /\ ~ Divides(p, m + 1)
      BY <1>4, <2>2, <3>1
    <3> QED
      BY <3>1, <3>2, <3>3, PrimeDividesFactor
  <2> HIDE DEF S
  <2>3. \A m \in Nat : m \in S
    BY <2>1, <2>2, Induction
  <2> QED
    BY <1>1, <2>3 DEF S
<1>9. F \in Nat /\ A \in Nat
  BY <1>1, <1>17, <1>18
<1>10. (A * F) % p = F % p
  BY <1>1, <1>6, <1>7
<1> HIDE DEF F, A, n
<1>11. Divides(p, F * (A - 1))
  <2>1. A * F \in Int /\ F \in Int /\ A * F - F = F * (A - 1)
    BY <1>9
  <2> QED
    BY <1>1, <1>10, <2>1, SameDivides
<1>12. Divides(p, A - 1)
  <2>1. A - 1 \in Int
    BY <1>9
  <2> QED
    BY <1>8, <1>9, <1>11, <2>1, PrimeDividesFactor
<1> DEFINE u == 1
<1>13. u \in Int /\ A \in Int /\ Divides(p, A - u)
  BY <1>9, <1>12
<1>14. u % p = 1
  BY <1>1, SmallRemainder
<1> HIDE DEF u
<1>15. A % p = u % p
  BY <1>1, <1>13, SameDivides
<1> QED
  BY <1>14, <1>15 DEF A, n

\* Powers of a remainder of a power.
LEMMA PowersOfPower ==
    ASSUME NEW n \in Nat \ {0}, NEW c \in Nat, NEW e \in Nat, NEW b \in Nat,
           Congruent(b, Powers(c)[e], n)
    PROVE  \A d \in Nat : Congruent(Powers(b)[d], Powers(c)[e * d], n)
<1> DEFINE S == {d \in Nat : Congruent(Powers(b)[d], Powers(c)[e * d], n)}
<1>1. 0 \in S
  <2>1. e * 0 = 0 /\ Powers(b)[0] = 1 /\ Powers(c)[0] = 1
    BY PowersAre
  <2> QED
    BY <2>1 DEF Congruent
<1>4. \A i \in Nat : Powers(b)[i] \in Nat /\ Powers(b)[i + 1] = b * Powers(b)[i]
  BY PowersAre
<1>5. \A i \in Nat : Powers(c)[i] \in Nat
  BY PowersAre
<1>6. \A i \in Nat : Powers(c)[e + i] = Powers(c)[e] * Powers(c)[i]
  BY PowersAdd
<1>2. ASSUME NEW d \in Nat, d \in S PROVE d + 1 \in S
  <2> DEFINE g == e * d
             x == Powers(b)[d]
             y == Powers(c)[e]
             w == Powers(c)[g]
  <2>1. Congruent(x, w, n) /\ g \in Nat /\ e * (d + 1) = e + g /\ d + 1 \in Nat
    BY <1>2
  <2>2. Powers(b)[d + 1] = b * x /\ x \in Int
    BY <1>4
  <2> HIDE DEF g
  <2>3. Powers(c)[e + g] = y * w /\ y \in Int /\ w \in Int
    BY <2>1, <1>5, <1>6
  <2>5. Congruent(b, y, n) /\ b \in Int
    OBVIOUS
  <2> HIDE DEF x, y, w
  <2>4. Congruent(b * x, y * w, n)
    BY <2>1, <2>2, <2>3, <2>5, CongruentProduct
  <2>6. Congruent(Powers(b)[d + 1], Powers(c)[e * (d + 1)], n)
    BY <2>1, <2>2, <2>3, <2>4
  <2> QED
    BY <2>1, <2>6
<1> HIDE DEF S
<1>3. \A d \in Nat : d \in S
  BY <1>1, <1>2, Induction
<1> QED
  BY <1>3 DEF S

\* One more than a multiple of p - 1 takes every number back to itself, modulo p.
LEMMA BackToItself ==
    ASSUME NEW p \in Nat, Prime(p), NEW c \in Nat, NEW j \in Nat
    PROVE  Congruent(Powers(c)[1 + (p - 1) * j], c, p)
<1> DEFINE n == p - 1
           one == 1
           m == n * j
           x == Powers(c)[m]
<1>1. p \in Nat \ {0} /\ p > 1 /\ n \in Nat /\ m \in Nat /\ x \in Nat /\ one \in Int
  <2>1. p \in Nat \ {0} /\ p > 1 /\ n \in Nat
    BY DEF Prime
  <2>2. m \in Nat
    <3> HIDE DEF n
    <3> QED
      BY <2>1
  <2> HIDE DEF m
  <2> QED
    BY <2>1, <2>2, PowersAre
<1>2. Powers(c)[1 + m] = c * x
  <2> HIDE DEF m
  <2>1. 1 + m = m + 1
    BY <1>1
  <2>2. Powers(c)[m + 1] = c * Powers(c)[m]
    BY <1>1, PowersAre
  <2> QED
    BY <2>1, <2>2
<1>3. CASE Divides(p, c)
  <2>1. Divides(p, c * x)
    <3> HIDE DEF x
    <3> QED
      BY <1>1, <1>3, DividesProduct
  <2>2. c * x \in Int /\ c \in Int
    <3> HIDE DEF x
    <3> QED
      BY <1>1
  <2>3. Divides(p, c * x - c)
    <3> DEFINE y == c * x
    <3> HIDE DEF y
    <3>1. Divides(p, y) /\ y \in Int
      BY <2>1, <2>2 DEF y
    <3>2. Divides(p, y - c)
      BY <1>1, <1>3, <3>1, DividesSum
    <3> QED
      BY <3>2 DEF y
  <2>4. (c * x) % p = c % p
    BY <1>1, <2>2, <2>3, SameDivides
  <2> HIDE DEF x
  <2> QED
    BY <1>2, <2>4 DEF Congruent, m, n
<1>4. CASE ~ Divides(p, c)
  <2> DEFINE S == {i \in Nat : Congruent(Powers(c)[n * i], one, p)}
  <2>1. Congruent(Powers(c)[n], one, p)
    <3>1. one % p = 1
      BY <1>1, SmallRemainder
    <3>2. Powers(c)[p - 1] % p = 1
      BY <1>4, Fermat
    <3> HIDE DEF one
    <3> QED
      BY <3>1, <3>2 DEF Congruent
  <2> HIDE DEF n, one
  <2>2. 0 \in S
    <3>1. n * 0 = 0 /\ Powers(c)[0] = 1
      BY <1>1, PowersAre
    <3> QED
      BY <3>1 DEF Congruent, one
  <2>9. \A i \in Nat : Powers(c)[i] \in Nat /\ Powers(c)[i + n] = Powers(c)[i] * Powers(c)[n]
    <3> SUFFICES ASSUME NEW i \in Nat
                 PROVE  Powers(c)[i] \in Nat /\ Powers(c)[i + n] = Powers(c)[i] * Powers(c)[n]
      OBVIOUS
    <3>1. \A k \in Nat : Powers(c)[i + k] = Powers(c)[i] * Powers(c)[k]
      BY PowersAdd
    <3> QED
      BY <1>1, <3>1, PowersAre
  <2>3. ASSUME NEW i \in Nat, i \in S PROVE i + 1 \in S
    <3> DEFINE g == n * i
               y == Powers(c)[g]
               w == Powers(c)[n]
    <3>1. Congruent(y, one, p) /\ g \in Nat /\ n * (i + 1) = g + n /\ i + 1 \in Nat
      BY <1>1, <2>3
    <3>5. w \in Nat /\ Congruent(w, one, p)
      BY <1>1, <2>1, <2>9
    <3> HIDE DEF g
    <3>2. Powers(c)[g + n] = y * w /\ y \in Int /\ w \in Int
      BY <3>1, <3>5, <2>9
    <3> HIDE DEF y, w
    <3>3. Congruent(y * w, one * one, p)
      BY <1>1, <3>1, <3>2, <3>5, CongruentProduct
    <3>4. one * one = one
      BY DEF one
    <3>6. Congruent(Powers(c)[n * (i + 1)], one, p)
      BY <3>1, <3>2, <3>3, <3>4
    <3> QED
      BY <3>1, <3>6
  <2> HIDE DEF S
  <2>4. \A i \in Nat : i \in S
    BY <2>2, <2>3, Induction
  <2>5. Congruent(x, one, p)
    BY <2>4 DEF S
  <2> HIDE DEF x, m
  <2>6. Congruent(c, c, p)
    BY DEF Congruent
  <2>7. Congruent(c * x, c * one, p)
    BY <1>1, <2>5, <2>6, CongruentProduct
  <2>8. c * one = c
    BY DEF one
  <2> QED
    BY <1>2, <2>7, <2>8 DEF m, n
<1> QED
  BY <1>3, <1>4

\* What is encrypted with one exponent is decrypted with the other, if the power of the
\* product of the exponents takes it back to itself.
LEMMA Deciphered ==
    ASSUME NEW n \in Nat \ {0}, NEW c \in Nat, c < n, NEW e \in Nat, NEW d \in Nat,
           Congruent(Powers(c)[e * d], c, n)
    PROVE  Powers(Powers(c)[e] % n)[d] % n = c
<1> DEFINE g == e * d
           a == Powers(c)[e]
           b == a % n
<1>1. a \in Nat /\ g \in Nat /\ Congruent(Powers(c)[g], c, n)
  BY PowersAre
<1> HIDE DEF a, g
<1>2. b \in 0 .. n - 1
  BY <1>1, Division
<1>3. b \in Nat /\ b % n = b
  BY <1>2, SmallRemainder
<1>4. Congruent(b, Powers(c)[e], n)
  BY <1>3 DEF Congruent, a
<1> HIDE DEF b
<1>5. Congruent(Powers(b)[d], Powers(c)[g], n)
  <2>1. \A i \in Nat : Congruent(Powers(b)[i], Powers(c)[e * i], n)
    BY <1>3, <1>4, PowersOfPower
  <2> QED
    BY <2>1 DEF g
<1>6. c % n = c
  <2>1. c \in 0 .. n - 1
    OBVIOUS
  <2> QED
    BY <2>1, SmallRemainder
<1> QED
  BY <1>1, <1>5, <1>6 DEF Congruent, b, a

\* The exponents are inverse modulo t: their product is one more than a multiple of t.
LEMMA OneAbove ==
    ASSUME NEW g \in Nat, NEW t \in Nat \ {0}, g % t = 1
    PROVE  \E k \in Nat : g = 1 + t * k
<1> DEFINE k == g \div t
<1>1. k \in Nat /\ g = t * k + (g % t)
  BY Division
<1> HIDE DEF k
<1>2. t * k \in Nat
  BY <1>1
<1>3. g = 1 + t * k
  BY <1>1, <1>2
<1> QED
  BY <1>1, <1>3

\* Two different primes.
LEMMA RoundTrip ==
    ASSUME NEW p \in Nat, NEW q \in Nat, Prime(p), Prime(q), p # q,
           NEW g \in Nat, g % ((p - 1) * (q - 1)) = 1, NEW c \in Nat
    PROVE  Congruent(Powers(c)[g], c, p * q)
<1> DEFINE t == (p - 1) * (q - 1)
           n == p * q
           z == Powers(c)[g]
<1>1. /\ p \in Nat \ {0} /\ q \in Nat \ {0} /\ p - 1 \in Nat \ {0} /\ q - 1 \in Nat \ {0}
  BY DEF Prime
<1>2. t \in Nat \ {0} /\ n \in Nat \ {0}
  <2>1. \A i \in Nat \ {0}, j \in Nat \ {0} : i * j \in Nat \ {0}
    OBVIOUS
  <2> QED
    BY <1>1, <2>1
<1>3. PICK k \in Nat : g = 1 + t * k
  <2>1. g % t = 1
    OBVIOUS
  <2> HIDE DEF t
  <2> QED
    BY <1>2, <2>1, OneAbove
<1>4. g = 1 + (p - 1) * ((q - 1) * k) /\ (q - 1) * k \in Nat
  <2>1. t * k = (p - 1) * ((q - 1) * k) /\ (q - 1) * k \in Nat
    BY <1>1, <1>3
  <2> HIDE DEF t
  <2> QED
    BY <1>3, <2>1
<1>5. g = 1 + (q - 1) * ((p - 1) * k) /\ (p - 1) * k \in Nat
  <2>1. t * k = (q - 1) * ((p - 1) * k) /\ (p - 1) * k \in Nat
    BY <1>1, <1>3
  <2> HIDE DEF t
  <2> QED
    BY <1>3, <2>1
<1>6. Congruent(z, c, p)
  BY <1>4, BackToItself
<1>7. Congruent(z, c, q)
  BY <1>5, BackToItself
<1>15. z \in Nat
  BY PowersAre
<1> HIDE DEF z, n
<1>8. z \in Int /\ c \in Int /\ z - c \in Int
  BY <1>15
<1>9. z % p = c % p /\ z % q = c % q
  BY <1>6, <1>7 DEF Congruent
<1>10. Divides(p, z - c)
  BY <1>1, <1>8, <1>9, SameDivides
<1>11. Divides(q, z - c)
  BY <1>1, <1>8, <1>9, SameDivides
<1> DEFINE y == z - c
<1>12. Divides(p, y) /\ Divides(q, y) /\ y \in Int
  BY <1>8, <1>10, <1>11
<1> HIDE DEF y
<1>13. Divides(n, y)
  BY <1>12, PrimesDivide DEF n
<1>14. z % n = c % n
  <2>1. Divides(n, z - c)
    BY <1>13 DEF y
  <2> QED
    BY <1>2, <1>8, <2>1, SameDivides
<1> QED
  BY <1>14 DEF Congruent, z, n

\* The powers of 1 + p * u, modulo the square of p.
LEMMA PowersNearOne ==
    ASSUME NEW p \in Nat \ {0}, NEW u \in Nat, NEW x \in Nat, x = 1 + p * u
    PROVE  \A j \in Nat : Congruent(Powers(x)[j], 1 + j * (p * u), p * p)
<1> DEFINE n == p * p
           w == p * u
           S == {j \in Nat : Congruent(Powers(x)[j], 1 + j * w, n)}
<1>1. n \in Nat \ {0} /\ w \in Nat /\ x = 1 + w
  <2>1. \A i \in Nat \ {0} : i * i \in Nat \ {0}
    OBVIOUS
  <2> QED
    BY <2>1
<1>2. w * w = (u * u) * n
  OBVIOUS
<1>3. \A j \in Nat : Powers(x)[j] \in Nat /\ Powers(x)[j + 1] = x * Powers(x)[j]
  BY PowersAre
<1> HIDE DEF n, w
<1>4. 0 \in S
  <2>1. Powers(x)[0] = 1 /\ 1 + 0 * w = 1
    BY <1>1, PowersAre
  <2> QED
    BY <2>1 DEF Congruent
<1>5. ASSUME NEW j \in Nat, j \in S PROVE j + 1 \in S
  <2> DEFINE y == Powers(x)[j]
             v == 1 + j * w
             r == x * y
             s == x * v
             r1 == 1 + (j + 1) * w
             k == j * (u * u)
  <2>1. Congruent(y, v, n) /\ y \in Int /\ v \in Int /\ x \in Int
    BY <1>1, <1>3, <1>5
  <2>2. Congruent(x, x, n)
    BY DEF Congruent
  <2>3. Congruent(r, s, n)
    <3> HIDE DEF y, v
    <3> QED
      BY <1>1, <2>1, <2>2, CongruentProduct
  <2>4. s = r1 + k * n /\ s \in Int /\ r1 \in Int /\ k \in Int
    <3>1. s = 1 + (j + 1) * w + j * (w * w)
      BY <1>1
    <3>2. j * (w * w) = k * n
      BY <1>1, <1>2
    <3>3. (j + 1) * w \in Int /\ k \in Int /\ k * n \in Int
      BY <1>1
    <3> QED
      BY <3>1, <3>2, <3>3
  <2> HIDE DEF s, r1, k
  <2>5. s % n = r1 % n
    BY <1>1, <2>4, SameRemainder
  <2>6. Congruent(Powers(x)[j + 1], r1, n)
    BY <1>3, <2>3, <2>5 DEF Congruent
  <2> QED
    BY <2>6 DEF r1
<1> HIDE DEF S
<1>6. \A j \in Nat : j \in S
  BY <1>4, <1>5, Induction
<1> QED
  BY <1>6 DEF S, n, w

\* The same prime twice: back to itself comes what the prime does not divide.
LEMMA RoundTripSquare ==
    ASSUME NEW p \in Nat, Prime(p), NEW g \in Nat, g % (p * (p - 1)) = 1,
           NEW c \in Nat, ~ Divides(p, c)
    PROVE  Congruent(Powers(c)[g], c, p * p)
<1> DEFINE h == p - 1
           n == p * p
           t == p * h
           x == Powers(c)[h]
           one == 1
<1>1. p \in Nat \ {0} /\ p > 1 /\ h \in Nat \ {0} /\ h \in Nat /\ one \in Int /\ one \in Nat
  BY DEF Prime
<1>2. t \in Nat \ {0} /\ n \in Nat \ {0} /\ t = h * p
  <2>1. \A i \in Nat \ {0}, j \in Nat \ {0} : i * j \in Nat \ {0} /\ i * j = j * i
    OBVIOUS
  <2> HIDE DEF h
  <2> QED
    BY <1>1, <2>1
<1>3. PICK k \in Nat : g = 1 + t * k
  <2>1. g % t = 1
    OBVIOUS
  <2> HIDE DEF t
  <2> QED
    BY <1>2, <2>1, OneAbove
<1>4. x \in Nat /\ x % p = 1
  BY <1>1, Fermat, PowersAre
<1> HIDE DEF x, h, n, t
<1>5. PICK u \in Nat : x = 1 + p * u
  BY <1>1, <1>4, OneAbove
<1>6. Congruent(Powers(x)[p], one, n)
  <2> DEFINE r == 1 + p * (p * u)
  <2>1. Congruent(Powers(x)[p], r, n)
    BY <1>1, <1>4, <1>5, PowersNearOne DEF n
  <2>2. r = one + u * n /\ r \in Int /\ u \in Int
    <3>1. r = one + u * n
      BY DEF n
    <3>2. u * n \in Int /\ u \in Int
      BY <1>2
    <3> HIDE DEF r, one
    <3> QED
      BY <1>1, <3>1, <3>2
  <2> HIDE DEF r, one
  <2>3. r % n = one % n
    BY <1>1, <1>2, <2>2, SameRemainder
  <2> QED
    BY <2>1, <2>3 DEF Congruent
<1>7. Congruent(Powers(c)[t], one, n)
  <2>1. Congruent(x, Powers(c)[h], n)
    BY DEF Congruent, x
  <2>2. \A i \in Nat : Congruent(Powers(x)[i], Powers(c)[h * i], n)
    BY <1>1, <1>2, <1>4, <2>1, PowersOfPower
  <2>3. Congruent(Powers(x)[p], Powers(c)[h * p], n)
    BY <2>2
  <2> QED
    BY <1>2, <1>6, <2>3 DEF Congruent
<1> DEFINE w == Powers(c)[t]
           m == t * k
           zero == 0
<1>8. w \in Nat /\ m \in Nat /\ Powers(c)[m] \in Nat
  <2>1. m \in Nat
    BY <1>2
  <2> HIDE DEF m
  <2> QED
    BY <1>2, <2>1, PowersAre
<1>9. Congruent(Powers(c)[m], one, n)
  <2>1. Congruent(w, Powers(c)[t], n)
    BY DEF Congruent
  <2>2. Congruent(Powers(w)[k], Powers(c)[m], n)
    <3>1. t \in Nat
      BY <1>2
    <3> HIDE DEF w
    <3> QED
      BY <1>2, <1>8, <2>1, <3>1, PowersOfPower
  <2>3. Powers(one)[zero] = 1 /\ zero \in Nat /\ \A i \in Nat : zero * i = zero
    BY PowersAre
  <2> HIDE DEF zero, w, one
  <2>4. Congruent(w, Powers(one)[zero], n)
    BY <1>7, <2>3 DEF w, one
  <2>5. \A i \in Nat : Congruent(Powers(w)[i], Powers(one)[zero * i], n)
    BY <1>1, <1>2, <1>8, <2>3, <2>4, PowersOfPower
  <2>6. Congruent(Powers(w)[k], Powers(one)[zero], n)
    BY <2>3, <2>5
  <2> QED
    BY <2>2, <2>3, <2>6 DEF Congruent, one
<1>10. Powers(c)[g] = c * Powers(c)[m]
  <2>1. g = m + 1
    BY <1>3, <1>8
  <2> HIDE DEF m
  <2>2. Powers(c)[m + 1] = c * Powers(c)[m]
    BY <1>8, PowersAre
  <2> QED
    BY <2>1, <2>2
<1> DEFINE y == Powers(c)[m]
<1>11. y \in Int /\ Congruent(y, one, n) /\ Congruent(c, c, n) /\ c \in Int
  BY <1>8, <1>9 DEF Congruent
<1> HIDE DEF y, m
<1>12. Congruent(c * y, c * one, n)
  <2> HIDE DEF one
  <2> QED
    BY <1>1, <1>2, <1>11, CongruentProduct
<1>13. c * one = c
  OBVIOUS
<1> QED
  BY <1>10, <1>12, <1>13 DEF y, n
=============================================================================
