------------------------------ MODULE Recursion ------------------------------
(***************************************************************************)
(* Induction on numbers up to a bound, stated with sets, and what it gives *)
(* for recursive functions: that the function a recursive definition names *)
(* exists and satisfies its equation.                                      *)
(***************************************************************************)
EXTENDS Integers, FiniteSets, FiniteSetTheorems, WellFoundedInduction, TLAPS

-----------------------------------------------------------------------------
(* A nonempty set of numbers up to n has a least element: its initial      *)
(* segments are ordered by strict inclusion.                               *)
LEMMA Least ==
  ASSUME NEW n \in Nat, NEW S \in SUBSET (0..n), S # {}
  PROVE  \E m \in S : \A q \in S : m <= q
<1> DEFINE Upto(r) == {q \in S : q <= r}
<1> DEFINE T == {Upto(r) : r \in S}
<1>1. IsWellFoundedOn(StrictSubsetOrdering(0..n), SUBSET (0..n))
  <2>1. IsFiniteSet(0..n)
    BY FS_Interval
  <2> QED
    BY <2>1, FS_FiniteSubsetsOfFinite, FS_StrictSubsetOrderingWellFounded
<1>2. T \subseteq SUBSET (0..n) /\ T # {}
  OBVIOUS
<1>3. PICK U \in T : \A V \in T : ~(<<V, U>> \in StrictSubsetOrdering(0..n))
  <2> HIDE DEF T
  <2> QED
    BY <1>1, <1>2, WFMin
<1>4. PICK r \in S : U = Upto(r)
  OBVIOUS
<1>5. ASSUME NEW q \in S PROVE r <= q
  <2> SUFFICES ASSUME q < r PROVE FALSE
    OBVIOUS
  <2>1. \A x \in S : x \in Int
    OBVIOUS
  <2>2. ASSUME NEW x \in Upto(q) PROVE x \in Upto(r)
    <3>1. x \in S /\ x <= q /\ x \in Int /\ q \in Int /\ r \in Int
      BY <2>1
    <3> QED
      BY <3>1
  <2>3. r \in Upto(r) /\ r \notin Upto(q)
    BY <2>1
  <2>4. Upto(q) \in SUBSET (0..n) /\ Upto(r) \in SUBSET (0..n) /\ Upto(q) \in T
    OBVIOUS
  <2> HIDE DEF Upto, T
  <2>5. <<Upto(q), Upto(r)>> \in StrictSubsetOrdering(0..n)
    BY <2>2, <2>3, <2>4 DEF StrictSubsetOrdering
  <2> QED
    BY <2>4, <2>5, <1>3, <1>4
<1> QED
  BY <1>5

(* Induction up to m: a set with 0 and every successor below m holds all.  *)
LEMMA UpTo ==
  ASSUME NEW m \in Nat, NEW S, 0 \in S,
         \A k \in 1..m : k - 1 \in S => k \in S
  PROVE  \A k \in 0..m : k \in S
<1> DEFINE Out == {k \in 0..m : k \notin S}
<1> SUFFICES ASSUME Out # {} PROVE FALSE
  OBVIOUS
<1>1. Out \in SUBSET (0..m)
  OBVIOUS
<1>2. PICK k \in Out : \A q \in Out : k <= q
  <2> HIDE DEF Out
  <2> QED
    BY <1>1, Least
<1>3. k \in 1..m
  OBVIOUS
<1>4. k - 1 \notin Out
  BY <1>2, <1>3
<1> QED
  BY <1>3, <1>4

(* The same downwards, from m.                                             *)
LEMMA DownFrom ==
  ASSUME NEW m \in Nat, NEW S, m \in S,
         \A k \in 1..m : k \in S => k - 1 \in S
  PROVE  \A k \in 0..m : k \in S
<1> DEFINE R == {k \in 0..m : m - k \in S}
<1>1. 0 \in R
  OBVIOUS
<1>2. \A k \in 1..m : k - 1 \in R => k \in R
  <2> SUFFICES ASSUME NEW k \in 1..m, k - 1 \in R PROVE k \in R
    OBVIOUS
  <2>1. m - (k - 1) \in 1..m /\ m - (k - 1) \in S
    OBVIOUS
  <2>2. m - (k - 1) - 1 \in S
    BY <2>1
  <2>3. m - (k - 1) - 1 = m - k
    OBVIOUS
  <2> QED
    BY <2>2, <2>3
<1>3. \A k \in 0..m : k \in R
  <2> HIDE DEF R
  <2> QED
    BY <1>1, <1>2, UpTo
<1> QED
  <2> SUFFICES ASSUME NEW k \in 0..m PROVE k \in S
    OBVIOUS
  <2>1. m - k \in 0..m /\ m - (m - k) = k
    OBVIOUS
  <2> QED
    BY <1>3, <2>1

(* r holds the first m + 1 elements of the orbit of b under next, as the   *)
(* recursive function r[k] == next[r[k - 1]] does.                         *)
Orbit(next, b, m, r) == r[0] = b /\ \A k \in 1..m : r[k] = next[r[k - 1]]

(* Such a function exists.                                                 *)
LEMMA OrbitExists ==
  ASSUME NEW A, NEW next \in [A -> A], NEW b \in A, NEW m \in Nat
  PROVE  \E r \in [0..m -> A] : Orbit(next, b, m, r)
<1> DEFINE IsOrbit(r, j) == r[0] = b /\ \A k \in 1..j : r[k] = next[r[k - 1]]
<1> DEFINE S == {j \in 0..m : \E r \in [0..j -> A] : IsOrbit(r, j)}
<1>1. 0 \in S
  <2>1. [k \in 0..0 |-> b] \in [0..0 -> A] /\ IsOrbit([k \in 0..0 |-> b], 0)
    OBVIOUS
  <2>2. \E r \in [0..0 -> A] : IsOrbit(r, 0)
    <3> HIDE DEF IsOrbit
    <3> QED
      BY <2>1
  <2> QED
    BY <2>2
<1>2. \A j \in 1..m : j - 1 \in S => j \in S
  <2> SUFFICES ASSUME NEW j \in 1..m, j - 1 \in S PROVE j \in S
    OBVIOUS
  <2>1. PICK r \in [0..j - 1 -> A] : IsOrbit(r, j - 1)
    OBVIOUS
  <2> DEFINE s == [k \in 0..j |-> IF k = j THEN next[r[j - 1]] ELSE r[k]]
  <2>2. s \in [0..j -> A]
    OBVIOUS
  <2>3. IsOrbit(s, j)
    <3>1. s[0] = b
      BY <2>1
    <3>2. ASSUME NEW k \in 1..j PROVE s[k] = next[s[k - 1]]
      <4>1. k \in 0..j /\ k - 1 \in 0..j /\ k - 1 # j
        OBVIOUS
      <4>2. CASE k = j
        BY <4>1, <4>2
      <4>3. CASE k # j
        <5>1. k \in 1..j - 1
          BY <4>3
        <5> QED
          BY <2>1, <4>1, <4>3, <5>1
      <4> QED
        BY <4>2, <4>3
    <3> QED
      BY <3>1, <3>2
  <2>4. \E u \in [0..j -> A] : IsOrbit(u, j)
    <3> HIDE DEF IsOrbit, s
    <3> QED
      BY <2>2, <2>3
  <2> QED
    BY <2>4
<1>3. m \in S
  <2>1. \A k \in 0..m : k \in S
    <3> HIDE DEF S
    <3> QED
      BY <1>1, <1>2, UpTo
  <2> QED
    BY <2>1
<1> QED
  BY <1>3 DEF Orbit
-----------------------------------------------------------------------------
(* Links that climb: a rank falls from c to p[c], so that climbing from    *)
(* anywhere reaches an element of stop.                                    *)
Falls(A, stop, p, h) == \A c \in A \ stop : p[c] \in A /\ h[p[c]] < h[c]
Climbs(A, stop, p) == \E m \in Nat : \E h \in [A -> 0..m] : Falls(A, stop, p, h)

(* u is the function that is base where climbing stops and step elsewhere. *)
Solves(A, stop, p, base, step, u) ==
  \A c \in A : /\ c \in stop => u[c] = base[c]
               /\ c \notin stop => u[c] = step[c][u[p[c]]]

(* What holds where climbing stops, and one link below where it holds,     *)
(* holds everywhere.                                                       *)
LEMMA ClimbInduction ==
  ASSUME NEW A, NEW stop, NEW p, Climbs(A, stop, p),
         NEW T, \A c \in A : (c \in stop \/ p[c] \in T) => c \in T
  PROVE  \A c \in A : c \in T
<1>m. PICK m \in Nat : \E h \in [A -> 0..m] : Falls(A, stop, p, h)
  BY DEF Climbs
<1>h. PICK h \in [A -> 0..m] : Falls(A, stop, p, h)
  BY <1>m
<1> DEFINE Low == {k \in 0..m : \E c \in A : c \notin T /\ h[c] = k}
<1> SUFFICES ASSUME NEW d \in A, d \notin T PROVE FALSE
  OBVIOUS
<1>1. Low \in SUBSET (0..m) /\ Low # {}
  OBVIOUS
<1>2. PICK k \in Low : \A q \in Low : k <= q
  <2> HIDE DEF Low
  <2> QED
    BY <1>1, Least
<1>3. PICK c \in A : c \notin T /\ h[c] = k
  OBVIOUS
<1>4. c \notin stop /\ p[c] \notin T
  BY <1>3
<1>5. p[c] \in A /\ h[p[c]] < h[c]
  BY <1>h, <1>4 DEF Falls
<1>6. h[p[c]] \in Low
  BY <1>4, <1>5
<1> QED
  BY <1>2, <1>3, <1>5, <1>6

(* The recursive function that climbs exists.                              *)
LEMMA ClimbRecursion ==
  ASSUME NEW A, NEW stop, NEW p, Climbs(A, stop, p),
         NEW V, NEW base \in [A -> V], NEW step \in [A -> [V -> V]]
  PROVE  \E u \in [A -> V] : Solves(A, stop, p, base, step, u)
<1>m. PICK m \in Nat : \E h \in [A -> 0..m] : Falls(A, stop, p, h)
  BY DEF Climbs
<1>h. PICK h \in [A -> 0..m] : Falls(A, stop, p, h)
  BY <1>m
<1> DEFINE Eq(u, c) == u[c] = IF c \in stop THEN base[c] ELSE step[c][u[p[c]]]
<1> DEFINE S == {k \in 0..m : \E u \in [A -> V] : \A c \in A : h[c] <= k => Eq(u, c)}
<1>1. 0 \in S
  <2>1. ASSUME NEW c \in A, h[c] <= 0 PROVE Eq(base, c)
    <3>1. c \in stop
      BY <1>h, <2>1 DEF Falls
    <3> QED
      BY <3>1
  <2>2. \E u \in [A -> V] : \A c \in A : h[c] <= 0 => Eq(u, c)
    <3> HIDE DEF Eq
    <3> QED
      BY <2>1
  <2> QED
    BY <2>2
<1>2. \A k \in 1..m : k - 1 \in S => k \in S
  <2> SUFFICES ASSUME NEW k \in 1..m, k - 1 \in S PROVE k \in S
    OBVIOUS
  <2>1. PICK u \in [A -> V] : \A c \in A : h[c] <= k - 1 => Eq(u, c)
    OBVIOUS
  <2> DEFINE v == [c \in A |-> IF h[c] < k THEN u[c]
                               ELSE IF c \in stop THEN base[c] ELSE step[c][u[p[c]]]]
  <2>2. v \in [A -> V]
    <3> SUFFICES ASSUME NEW c \in A PROVE v[c] \in V
      OBVIOUS
    <3>1. c \notin stop => u[p[c]] \in V
      BY <1>h DEF Falls
    <3>2. c \notin stop => step[c][u[p[c]]] \in V
      BY <3>1
    <3> QED
      BY <3>2
  <2>3. ASSUME NEW c \in A, h[c] <= k PROVE Eq(v, c)
    <3>1. c \notin stop => v[p[c]] = u[p[c]]
      BY <1>h, <2>3 DEF Falls
    <3>2. CASE h[c] < k
      <4>1. Eq(u, c) /\ v[c] = u[c]
        BY <2>1, <3>2
      <4> QED
        BY <3>1, <4>1
    <3>3. CASE h[c] = k
      <4>1. v[c] = IF c \in stop THEN base[c] ELSE step[c][u[p[c]]]
        BY <3>3
      <4> QED
        BY <3>1, <4>1
    <3>4. h[c] < k \/ h[c] = k
      <4>1. h[c] \in Int /\ k \in Int
        OBVIOUS
      <4>2. h[c] <= k
        BY <2>3
      <4>3. \A a, b \in Int : a <= b => a < b \/ a = b
        OBVIOUS
      <4> QED
        BY <4>1, <4>2, <4>3, Zenon
    <3> HIDE DEF Eq, v
    <3> QED
      BY <3>2, <3>3, <3>4
  <2>4. \E w \in [A -> V] : \A c \in A : h[c] <= k => Eq(w, c)
    <3> HIDE DEF Eq, v
    <3> QED
      BY <2>2, <2>3
  <2> QED
    BY <2>4
<1>3. m \in S
  <2>1. \A k \in 0..m : k \in S
    <3> HIDE DEF S
    <3> QED
      BY <1>1, <1>2, UpTo
  <2> QED
    BY <2>1
<1>4. PICK u \in [A -> V] : \A c \in A : h[c] <= m => Eq(u, c)
  BY <1>3
<1> QED
  BY <1>4 DEF Solves
(* f starts with base and goes on by steps.                                *)
Recurs(m, base, step, f) == f[0] = base /\ \A k \in 1..m : f[k] = step[k][f[k - 1]]

(* A function defined by recursion on the number before exists.            *)
LEMMA StepRecursion ==
  ASSUME NEW m \in Nat, NEW V, NEW base \in V, NEW step \in [1..m -> [V -> V]]
  PROVE  \E f \in [0..m -> V] : Recurs(m, base, step, f)
<1> DEFINE N == 0..m
<1> DEFINE down == [k \in N |-> k - 1]
<1> DEFINE first == [k \in N |-> base]
<1> DEFINE next == [k \in N |-> IF k = 0 THEN [v \in V |-> v] ELSE step[k]]
<1>1. Climbs(N, {0}, down)
  <2>1. Falls(N, {0}, down, [k \in N |-> k])
    BY DEF Falls
  <2>2. [k \in N |-> k] \in [N -> 0..m]
    OBVIOUS
  <2>3. \E h \in [N -> 0..m] : Falls(N, {0}, down, h)
    <3> HIDE DEF N, down
    <3> QED
      BY <2>1, <2>2
  <2> HIDE DEF N, down
  <2> QED
    BY <2>3 DEF Climbs
<1>2. first \in [N -> V]
  OBVIOUS
<1>3. next \in [N -> [V -> V]]
  <2>1. ASSUME NEW k \in N PROVE next[k] \in [V -> V]
    <3>1. k # 0 => k \in 1..m
      OBVIOUS
    <3> QED
      BY <3>1
  <2> QED
    BY <2>1
<1>4. PICK f \in [N -> V] : Solves(N, {0}, down, first, next, f)
  <2> HIDE DEF N, down, first, next
  <2> QED
    BY <1>1, <1>2, <1>3, ClimbRecursion
<1>5. f[0] = base
  <2>1. 0 \in N /\ 0 \in {0}
    OBVIOUS
  <2>2. f[0] = first[0]
    <3> HIDE DEF N, down, first, next
    <3> QED
      BY <1>4, <2>1 DEF Solves
  <2> QED
    BY <2>2
<1>6. ASSUME NEW k \in 1..m PROVE f[k] = step[k][f[k - 1]]
  <2>1. k \in N /\ k \notin {0} /\ down[k] = k - 1 /\ next[k] = step[k]
    OBVIOUS
  <2>2. f[k] = next[k][f[down[k]]]
    <3> HIDE DEF N, down, first, next
    <3> QED
      BY <1>4, <2>1 DEF Solves
  <2> HIDE DEF down, first, next
  <2> QED
    BY <2>1, <2>2
<1> QED
  BY <1>5, <1>6 DEF Recurs
=============================================================================
