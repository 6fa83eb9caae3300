---------------------------- MODULE MiddleProofs ----------------------------
(***************************************************************************)
(* Proofs about the renaming of SSA construction (ssa.c), for every        *)
(* function and every free list: the stacks of names stay apart, and a     *)
(* temporary whose stack is asked for has one.                             *)
(***************************************************************************)
EXTENDS Middle, Recursion

-----------------------------------------------------------------------------
(* Dominance orders the blocks.                                            *)
Incoming(g) ==
  /\ g \in Programs /\ Ids(g) # {}
  /\ \A b \in Ids(g) :
       /\ Succ(g, b) \subseteq Ids(g) \ {1}
       /\ b # 1 => \E a \in 1..b - 1 : b \in Succ(g, a)

LEMMA IdsAre ==
  ASSUME NEW g, g \in Programs
  PROVE  Len(g.blk) \in Nat /\ Ids(g) = 1..Len(g.blk)
BY DEF Programs, Ids

(* Every block is reached from the start.                                  *)
LEMMA AllReached ==
  ASSUME NEW g, Incoming(g), NEW S, 1 \in S, \A b \in S : b \in Ids(g) /\ Succ(g, b) \subseteq S
  PROVE  Ids(g) \subseteq S
<1> DEFINE n == Len(g.blk)
<1> DEFINE T == {k \in 0..n : \A b \in 1..k : b \in S}
<1>1. n \in Nat /\ Ids(g) = 1..n
  BY IdsAre DEF Incoming
<1>2. 0 \in T
  BY <1>1
<1>3. ASSUME NEW k \in 1..n, k - 1 \in T PROVE k \in T
  <2>1. \A b \in 1..k - 1 : b \in S
    BY <1>3
  <2>2. k \in S
    <3>1. CASE k = 1
      BY <3>1
    <3>2. CASE k # 1
      <4>1. PICK a \in 1..k - 1 : k \in Succ(g, a)
        BY <1>1, <3>2 DEF Incoming
      <4> QED
        BY <4>1, <2>1
    <3> QED
      BY <3>1, <3>2
  <2>3. \A b \in 1..k : b \in 1..k - 1 \/ b = k
    BY <1>1
  <2> QED
    BY <1>1, <2>1, <2>2, <2>3
<1> HIDE DEF T, n
<1>4. \A k \in 0..n : k \in T
  BY <1>1, <1>2, <1>3, UpTo
<1>5. n \in T
  BY <1>1, <1>4
<1> QED
  BY <1>1, <1>5 DEF T

(* What the renaming needs to know of it.                                  *)
Ordered(B, d) ==
  /\ 1 \in B /\ d[1] = B
  /\ \A a \in B : d[a] \subseteq B /\ a \in d[a]
  /\ \A a, b, c \in B : b \in d[a] /\ c \in d[b] => c \in d[a]
  /\ \A a, b \in B : b \in d[a] /\ a \in d[b] => a = b

LEMMA DomTransitive ==
  ASSUME NEW g, Incoming(g), NEW a \in Ids(g), NEW b \in Ids(g), NEW c \in Ids(g),
         Dom(g, a, b), Dom(g, b, c)
  PROVE  Dom(g, a, c)
<1> SUFFICES ASSUME a # b, a # 1, b # c PROVE Dom(g, a, c)
  BY DEF Dom
<1>1. PICK S \in SUBSET Ids(g) : Closed(g, S, a) /\ b \notin S
  BY DEF Dom
<1>2. b # 1
  BY <1>1 DEF Closed
<1>3. PICK T \in SUBSET Ids(g) : Closed(g, T, b) /\ c \notin T
  BY <1>2 DEF Dom
<1>4. Closed(g, S \cap T, a)
  BY <1>1, <1>3 DEF Closed
<1>5. S \cap T \in SUBSET Ids(g) /\ c \notin S \cap T
  BY <1>3
<1> QED
  BY <1>4, <1>5 DEF Dom

LEMMA DomAntisymmetric ==
  ASSUME NEW g, Incoming(g), NEW a \in Ids(g), NEW b \in Ids(g), Dom(g, a, b), Dom(g, b, a)
  PROVE  a = b
<1> SUFFICES ASSUME a # b PROVE FALSE
  OBVIOUS
<1>1. a # 1 /\ b # 1
  BY DEF Dom, Closed
<1>2. PICK S \in SUBSET Ids(g) : Closed(g, S, a) /\ b \notin S
  BY <1>1 DEF Dom
<1>3. PICK T \in SUBSET Ids(g) : Closed(g, T, b) /\ a \notin T
  BY <1>1 DEF Dom
<1>4. \A x \in S \cap T : Succ(g, x) \subseteq S \cap T
  BY <1>2, <1>3 DEF Closed
<1>5. 1 \in S \cap T
  BY <1>2, <1>3 DEF Closed
<1> DEFINE U == S \cap T
<1>6. \A x \in U : x \in Ids(g) /\ Succ(g, x) \subseteq U
  BY <1>4
<1>7. 1 \in U /\ a \notin U
  BY <1>3, <1>5
<1> HIDE DEF U
<1>8. Ids(g) \subseteq U
  BY <1>6, <1>7, AllReached
<1> QED
  BY <1>7, <1>8

LEMMA DomsOrder ==
  ASSUME NEW g, Incoming(g)
  PROVE  Ordered(Ids(g), Doms(g))
<1>1. 1 \in Ids(g)
  <2>1. Len(g.blk) \in Nat /\ Ids(g) = 1..Len(g.blk) /\ Ids(g) # {}
    BY IdsAre DEF Incoming
  <2> QED
    BY <2>1
<1>2. \A a \in Ids(g) : Doms(g)[a] = {b \in Ids(g) : Dom(g, a, b)}
  BY DEF Doms
<1>3. Doms(g)[1] = Ids(g)
  BY <1>1, <1>2 DEF Dom
<1>4. \A a \in Ids(g) : Doms(g)[a] \subseteq Ids(g) /\ a \in Doms(g)[a]
  BY <1>2 DEF Dom
<1>5. ASSUME NEW a \in Ids(g), NEW b \in Ids(g), NEW c \in Ids(g), b \in Doms(g)[a], c \in Doms(g)[b]
      PROVE  c \in Doms(g)[a]
  BY <1>2, <1>5, DomTransitive
<1>6. ASSUME NEW a \in Ids(g), NEW b \in Ids(g), b \in Doms(g)[a], a \in Doms(g)[b] PROVE a = b
  BY <1>2, <1>6, DomAntisymmetric
<1> QED
  BY <1>1, <1>3, <1>4, <1>5, <1>6 DEF Ordered

-----------------------------------------------------------------------------
(* The children of a block in the tree of dominators.                      *)
LEMMA KidsExist ==
  ASSUME NEW g, Len(g.blk) \in Nat, NEW d, NEW b
  PROVE  \E f : /\ Kids(g, d, b) = f[Len(g.blk)] /\ f[0] = <<>>
                /\ \A k \in 1..Len(g.blk) : f[k] = IF Kid(g, d, b, k) THEN <<k>> \o f[k - 1] ELSE f[k - 1]
<1> DEFINE m == Len(g.blk)
<1> DEFINE After(k, s) == IF Kid(g, d, b, k) THEN <<k>> \o s ELSE s
<1> DEFINE Is(h, j) == h = [k \in 0..j |-> IF k = 0 THEN <<>> ELSE After(k, h[k - 1])]
<1> DEFINE T == {j \in 0..m : \E h : Is(h, j)}
<1>n. m \in Nat
  OBVIOUS
<1> HIDE DEF After, m
<1>1. 0 \in T
  <2>1. Is([k \in 0..0 |-> <<>>], 0)
    OBVIOUS
  <2> HIDE DEF Is
  <2> QED
    BY <2>1, <1>n
<1>2. ASSUME NEW j \in 1..m, j - 1 \in T PROVE j \in T
  <2>1. PICK f : Is(f, j - 1)
    BY <1>2
  <2> DEFINE e == [k \in 0..j |-> IF k = j THEN After(j, f[j - 1]) ELSE f[k]]
  <2>2. \A k \in 0..j - 1 : f[k] = IF k = 0 THEN <<>> ELSE After(k, f[k - 1])
    BY <2>1
  <2>3. \A k \in 1..j : e[k - 1] = f[k - 1]
    BY <1>n
  <2>4. \A k \in 0..j : e[k] = IF k = 0 THEN <<>> ELSE After(k, e[k - 1])
    BY <2>2, <2>3, <1>n
  <2>5. Is(e, j)
    BY <2>4
  <2> HIDE DEF Is, e
  <2> QED
    BY <2>5
<1> HIDE DEF T
<1>3. \A j \in 0..m : j \in T
  BY <1>n, <1>1, <1>2, UpTo
<1>4. m \in T
  BY <1>n, <1>3
<1>5. PICK f : Is(f, m)
  BY <1>4 DEF T
<1> DEFINE l == CHOOSE h : Is(h, m)
<1>6. Is(l, m)
  BY <1>5
<1>7. Kids(g, d, b) = l[m]
  BY DEF Kids, After, m
<1>8. l[0] = <<>> /\ \A k \in 1..m : l[k] = After(k, l[k - 1])
  <2> HIDE DEF l
  <2> QED
    BY <1>6, <1>n
<1> HIDE DEF l
<1> QED
  BY <1>7, <1>8 DEF After, m

(* Kids lists them, each once.                                             *)
LEMMA KidsAre ==
  ASSUME NEW g, g \in Programs, NEW d, NEW b
  PROVE  /\ Kids(g, d, b) \in Seq(Ids(g))
         /\ \A i \in DOMAIN Kids(g, d, b) : Kid(g, d, b, Kids(g, d, b)[i])
         /\ \A i, j \in DOMAIN Kids(g, d, b) : i # j => Kids(g, d, b)[i] # Kids(g, d, b)[j]
<1> DEFINE n == Len(g.blk)
<1>n. n \in Nat /\ Ids(g) = 1..n
  BY IdsAre
<1>1. PICK f : /\ Kids(g, d, b) = f[n] /\ f[0] = <<>>
               /\ \A k \in 1..n : f[k] = IF Kid(g, d, b, k) THEN <<k>> \o f[k - 1] ELSE f[k - 1]
  BY <1>n, KidsExist
<1> DEFINE Lists(s, k) == /\ s \in Seq(1..k)
                          /\ \A i \in DOMAIN s : Kid(g, d, b, s[i])
                          /\ \A i, j \in DOMAIN s : i # j => s[i] # s[j]
<1> DEFINE T == {k \in 0..n : Lists(f[k], k)}
<1> HIDE DEF n
<1>2. 0 \in T
  <2>1. Lists(<<>>, 0)
    OBVIOUS
  <2> HIDE DEF Lists
  <2> QED
    BY <2>1, <1>1, <1>n
<1>3. ASSUME NEW k \in 1..n, k - 1 \in T PROVE k \in T
  <2> DEFINE s == f[k - 1]
  <2>1. Lists(s, k - 1)
    BY <1>3
  <2> HIDE DEF s
  <2>2. s \in Seq(1..k)
    <3>1. \A i \in 1..Len(s) : s[i] \in 1..k
      BY <2>1, <1>n
    <3> QED
      BY <2>1, <3>1
  <2>3. Lists(s, k)
    BY <2>1, <2>2
  <2>4. ASSUME Kid(g, d, b, k) PROVE Lists(<<k>> \o s, k)
    <3> DEFINE e == <<k>> \o s
    <3>1. e \in Seq(1..k) /\ Len(e) = Len(s) + 1 /\ e[1] = k
      BY <2>2, <1>n
    <3>2. \A i \in 2..Len(e) : e[i] = s[i - 1] /\ i - 1 \in DOMAIN s
      BY <2>2, <1>n
    <3> HIDE DEF e
    <3>3. \A i \in DOMAIN e : i = 1 \/ i \in 2..Len(e)
      BY <3>1
    <3>4. \A i \in DOMAIN e : Kid(g, d, b, e[i])
      BY <3>1, <3>2, <3>3, <2>1, <2>4
    <3>5. \A i \in 2..Len(e) : e[i] \in 1..k - 1
      BY <3>2, <2>1
    <3>6. ASSUME NEW i \in DOMAIN e, NEW j \in DOMAIN e, i # j PROVE e[i] # e[j]
      <4>1. CASE i = 1
        BY <4>1, <3>1, <3>3, <3>5, <3>6
      <4>2. CASE j = 1
        BY <4>2, <3>1, <3>3, <3>5, <3>6
      <4>3. CASE i # 1 /\ j # 1
        <5>1. i \in 2..Len(e) /\ j \in 2..Len(e)
          BY <3>3, <4>3
        <5>2. e[i] = s[i - 1] /\ e[j] = s[j - 1] /\ i - 1 \in DOMAIN s /\ j - 1 \in DOMAIN s /\ i - 1 # j - 1
          BY <3>2, <3>6, <5>1
        <5> QED
          BY <2>1, <5>2
      <4> QED
        BY <4>1, <4>2, <4>3
    <3>7. Lists(e, k)
      BY <3>1, <3>4, <3>6
    <3> QED
      BY <3>7 DEF e
  <2>5. f[k] = IF Kid(g, d, b, k) THEN <<k>> \o s ELSE s
    BY <1>1 DEF s
  <2> HIDE DEF Lists
  <2>6. Lists(f[k], k)
    BY <2>3, <2>4, <2>5
  <2>7. k \in 0..n
    BY <1>n
  <2> QED
    BY <2>6, <2>7
<1> HIDE DEF T
<1>4. \A k \in 0..n : k \in T
  BY <1>2, <1>3, <1>n, UpTo
<1>5. n \in T
  BY <1>n, <1>4
<1> QED
  BY <1>1, <1>5, <1>n DEF T

(* The blocks that wait to be renamed: none dominates another.             *)
Separate(d, ts) == \A i, k \in DOMAIN ts : i # k => ts[k] \notin d[ts[i]]

LEMMA NextSeparate ==
  ASSUME NEW g, g \in Programs, NEW d, Ordered(Ids(g), d),
         NEW ts \in Seq(Ids(g)), ts # <<>>, Separate(d, ts)
  PROVE  LET more == Kids(g, d, Head(ts)) \o Tail(ts)
         IN /\ more \in Seq(Ids(g)) /\ Separate(d, more)
            /\ \A i \in DOMAIN more : Head(ts) \notin d[more[i]]
            /\ \A i \in DOMAIN more : \E k \in DOMAIN ts : d[more[i]] \subseteq d[ts[k]]
<1> DEFINE b == Head(ts)
<1> DEFINE ks == Kids(g, d, b)
<1> DEFINE rest == Tail(ts)
<1> DEFINE more == ks \o rest
<1> DEFINE B == Ids(g)
<1>1. /\ ks \in Seq(B)
      /\ \A i \in DOMAIN ks : Kid(g, d, b, ks[i])
      /\ \A i, j \in DOMAIN ks : i # j => ks[i] # ks[j]
  BY KidsAre
<1>2. b \in B /\ b = ts[1] /\ 1 \in DOMAIN ts /\ rest \in Seq(B)
  OBVIOUS
<1>3. \A i \in DOMAIN rest : rest[i] = ts[i + 1] /\ i + 1 \in DOMAIN ts /\ i + 1 # 1
  OBVIOUS
<1>4. more \in Seq(B) /\ Len(more) = Len(ks) + Len(rest)
  BY <1>1, <1>2
<1>5. \A i \in DOMAIN more : \/ i \in DOMAIN ks /\ more[i] = ks[i]
                             \/ i - Len(ks) \in DOMAIN rest /\ more[i] = rest[i - Len(ks)]
  BY <1>1, <1>2
<1>o. /\ \A a \in B : d[a] \subseteq B /\ a \in d[a]
      /\ \A x, y, z \in B : y \in d[x] /\ z \in d[y] => z \in d[x]
      /\ \A x, y \in B : y \in d[x] /\ x \in d[y] => x = y
  BY DEF Ordered
<1> HIDE DEF ks, rest, more, b
(* Children against children, children against the rest.                   *)
<1>6. \A i \in DOMAIN ks : /\ ks[i] \in B /\ ks[i] # b /\ ks[i] \in d[b]
                           /\ \A a \in B \ {ks[i]} : ks[i] \in d[a] => b \in d[a]
  BY <1>1 DEF Kid, B
<1>7. \A i \in DOMAIN rest : rest[i] \in B /\ rest[i] \notin d[b] /\ b \notin d[rest[i]]
  BY <1>2, <1>3 DEF Separate
<1> HIDE DEF B
<1>8. ASSUME NEW i \in DOMAIN ks PROVE b \notin d[ks[i]]
  BY <1>2, <1>6, <1>o
<1>9. ASSUME NEW i \in DOMAIN ks, NEW k \in DOMAIN ks, i # k PROVE ks[k] \notin d[ks[i]]
  <2>1. ks[i] # ks[k]
    BY <1>1, <1>9
  <2>2. ks[k] \in d[ks[i]] => b \in d[ks[i]]
    BY <1>6, <2>1
  <2> QED
    BY <1>8, <2>2
<1>10. ASSUME NEW i \in DOMAIN ks, NEW k \in DOMAIN rest PROVE ks[i] \notin d[rest[k]] /\ rest[k] \notin d[ks[i]]
  <2>1. rest[k] # ks[i]
    BY <1>6, <1>7
  <2>2. ks[i] \notin d[rest[k]]
    BY <1>6, <1>7, <2>1
  <2>3. rest[k] \in d[ks[i]] => rest[k] \in d[b]
    BY <1>6, <1>7, <1>2, <1>o
  <2> QED
    BY <1>7, <2>2, <2>3
<1>11. ASSUME NEW i \in DOMAIN rest, NEW k \in DOMAIN rest, i # k PROVE rest[k] \notin d[rest[i]]
  <2>1. rest[i] = ts[i + 1] /\ rest[k] = ts[k + 1] /\ i + 1 \in DOMAIN ts /\ k + 1 \in DOMAIN ts
    BY <1>3
  <2>2. i \in Int /\ k \in Int
    BY <1>2
  <2>3. i + 1 # k + 1
    BY <2>2, <1>11
  <2> QED
    BY <2>1, <2>3 DEF Separate
<1>12. ASSUME NEW i \in DOMAIN more, NEW k \in DOMAIN more, i # k PROVE more[k] \notin d[more[i]]
  <2>1. i \in Int /\ k \in Int /\ Len(ks) \in Int
    BY <1>1, <1>4
  <2>2. i - Len(ks) # k - Len(ks)
    BY <2>1, <1>12
  <2> QED
    BY <1>5, <1>9, <1>10, <1>11, <1>12, <2>2
<1>13. \A i \in DOMAIN more : b \notin d[more[i]]
  BY <1>5, <1>7, <1>8
<1>14. ASSUME NEW i \in DOMAIN more PROVE \E k \in DOMAIN ts : d[more[i]] \subseteq d[ts[k]]
  <2>1. CASE i \in DOMAIN ks /\ more[i] = ks[i]
    <3>1. \A x \in d[ks[i]] : x \in d[b]
      BY <2>1, <1>2, <1>6, <1>o
    <3> QED
      BY <2>1, <3>1, <1>2
  <2>2. CASE i - Len(ks) \in DOMAIN rest /\ more[i] = rest[i - Len(ks)]
    BY <2>2, <1>3
  <2> QED
    BY <1>5, <2>1, <2>2
<1> QED
  BY <1>4, <1>12, <1>13, <1>14 DEF Separate, more, ks, rest, b, B

-----------------------------------------------------------------------------
(* Lists of cells that hang from the holders D: up links the N cells, ptr  *)
(* is where each holder starts.  Every cell has one owner, which the links *)
(* keep, and a rank that falls along them; no cell is linked to twice.     *)
Distinct(f, A) == \A m, q \in A : f[m] = f[q] => m = q
Hang(N, up, D, ptr, own, rank) ==
  /\ own \in [1..N -> D] /\ rank \in [1..N -> 1..N] /\ Distinct(rank, 1..N)
  /\ \A h \in D : ptr[h] # 0 => own[ptr[h]] = h /\ \A m \in 1..N : up[m] # ptr[h]
  /\ \A m \in 1..N : up[m] # 0 => own[up[m]] = own[m] /\ rank[up[m]] < rank[m]
  /\ \A m, q \in 1..N : up[m] # 0 /\ up[m] = up[q] => m = q
Linked(N, up, D, ptr) == /\ N \in Nat /\ up \in [1..N -> 0..N] /\ ptr \in [D -> 0..N]
                         /\ \E own, rank : Hang(N, up, D, ptr, own, rank)

(* A cell may be given the highest rank.                                   *)
Raised(N, rank, n) ==
  [m \in 1..N |-> IF m = n THEN N ELSE IF rank[m] > rank[n] THEN rank[m] - 1 ELSE rank[m]]
LEMMA RaisedIs ==
  ASSUME NEW N \in Nat, NEW rank \in [1..N -> 1..N], Distinct(rank, 1..N), NEW n \in 1..N
  PROVE  /\ Raised(N, rank, n) \in [1..N -> 1..N] /\ Distinct(Raised(N, rank, n), 1..N)
         /\ \A m \in 1..N : m # n => Raised(N, rank, n)[m] < Raised(N, rank, n)[n]
         /\ \A m, q \in 1..N : m # n /\ q # n /\ rank[m] < rank[q] =>
              Raised(N, rank, n)[m] < Raised(N, rank, n)[q]
<1> DEFINE r == Raised(N, rank, n)
<1>1. \A m \in 1..N : rank[m] \in 1..N /\ (m # n => rank[m] # rank[n])
  BY DEF Distinct
<1>2. /\ r[n] = N
      /\ \A m \in 1..N : m # n => r[m] = IF rank[m] > rank[n] THEN rank[m] - 1 ELSE rank[m]
  BY DEF Raised
<1>a. \A x, y \in 1..N : x # y => (IF x > y THEN x - 1 ELSE x) \in 1..N - 1
  OBVIOUS
<1>b. \A x, y, z \in 1..N : x # y /\ z # y /\ x < z =>
        (IF x > y THEN x - 1 ELSE x) < (IF z > y THEN z - 1 ELSE z)
  OBVIOUS
<1> HIDE DEF r
<1>3. ASSUME NEW m \in 1..N, m # n PROVE r[m] \in 1..N - 1
  <2>1. rank[m] \in 1..N /\ rank[n] \in 1..N /\ rank[m] # rank[n]
    BY <1>1, <1>3
  <2>2. (IF rank[m] > rank[n] THEN rank[m] - 1 ELSE rank[m]) \in 1..N - 1
    BY <2>1, <1>a
  <2> QED
    BY <2>2, <1>2, <1>3
<1>4. r \in [1..N -> 1..N]
  <2>1. \A m \in 1..N : r[m] \in 1..N
    <3> SUFFICES ASSUME NEW m \in 1..N PROVE r[m] \in 1..N
      OBVIOUS
    <3>1. 1..N - 1 \subseteq 1..N /\ N \in 1..N
      OBVIOUS
    <3> QED
      BY <3>1, <1>2, <1>3
  <2> QED
    BY <2>1 DEF Raised, r
<1>5. ASSUME NEW m \in 1..N, NEW q \in 1..N, m # n, q # n, rank[m] < rank[q] PROVE r[m] < r[q]
  <2>1. /\ rank[m] \in 1..N /\ rank[q] \in 1..N /\ rank[n] \in 1..N
        /\ rank[m] # rank[n] /\ rank[q] # rank[n]
    BY <1>1, <1>5
  <2>2. (IF rank[m] > rank[n] THEN rank[m] - 1 ELSE rank[m]) < (IF rank[q] > rank[n] THEN rank[q] - 1 ELSE rank[q])
    BY <2>1, <1>b, <1>5
  <2> QED
    BY <2>2, <1>2, <1>5
<1>6. ASSUME NEW m \in 1..N, NEW q \in 1..N, m # q PROVE r[m] # r[q]
  <2>1. CASE m = n \/ q = n
    <3>1. \A x \in 1..N - 1 : x # N
      OBVIOUS
    <3> QED
      BY <2>1, <3>1, <1>2, <1>3, <1>6
  <2>2. CASE m # n /\ q # n
    <3>1. rank[m] # rank[q] /\ rank[m] \in Int /\ rank[q] \in Int
      BY <1>6, <1>1 DEF Distinct
    <3>2. rank[m] < rank[q] \/ rank[q] < rank[m]
      BY <3>1
    <3>3. r[m] \in Int /\ r[q] \in Int
      <4>1. 1..N - 1 \subseteq Int
        OBVIOUS
      <4> QED
        BY <4>1, <1>3, <2>2
    <3>4. r[m] < r[q] \/ r[q] < r[m]
      BY <2>2, <3>2, <1>5
    <3> QED
      BY <3>3, <3>4
  <2> QED
    BY <2>1, <2>2
<1>7. \A m \in 1..N : m # n => r[m] < r[n]
  <2>1. \A x \in 1..N - 1 : x < N
    OBVIOUS
  <2> QED
    BY <2>1, <1>2, <1>3
<1>8. Distinct(r, 1..N)
  BY <1>6 DEF Distinct
<1> QED
  BY <1>4, <1>5, <1>7, <1>8 DEF r

(* The first cell of a moves to the front of b.                            *)
LEMMA MoveLinked ==
  ASSUME NEW N, NEW up, NEW D, NEW ptr, Linked(N, up, D, ptr),
         NEW a \in D, NEW b \in D, a # b, ptr[a] # 0
  PROVE  Linked(N, [up EXCEPT ![ptr[a]] = ptr[b]], D, [ptr EXCEPT ![a] = up[ptr[a]], ![b] = ptr[a]])
<1> DEFINE n == ptr[a]
<1> DEFINE up1 == [up EXCEPT ![n] = ptr[b]]
<1> DEFINE ptr1 == [ptr EXCEPT ![a] = up[n], ![b] = n]
<1>1. N \in Nat /\ up \in [1..N -> 0..N] /\ ptr \in [D -> 0..N]
  BY DEF Linked
<1>2. PICK own, rank : Hang(N, up, D, ptr, own, rank)
  BY DEF Linked
<1>3. n \in 1..N /\ ptr[b] \in 0..N /\ up[n] \in 0..N
  BY <1>1
<1> DEFINE own1 == [own EXCEPT ![n] = b]
<1> DEFINE r == Raised(N, rank, n)
<1>4. /\ own \in [1..N -> D] /\ rank \in [1..N -> 1..N] /\ Distinct(rank, 1..N)
      /\ \A h \in D : ptr[h] # 0 => own[ptr[h]] = h /\ \A m \in 1..N : up[m] # ptr[h]
      /\ \A m \in 1..N : up[m] # 0 => own[up[m]] = own[m] /\ rank[up[m]] < rank[m]
      /\ \A m, q \in 1..N : up[m] # 0 /\ up[m] = up[q] => m = q
  BY <1>2 DEF Hang
<1>5. /\ r \in [1..N -> 1..N] /\ Distinct(r, 1..N)
      /\ \A m \in 1..N : m # n => r[m] < r[n]
      /\ \A m, q \in 1..N : m # n /\ q # n /\ rank[m] < rank[q] => r[m] < r[q]
  BY <1>1, <1>3, <1>4, RaisedIs
<1>6. up1 \in [1..N -> 0..N] /\ up1[n] = ptr[b] /\ \A m \in 1..N : m # n => up1[m] = up[m]
  BY <1>1, <1>3
<1>7. /\ ptr1 \in [D -> 0..N] /\ ptr1[a] = up[n] /\ ptr1[b] = n
      /\ \A h \in D : h # a /\ h # b => ptr1[h] = ptr[h]
  BY <1>1, <1>3
<1>8. own1 \in [1..N -> D] /\ own1[n] = b /\ \A m \in 1..N : m # n => own1[m] = own[m]
  BY <1>3, <1>4
<1>9. own[n] = a /\ \A m \in 1..N : up[m] # n
  BY <1>3, <1>4
<1> HIDE DEF n, up1, ptr1, own1, r
<1>10. ASSUME NEW m \in 1..N, up1[m] # 0 PROVE own1[up1[m]] = own1[m] /\ r[up1[m]] < r[m]
  <2>1. CASE m = n
    <3>1. up1[m] = ptr[b] /\ ptr[b] \in 1..N /\ own[ptr[b]] = b
      BY <2>1, <1>3, <1>4, <1>6, <1>10
    <3>2. ptr[b] # n
      BY <3>1, <1>9
    <3> QED
      BY <2>1, <3>1, <3>2, <1>5, <1>8
  <2>2. CASE m # n
    <3>1. up1[m] = up[m] /\ up[m] \in 1..N /\ up[m] # n
      BY <2>2, <1>1, <1>6, <1>9, <1>10
    <3>2. own[up[m]] = own[m] /\ rank[up[m]] < rank[m]
      BY <3>1, <1>4
    <3> QED
      BY <2>2, <3>1, <3>2, <1>5, <1>8
  <2> QED
    BY <2>1, <2>2
<1>11. ASSUME NEW m \in 1..N, NEW q \in 1..N, up1[m] # 0, up1[m] = up1[q] PROVE m = q
  <2>1. CASE m = n /\ q # n
    <3>1. ptr[b] # 0 /\ up[q] = ptr[b]
      BY <2>1, <1>6, <1>11
    <3>2. up[q] # ptr[b]
      BY <3>1, <1>4
    <3> QED
      BY <3>1, <3>2
  <2>2. CASE m # n /\ q = n
    <3>1. ptr[b] # 0 /\ up[m] = ptr[b]
      BY <2>2, <1>6, <1>11
    <3>2. up[m] # ptr[b]
      BY <3>1, <1>4
    <3> QED
      BY <3>1, <3>2
  <2>3. CASE m # n /\ q # n
    <3>1. up[m] # 0 /\ up[m] = up[q]
      BY <2>3, <1>6, <1>11
    <3>2. \A i, k \in 1..N : up[i] # 0 /\ up[i] = up[k] => i = k
      BY <1>4
    <3> QED
      BY <3>1, <3>2
  <2> QED
    BY <2>1, <2>2, <2>3
<1>12. ASSUME NEW h \in D, ptr1[h] # 0 PROVE own1[ptr1[h]] = h /\ \A m \in 1..N : up1[m] # ptr1[h]
  <2>1. CASE h = b
    <3>1. ptr1[h] = n
      BY <2>1, <1>7
    <3>2. ptr[b] # n
      BY <1>4, <1>3, <1>9
    <3> QED
      BY <2>1, <3>1, <3>2, <1>6, <1>8, <1>9
  <2>2. CASE h = a
    <3>1. ptr1[h] = up[n] /\ up[n] \in 1..N /\ up[n] # n
      BY <2>2, <1>3, <1>7, <1>9, <1>12
    <3>2. own[up[n]] = a /\ \A m \in 1..N : m # n => up[m] # up[n]
      BY <3>1, <1>3, <1>4, <1>9
    <3>3. ptr[b] # up[n]
      BY <3>1, <1>3, <1>4
    <3> QED
      BY <2>2, <3>1, <3>2, <3>3, <1>6, <1>8
  <2>3. CASE h # a /\ h # b
    <3>0. ptr1[h] = ptr[h] /\ ptr[h] \in 0..N /\ ptr[h] # 0
      BY <2>3, <1>1, <1>7, <1>12
    <3>p. ptr[h] \in 1..N
      BY <3>0, <1>1
    <3>q. own[ptr[h]] = h /\ \A m \in 1..N : up[m] # ptr[h]
      BY <3>0, <1>4
    <3>1. ptr1[h] = ptr[h] /\ ptr[h] \in 1..N /\ own[ptr[h]] = h /\ \A m \in 1..N : up[m] # ptr[h]
      BY <3>0, <3>p, <3>q
    <3>2. ptr[h] # n
      BY <2>3, <3>1, <1>9
    <3>3. ptr[b] # ptr[h]
      BY <2>3, <3>1, <1>4
    <3> QED
      BY <3>1, <3>2, <3>3, <1>6, <1>8
  <2> QED
    BY <2>1, <2>2, <2>3
<1>13. Hang(N, up1, D, ptr1, own1, r)
  BY <1>5, <1>8, <1>10, <1>11, <1>12 DEF Hang
<1>14. Linked(N, up1, D, ptr1)
  BY <1>1, <1>6, <1>7, <1>13 DEF Linked
<1> QED
  BY <1>14 DEF up1, ptr1, n

(* A new cell in front of a.                                               *)
LEMMA PushLinked ==
  ASSUME NEW N, NEW up, NEW D, NEW ptr, Linked(N, up, D, ptr), NEW a \in D
  PROVE  Linked(N + 1, [m \in 1..N + 1 |-> IF m = N + 1 THEN ptr[a] ELSE up[m]], D,
                [ptr EXCEPT ![a] = N + 1])
<1> DEFINE n == N + 1
<1> DEFINE up1 == [m \in 1..n |-> IF m = n THEN ptr[a] ELSE up[m]]
<1> DEFINE ptr1 == [ptr EXCEPT ![a] = n]
<1>1. N \in Nat /\ up \in [1..N -> 0..N] /\ ptr \in [D -> 0..N]
  BY DEF Linked
<1>2. PICK own, rank : Hang(N, up, D, ptr, own, rank)
  BY DEF Linked
<1>4. /\ own \in [1..N -> D] /\ rank \in [1..N -> 1..N] /\ Distinct(rank, 1..N)
      /\ \A h \in D : ptr[h] # 0 => own[ptr[h]] = h /\ \A m \in 1..N : up[m] # ptr[h]
      /\ \A m \in 1..N : up[m] # 0 => own[up[m]] = own[m] /\ rank[up[m]] < rank[m]
      /\ \A m, q \in 1..N : up[m] # 0 /\ up[m] = up[q] => m = q
  BY <1>2 DEF Hang
<1> DEFINE own1 == [m \in 1..n |-> IF m = n THEN a ELSE own[m]]
<1> DEFINE r == [m \in 1..n |-> IF m = n THEN n ELSE rank[m]]
<1>n. n \in Nat /\ n \notin 1..N /\ n # 0 /\ \A m \in 1..n : m \in 1..N \/ m = n
  BY <1>1
<1>3. \A m \in 1..N : m \in 1..n /\ m # n
  BY <1>1
<1>5. /\ up1 \in [1..n -> 0..n] /\ up1[n] = ptr[a] /\ \A m \in 1..N : up1[m] = up[m]
  BY <1>1, <1>3
<1>6. ptr1 \in [D -> 0..n] /\ ptr1[a] = n /\ \A h \in D : h # a => ptr1[h] = ptr[h]
  BY <1>1
<1>7. own1 \in [1..n -> D] /\ own1[n] = a /\ \A m \in 1..N : own1[m] = own[m]
  BY <1>1, <1>3, <1>4
<1>8. /\ r \in [1..n -> 1..n] /\ r[n] = n /\ \A m \in 1..N : r[m] = rank[m] /\ r[m] < n
  <2>1. \A m \in 1..N : rank[m] \in 1..n /\ rank[m] < n
    <3>1. \A x \in 1..N : x \in 1..n /\ x < n
      BY <1>1
    <3> QED
      BY <3>1, <1>4
  <2>2. \A m \in 1..n : r[m] \in 1..n
    <3>1. n \in 1..n
      BY <1>1
    <3> QED
      BY <2>1, <3>1, <1>n
  <2>3. \A m \in 1..N : r[m] = rank[m]
    BY <1>3
  <2>4. r \in [1..n -> 1..n] /\ r[n] = n
    BY <2>2, <1>1
  <2> HIDE DEF r, n
  <2> QED
    BY <2>1, <2>3, <2>4
<1>9. \A m \in 1..N : up[m] # n /\ up[m] \in 0..N
  BY <1>1
<1>10. \A h \in D : ptr[h] # n /\ ptr[h] \in 0..N
  BY <1>1
<1> HIDE DEF n, up1, ptr1, own1, r
<1>11. Distinct(r, 1..n)
  <2>1. ASSUME NEW m \in 1..n, NEW q \in 1..n, r[m] = r[q] PROVE m = q
    <3>1. CASE m = n \/ q = n
      BY <3>1, <2>1, <1>8, <1>n
    <3>2. CASE m \in 1..N /\ q \in 1..N
      BY <3>2, <2>1, <1>8, <1>4 DEF Distinct
    <3> QED
      BY <3>1, <3>2, <1>n
  <2> QED
    BY <2>1 DEF Distinct
<1>12. ASSUME NEW m \in 1..n, up1[m] # 0 PROVE own1[up1[m]] = own1[m] /\ r[up1[m]] < r[m]
  <2>1. CASE m = n
    <3>0. up1[m] = ptr[a] /\ ptr[a] \in 0..N /\ ptr[a] # 0
      BY <2>1, <1>1, <1>5, <1>12
    <3>p. ptr[a] \in 1..N
      BY <3>0, <1>1
    <3>q. own[ptr[a]] = a
      BY <3>0, <1>4
    <3>1. up1[m] = ptr[a] /\ ptr[a] \in 1..N /\ own[ptr[a]] = a
      BY <3>0, <3>p, <3>q
    <3> QED
      BY <2>1, <3>1, <1>7, <1>8
  <2>2. CASE m \in 1..N
    <3>1. up1[m] = up[m] /\ up[m] \in 1..N
      BY <2>2, <1>1, <1>5, <1>9, <1>12
    <3>2. own[up[m]] = own[m] /\ rank[up[m]] < rank[m]
      BY <2>2, <3>1, <1>4
    <3> QED
      BY <2>2, <3>1, <3>2, <1>7, <1>8
  <2> QED
    BY <2>1, <2>2, <1>n
<1>13. ASSUME NEW m \in 1..n, NEW q \in 1..n, up1[m] # 0, up1[m] = up1[q] PROVE m = q
  <2>1. CASE m = n /\ q \in 1..N
    BY <2>1, <1>4, <1>5, <1>13
  <2>2. CASE m \in 1..N /\ q = n
    BY <2>2, <1>4, <1>5, <1>13
  <2>3. CASE m \in 1..N /\ q \in 1..N
    BY <2>3, <1>4, <1>5, <1>13
  <2> QED
    BY <2>1, <2>2, <2>3, <1>n
<1>14. ASSUME NEW h \in D, ptr1[h] # 0 PROVE own1[ptr1[h]] = h /\ \A m \in 1..n : up1[m] # ptr1[h]
  <2>1. CASE h = a
    BY <2>1, <1>5, <1>6, <1>7, <1>9, <1>10, <1>n
  <2>2. CASE h # a
    <3>0. ptr1[h] = ptr[h] /\ ptr[h] \in 0..N /\ ptr[h] # 0
      BY <2>2, <1>1, <1>6, <1>14
    <3>p. ptr[h] \in 1..N
      BY <3>0, <1>1
    <3>q. own[ptr[h]] = h /\ \A m \in 1..N : up[m] # ptr[h]
      BY <3>0, <1>4
    <3>1. ptr1[h] = ptr[h] /\ ptr[h] \in 1..N /\ own[ptr[h]] = h /\ \A m \in 1..N : up[m] # ptr[h]
      BY <3>0, <3>p, <3>q
    <3>2. ptr[a] # ptr[h]
      BY <2>2, <3>1, <1>4
    <3> QED
      BY <3>1, <3>2, <1>5, <1>7, <1>n
  <2> QED
    BY <2>1, <2>2
<1>15. Hang(n, up1, D, ptr1, own1, r)
  BY <1>7, <1>8, <1>11, <1>12, <1>13, <1>14 DEF Hang
<1>16. Linked(n, up1, D, ptr1)
  BY <1>n, <1>5, <1>6, <1>15 DEF Linked
<1> QED
  BY <1>16 DEF up1, ptr1, n

-----------------------------------------------------------------------------
(* Following the links from a cell.                                        *)
LEMMA ClimbIs ==
  ASSUME NEW cell, Len(cell) \in Nat, NEW n
  PROVE  /\ DOMAIN Climb(cell, n) = 0..Len(cell) /\ Climb(cell, n)[0] = n
         /\ \A k \in 1..Len(cell) : Climb(cell, n)[k] = Above(cell, Climb(cell, n)[k - 1])
<1> DEFINE m == Len(cell)
<1> DEFINE After(k, s) == Above(cell, s)
<1> DEFINE Is(h, j) == h = [k \in 0..j |-> IF k = 0 THEN n ELSE After(k, h[k - 1])]
<1> DEFINE T == {j \in 0..m : \E h : Is(h, j)}
<1>n. m \in Nat
  OBVIOUS
<1> HIDE DEF After, m
<1>1. 0 \in T
  <2>1. Is([k \in 0..0 |-> n], 0)
    OBVIOUS
  <2> HIDE DEF Is
  <2> QED
    BY <2>1, <1>n
<1>2. ASSUME NEW j \in 1..m, j - 1 \in T PROVE j \in T
  <2>1. PICK f : Is(f, j - 1)
    BY <1>2
  <2> DEFINE e == [k \in 0..j |-> IF k = j THEN After(j, f[j - 1]) ELSE f[k]]
  <2>2. \A k \in 0..j - 1 : f[k] = IF k = 0 THEN n ELSE After(k, f[k - 1])
    BY <2>1
  <2>3. \A k \in 1..j : e[k - 1] = f[k - 1]
    BY <1>n
  <2>4. \A k \in 0..j : e[k] = IF k = 0 THEN n ELSE After(k, e[k - 1])
    BY <2>2, <2>3, <1>n
  <2>5. Is(e, j)
    BY <2>4
  <2> HIDE DEF Is, e
  <2> QED
    BY <2>5
<1> HIDE DEF T
<1>3. \A j \in 0..m : j \in T
  BY <1>n, <1>1, <1>2, UpTo
<1>4. m \in T
  BY <1>n, <1>3
<1>5. PICK f : Is(f, m)
  BY <1>4 DEF T
<1> DEFINE l == CHOOSE h : Is(h, m)
<1>6. Is(l, m)
  BY <1>5
<1>7. Climb(cell, n) = l
  BY DEF Climb, After, m
<1>8. DOMAIN l = 0..m /\ l[0] = n /\ \A k \in 1..m : l[k] = After(k, l[k - 1])
  <2> HIDE DEF l
  <2> QED
    BY <1>6, <1>n
<1> HIDE DEF l
<1> QED
  BY <1>7, <1>8 DEF After, m

(* A climb from a holder stays with its cells, one rank lower each time,   *)
(* and has ended when it has made as many steps as there are cells.        *)
Climbing(N, up, n, c) ==
  c[0] = n /\ \A k \in 1..N : c[k] = IF c[k - 1] = 0 THEN 0 ELSE up[c[k - 1]]
Owned(N, own, h, c) ==
  c[N] = 0 /\ \A k \in 0..N : c[k] \in 0..N /\ (c[k] # 0 => own[c[k]] = h)

LEMMA ClimbEnds ==
  ASSUME NEW N \in Nat, NEW up \in [1..N -> 0..N], NEW D, NEW ptr \in [D -> 0..N], NEW own, NEW rank,
         Hang(N, up, D, ptr, own, rank), NEW h \in D,
         NEW c, Climbing(N, up, ptr[h], c)
  PROVE  Owned(N, own, h, c)
<1>c. c[0] = ptr[h] /\ \A k \in 1..N : c[k] = IF c[k - 1] = 0 THEN 0 ELSE up[c[k - 1]]
  BY DEF Climbing
<1> DEFINE On(k) == c[k] \in 0..N /\ (c[k] # 0 => own[c[k]] = h /\ rank[c[k]] <= N - k)
<1> DEFINE T == {k \in 0..N : On(k)}
<1>h. /\ own \in [1..N -> D] /\ rank \in [1..N -> 1..N]
      /\ \A x \in D : ptr[x] # 0 => own[ptr[x]] = x
      /\ \A m \in 1..N : up[m] # 0 => own[up[m]] = own[m] /\ rank[up[m]] < rank[m]
  BY DEF Hang
<1>n. \A x \in 0..N : x # 0 => x \in 1..N
  OBVIOUS
<1>1. 0 \in T
  <2>1. On(0)
    <3>1. c[0] \in 0..N
      BY <1>c
    <3>2. ASSUME c[0] # 0 PROVE own[c[0]] = h /\ rank[c[0]] <= N
      <4>1. c[0] \in 1..N
        BY <3>1, <3>2, <1>n
      <4>2. own[c[0]] = h /\ rank[c[0]] \in 1..N
        BY <3>2, <4>1, <1>h, <1>c
      <4> QED
        BY <4>2
    <3> QED
      BY <3>1, <3>2
  <2> HIDE DEF On
  <2> QED
    BY <2>1
<1>2. ASSUME NEW k \in 1..N, k - 1 \in T PROVE k \in T
  <2>1. c[k - 1] \in 0..N /\ (c[k - 1] # 0 => own[c[k - 1]] = h /\ rank[c[k - 1]] <= N - (k - 1))
    BY <1>2
  <2>2. On(k)
    <3>1. CASE c[k - 1] = 0
      BY <3>1, <1>c
    <3>2. CASE c[k - 1] # 0
      <4>1. PICK m \in 1..N : m = c[k - 1]
        BY <2>1, <3>2, <1>n
      <4>2. c[k] = up[m] /\ up[m] \in 0..N
        BY <3>2, <4>1, <1>c
      <4>3. ASSUME c[k] # 0 PROVE own[c[k]] = h /\ rank[c[k]] <= N - k
        <5>1. up[m] # 0 /\ up[m] \in 1..N
          BY <4>2, <4>3, <1>n
        <5>2. own[up[m]] = own[m] /\ rank[up[m]] < rank[m] /\ rank[up[m]] \in Int /\ rank[m] \in Int
          BY <5>1, <1>h
        <5>3. own[m] = h /\ rank[m] <= N - (k - 1)
          BY <2>1, <3>2, <4>1
        <5>4. \A x, y \in Int : x < y /\ y <= N - (k - 1) => x <= N - k
          OBVIOUS
        <5>5. rank[up[m]] <= N - k
          BY <5>2, <5>3, <5>4
        <5> QED
          BY <4>2, <5>2, <5>3, <5>5
      <4> QED
        BY <4>2, <4>3
    <3> QED
      BY <3>1, <3>2
  <2>3. k \in 0..N
    OBVIOUS
  <2> HIDE DEF On
  <2> QED
    BY <2>2, <2>3
<1> HIDE DEF T
<1>3. \A k \in 0..N : k \in T
  BY <1>1, <1>2, UpTo
<1>4. \A k \in 0..N : c[k] \in 0..N /\ (c[k] # 0 => own[c[k]] = h /\ rank[c[k]] <= N - k)
  BY <1>3 DEF T
<1>5. c[N] = 0
  <2> SUFFICES ASSUME c[N] # 0 PROVE FALSE
    OBVIOUS
  <2>1. N \in 0..N
    OBVIOUS
  <2>2. c[N] \in 1..N /\ rank[c[N]] <= N - N
    BY <2>1, <1>4, <1>n
  <2>3. rank[c[N]] \in 1..N
    BY <2>2, <1>h
  <2> QED
    BY <2>2, <2>3
<1> QED
  BY <1>4, <1>5 DEF Owned

-----------------------------------------------------------------------------
(* The renamer.  The stacks and the free list (Free, no temporary has that *)
(* number) hold the cells.                                                 *)
Free == -1
Cells == [r : Int, b : Nat, up : Nat]
Holders(z) == DOMAIN z.stk \cup {Free}
Ptr(z) == [h \in Holders(z) |-> IF h = Free THEN z.namel ELSE z.stk[h]]
Links(z) == [m \in 1..Len(z.cell) |-> z.cell[m].up]
Stacks(z) ==
  /\ z = [p |-> z.p, visit |-> z.visit, cell |-> z.cell, namel |-> z.namel, stk |-> z.stk]
  /\ z.cell \in Seq(Cells) /\ z.namel \in Nat /\ z.stk \in [DOMAIN z.stk -> Nat]
  /\ DOMAIN z.stk \subseteq Nat
  /\ Linked(Len(z.cell), Links(z), Holders(z), Ptr(z))

Apart(z) ==
  LET tops == {z.stk[t] : t \in DOMAIN z.stk} \cup {z.namel}
  IN /\ \A n \in tops : Ends(z.cell, n)
     /\ \A t \in DOMAIN z.stk : Chain(z.cell, z.stk[t]) \cap Chain(z.cell, z.namel) = {}
     /\ \A t, u \in DOMAIN z.stk : t # u =>
          Chain(z.cell, z.stk[t]) \cap Chain(z.cell, z.stk[u]) = {}

(* Cells that hang so are apart.                                           *)
LEMMA StacksApart ==
  ASSUME NEW z, Stacks(z)
  PROVE  Apart(z)
<1> DEFINE N == Len(z.cell)
<1> DEFINE D == Holders(z)
<1> DEFINE up == Links(z)
<1> DEFINE ptr == Ptr(z)
<1>n. N \in Nat
  BY DEF Stacks
<1>1. up \in [1..N -> 0..N] /\ ptr \in [D -> 0..N]
  BY DEF Stacks, Linked
<1>2. PICK own, rank : Hang(N, up, D, ptr, own, rank)
  BY DEF Stacks, Linked
<1>3. ASSUME NEW h \in D
      PROVE  /\ Ends(z.cell, ptr[h])
             /\ \A m \in Chain(z.cell, ptr[h]) : own[m] = h
  <2> DEFINE c == Climb(z.cell, ptr[h])
  <2>1. /\ DOMAIN c = 0..N /\ c[0] = ptr[h]
        /\ \A k \in 1..N : c[k] = Above(z.cell, c[k - 1])
    BY <1>n, ClimbIs
  <2> HIDE DEF c, ptr, D
  <2> DEFINE T == {k \in 0..N : c[k] \in 0..N}
  <2>2. \A n \in 1..N : up[n] = z.cell[n].up
    BY DEF Links
  <2>3. 0 \in T
    BY <2>1, <1>1, <1>n
  <2>u. \A n \in 0..N : Above(z.cell, n) = (IF n = 0 THEN 0 ELSE up[n])
    <3>1. \A n \in 0..N : n # 0 => n \in 1..N
      BY <1>n
    <3> QED
      BY <3>1, <2>2 DEF Above
  <2> HIDE DEF up, N
  <2>4. ASSUME NEW k \in 1..N, k - 1 \in T PROVE k \in T
    <3>1. c[k] = Above(z.cell, c[k - 1]) /\ c[k - 1] \in 0..N /\ k \in 0..N
      BY <2>1, <2>4, <1>n
    <3>2. \A n \in 0..N : (IF n = 0 THEN 0 ELSE up[n]) \in 0..N
      <4>1. \A n \in 0..N : n # 0 => n \in 1..N
        BY <1>n
      <4>2. 0 \in 0..N
        BY <1>n
      <4> QED
        BY <4>1, <4>2, <1>1
    <3>3. c[k] \in 0..N
      BY <3>1, <3>2, <2>u
    <3> QED
      BY <3>1, <3>3
  <2> HIDE DEF T
  <2>5. \A k \in 0..N : k \in T
    BY <1>n, <2>3, <2>4, UpTo
  <2>6. \A k \in 1..N : c[k] = IF c[k - 1] = 0 THEN 0 ELSE up[c[k - 1]]
    <3> SUFFICES ASSUME NEW k \in 1..N PROVE c[k] = IF c[k - 1] = 0 THEN 0 ELSE up[c[k - 1]]
      OBVIOUS
    <3>0. k - 1 \in 0..N
      BY <1>n
    <3>1. c[k - 1] \in 0..N
      BY <3>0, <2>5 DEF T
    <3> QED
      BY <3>1, <2>1, <2>u
  <2>7. Owned(N, own, h, c)
    <3>1. Climbing(N, up, ptr[h], c)
      BY <2>1, <2>6 DEF Climbing
    <3>2. ptr \in [D -> 0..N] /\ up \in [1..N -> 0..N] /\ Hang(N, up, D, ptr, own, rank)
      BY <1>1, <1>2
    <3> QED
      BY <1>n, <3>1, <3>2, ClimbEnds
  <2>8. Ends(z.cell, ptr[h])
    BY <2>7 DEF Ends, c, N, Owned
  <2>9. Chain(z.cell, ptr[h]) = {c[k] : k \in 0..N} \ {0}
    BY <2>1 DEF Chain, Range, c
  <2> QED
    BY <2>7, <2>8, <2>9 DEF Owned
<1>4. ptr[Free] = z.namel /\ Free \in D /\ \A t \in DOMAIN z.stk : t \in D /\ t # Free /\ ptr[t] = z.stk[t]
  BY DEF Stacks, Ptr, Holders, Free
<1> HIDE DEF ptr, D, up, N
<1>5. ASSUME NEW h \in D, NEW g \in D, h # g PROVE Chain(z.cell, ptr[h]) \cap Chain(z.cell, ptr[g]) = {}
  BY <1>3, <1>5
<1>6. \A n \in {z.stk[t] : t \in DOMAIN z.stk} \cup {z.namel} : Ends(z.cell, n)
  BY <1>3, <1>4
<1>7. \A t \in DOMAIN z.stk : Chain(z.cell, z.stk[t]) \cap Chain(z.cell, z.namel) = {}
  BY <1>4, <1>5
<1>8. \A t, u \in DOMAIN z.stk : t # u => Chain(z.cell, z.stk[t]) \cap Chain(z.cell, z.stk[u]) = {}
  BY <1>4, <1>5
<1> QED
  BY <1>6, <1>7, <1>8 DEF Apart

(* What changes the stacks only.                                           *)
Restacked(z, y) == Stacks(y) /\ y.p = z.p /\ y.visit = z.visit /\ DOMAIN y.stk = DOMAIN z.stk

LEMMA StackRange ==
  ASSUME NEW z, Stacks(z)
  PROVE  /\ Len(z.cell) \in Nat /\ z.namel \in 0..Len(z.cell)
         /\ \A t \in DOMAIN z.stk : z.stk[t] \in 0..Len(z.cell) /\ t # Free
         /\ \A m \in 1..Len(z.cell) : z.cell[m] \in Cells /\ z.cell[m].up \in 0..Len(z.cell)
<1>1. /\ Links(z) \in [1..Len(z.cell) -> 0..Len(z.cell)]
      /\ Ptr(z) \in [Holders(z) -> 0..Len(z.cell)]
  BY DEF Stacks, Linked
<1>2. \A h \in Holders(z) : Ptr(z)[h] \in 0..Len(z.cell)
  BY <1>1
<1>3. Free \in Holders(z) /\ Ptr(z)[Free] = z.namel
  BY DEF Holders, Ptr
<1>4. \A t \in DOMAIN z.stk : t \in Holders(z) /\ t # Free /\ Ptr(z)[t] = z.stk[t]
  BY DEF Holders, Ptr, Stacks, Free
<1>5. \A m \in 1..Len(z.cell) : z.cell[m].up \in 0..Len(z.cell)
  <2>1. \A m \in 1..Len(z.cell) : Links(z)[m] = z.cell[m].up
    BY DEF Links
  <2> QED
    BY <1>1, <2>1
<1>6. Len(z.cell) \in Nat /\ \A m \in 1..Len(z.cell) : z.cell[m] \in Cells
  BY DEF Stacks
<1> QED
  BY <1>2, <1>3, <1>4, <1>5, <1>6

(* A stack or free list with other cells, links and starts.                *)
LEMMA StacksFrom ==
  ASSUME NEW z, Stacks(z), NEW cell \in Seq(Cells), NEW namel \in Nat, NEW stk \in [DOMAIN z.stk -> Nat],
         NEW up, NEW ptr, Linked(Len(cell), up, Holders(z), ptr),
         \A m \in 1..Len(cell) : up[m] = cell[m].up,
         ptr[Free] = namel, \A t \in DOMAIN z.stk : ptr[t] = stk[t]
  PROVE  Restacked(z, [p |-> z.p, visit |-> z.visit, cell |-> cell, namel |-> namel, stk |-> stk])
<1> DEFINE y == [p |-> z.p, visit |-> z.visit, cell |-> cell, namel |-> namel, stk |-> stk]
<1>1. y.p = z.p /\ y.visit = z.visit /\ y.cell = cell /\ y.namel = namel /\ y.stk = stk
  OBVIOUS
<1>2. y = [p |-> y.p, visit |-> y.visit, cell |-> y.cell, namel |-> y.namel, stk |-> y.stk]
  OBVIOUS
<1> HIDE DEF y
<1>3. DOMAIN y.stk = DOMAIN z.stk /\ Holders(y) = Holders(z)
  BY <1>1 DEF Holders
<1>l. Len(cell) \in Nat /\ up \in [1..Len(cell) -> 0..Len(cell)] /\ ptr \in [Holders(z) -> 0..Len(cell)]
  BY DEF Linked
<1>4. Links(y) = up
  BY <1>1, <1>l DEF Links
<1>5. Ptr(y) = ptr
  <2>1. \A h \in Holders(z) : Ptr(y)[h] = ptr[h]
    BY <1>1, <1>3 DEF Ptr, Holders
  <2>2. Ptr(y) = [h \in Holders(z) |-> Ptr(y)[h]] /\ ptr = [h \in Holders(z) |-> ptr[h]]
    BY <1>3, <1>l DEF Ptr
  <2> QED
    BY <2>1, <2>2
<1>6. Linked(Len(y.cell), Links(y), Holders(y), Ptr(y))
  BY <1>1, <1>3, <1>4, <1>5
<1>7. Stacks(y)
  BY <1>1, <1>2, <1>3, <1>6 DEF Stacks
<1> QED
  BY <1>1, <1>3, <1>7 DEF Restacked, y

LEMMA NNewStacks ==
  ASSUME NEW z, Stacks(z), NEW t \in DOMAIN z.stk, NEW r \in Int, NEW b \in Nat
  PROVE  Restacked(z, NNew(z, t, r, b))
<1> DEFINE N == Len(z.cell)
<1> DEFINE new == [r |-> r, b |-> b, up |-> z.stk[t]]
<1>1. /\ z = [p |-> z.p, visit |-> z.visit, cell |-> z.cell, namel |-> z.namel, stk |-> z.stk]
      /\ z.cell \in Seq(Cells) /\ z.namel \in Nat /\ z.stk \in [DOMAIN z.stk -> Nat]
      /\ Linked(N, Links(z), Holders(z), Ptr(z))
  BY DEF Stacks
<1>2. /\ N \in Nat /\ z.namel \in 0..N /\ z.stk[t] \in 0..N /\ t # Free
      /\ \A m \in 1..N : z.cell[m].up \in 0..N
  BY StackRange
<1>3. new \in Cells /\ new.up = z.stk[t]
  BY <1>2 DEF Cells
<1>4. /\ t \in Holders(z) /\ Free \in Holders(z) /\ Ptr(z)[t] = z.stk[t] /\ Ptr(z)[Free] = z.namel
      /\ \A u \in DOMAIN z.stk : Ptr(z)[u] = z.stk[u] /\ u # Free /\ u \in Holders(z)
      /\ \A m \in 1..N : Links(z)[m] = z.cell[m].up
      /\ Links(z) \in [1..N -> 0..N] /\ Ptr(z) \in [Holders(z) -> 0..N]
  BY <1>1, <1>2, StackRange DEF Holders, Ptr, Links, Linked
<1> HIDE DEF new
<1>5. CASE z.namel # 0
  <2> DEFINE n == z.namel
  <2> DEFINE cell == [z.cell EXCEPT ![n] = new]
  <2> DEFINE namel == z.cell[n].up
  <2> DEFINE stk == [z.stk EXCEPT ![t] = n]
  <2> DEFINE up == [Links(z) EXCEPT ![Ptr(z)[Free]] = Ptr(z)[t]]
  <2> DEFINE ptr == [Ptr(z) EXCEPT ![Free] = Links(z)[Ptr(z)[Free]], ![t] = Ptr(z)[Free]]
  <2>n. n \in 1..N
    BY <1>2, <1>5
  <2>1. NNew(z, t, r, b) = [p |-> z.p, visit |-> z.visit, cell |-> cell, namel |-> namel, stk |-> stk]
    <3>1. NNew(z, t, r, b) = [z EXCEPT !.namel = namel, !.cell = cell, !.stk = stk]
      BY <1>5 DEF NNew, new
    <3> HIDE DEF cell, namel, stk
    <3> QED
      BY <3>1, <1>1
  <2>2. Linked(N, up, Holders(z), ptr)
    <3>1. Ptr(z)[Free] # 0
      BY <1>4, <1>5
    <3> QED
      BY <3>1, <1>1, <1>2, <1>4, MoveLinked
  <2>3. cell \in Seq(Cells) /\ Len(cell) = N
    BY <1>1, <1>3, <2>n
  <2>4. namel \in Nat
    BY <1>2, <2>n
  <2>5. stk \in [DOMAIN z.stk -> Nat]
    BY <1>1
  <2>6. ASSUME NEW m \in 1..N PROVE up[m] = cell[m].up
    <3>1. CASE m = n
      <4>1. up[m] = z.stk[t] /\ cell[m] = new
        BY <3>1, <1>1, <1>4, <2>n
      <4> QED
        BY <4>1, <1>3
    <3>2. CASE m # n
      <4>1. up[m] = Links(z)[m] /\ cell[m] = z.cell[m]
        BY <3>2, <1>1, <1>4, <2>n
      <4> QED
        BY <4>1, <1>4
    <3> QED
      BY <3>1, <3>2
  <2>7. ptr[Free] = namel
    <3>1. ptr[Free] = Links(z)[n]
      BY <1>2, <1>4
    <3> QED
      BY <3>1, <1>4, <2>n
  <2>8. \A u \in DOMAIN z.stk : ptr[u] = stk[u]
    BY <1>1, <1>4
  <2> HIDE DEF cell, namel, stk, up, ptr, N
  <2>9. Linked(Len(cell), up, Holders(z), ptr) /\ \A m \in 1..Len(cell) : up[m] = cell[m].up
    BY <2>2, <2>3, <2>6
  <2> QED
    BY <2>1, <2>3, <2>4, <2>5, <2>7, <2>8, <2>9, StacksFrom
<1>6. CASE z.namel = 0
  <2> DEFINE cell == Append(z.cell, new)
  <2> DEFINE stk == [z.stk EXCEPT ![t] = N + 1]
  <2> DEFINE up == [m \in 1..N + 1 |-> IF m = N + 1 THEN Ptr(z)[t] ELSE Links(z)[m]]
  <2> DEFINE ptr == [Ptr(z) EXCEPT ![t] = N + 1]
  <2>1. NNew(z, t, r, b) = [p |-> z.p, visit |-> z.visit, cell |-> cell, namel |-> z.namel, stk |-> stk]
    <3>1. NNew(z, t, r, b) = [z EXCEPT !.cell = cell, !.stk = stk]
      BY <1>6 DEF NNew, new
    <3> HIDE DEF cell, stk
    <3> QED
      BY <3>1, <1>1
  <2>2. Linked(N + 1, up, Holders(z), ptr)
    BY <1>1, <1>4, PushLinked
  <2>3. cell \in Seq(Cells) /\ Len(cell) = N + 1
    BY <1>1, <1>3
  <2>5. stk \in [DOMAIN z.stk -> Nat]
    BY <1>1, <1>2
  <2>6. ASSUME NEW m \in 1..N + 1 PROVE up[m] = cell[m].up
    <3>1. CASE m = N + 1
      <4>1. up[m] = z.stk[t] /\ cell[m] = new
        BY <3>1, <1>1, <1>3, <1>4
      <4> QED
        BY <4>1, <1>3
    <3>2. CASE m # N + 1
      <4>0. m \in 1..N
        BY <3>2, <1>2
      <4>1. up[m] = Links(z)[m] /\ cell[m] = z.cell[m]
        BY <4>0, <3>2, <1>1, <1>3
      <4> QED
        BY <4>0, <4>1, <1>4
    <3> QED
      BY <3>1, <3>2
  <2>7. ptr[Free] = z.namel
    BY <1>2, <1>4
  <2>8. \A u \in DOMAIN z.stk : ptr[u] = stk[u]
    BY <1>1, <1>4
  <2> HIDE DEF cell, stk, up, ptr, N
  <2>9. Linked(Len(cell), up, Holders(z), ptr) /\ \A m \in 1..Len(cell) : up[m] = cell[m].up
    BY <2>2, <2>3, <2>6
  <2> QED
    BY <1>1, <2>1, <2>3, <2>5, <2>7, <2>8, <2>9, StacksFrom
<1> QED
  BY <1>5, <1>6

LEMMA PoppedStacks ==
  ASSUME NEW z, Stacks(z), NEW t \in DOMAIN z.stk, NEW d, NEW b
  PROVE  Restacked(z, Popped(z, d, t, b))
<1> DEFINE N == Len(z.cell)
<1>1. /\ z = [p |-> z.p, visit |-> z.visit, cell |-> z.cell, namel |-> z.namel, stk |-> z.stk]
      /\ z.cell \in Seq(Cells) /\ z.namel \in Nat /\ z.stk \in [DOMAIN z.stk -> Nat]
      /\ Linked(N, Links(z), Holders(z), Ptr(z))
  BY DEF Stacks
<1>2. /\ N \in Nat /\ z.namel \in 0..N /\ z.stk[t] \in 0..N /\ t # Free
      /\ \A m \in 1..N : z.cell[m] \in Cells /\ z.cell[m].up \in 0..N
  BY StackRange
<1>4. /\ t \in Holders(z) /\ Free \in Holders(z) /\ Ptr(z)[t] = z.stk[t] /\ Ptr(z)[Free] = z.namel
      /\ \A u \in DOMAIN z.stk : Ptr(z)[u] = z.stk[u] /\ u # Free /\ u \in Holders(z)
      /\ \A m \in 1..N : Links(z)[m] = z.cell[m].up
      /\ Links(z) \in [1..N -> 0..N] /\ Ptr(z) \in [Holders(z) -> 0..N]
  BY <1>1, <1>2, StackRange DEF Holders, Ptr, Links, Linked
<1> DEFINE n == z.stk[t]
<1>5. CASE Popped(z, d, t, b) = z
  BY <1>5 DEF Restacked
<1>6. CASE n # 0 /\ Popped(z, d, t, b) = NFree([z EXCEPT !.stk[t] = z.cell[n].up], n)
  <2> DEFINE new == [z.cell[n] EXCEPT !.up = z.namel]
  <2> DEFINE cell == [z.cell EXCEPT ![n] = new]
  <2> DEFINE stk == [z.stk EXCEPT ![t] = z.cell[n].up]
  <2> DEFINE up == [Links(z) EXCEPT ![Ptr(z)[t]] = Ptr(z)[Free]]
  <2> DEFINE ptr == [Ptr(z) EXCEPT ![t] = Links(z)[Ptr(z)[t]], ![Free] = Ptr(z)[t]]
  <2>n. n \in 1..N
    BY <1>2, <1>6
  <2>c. new \in Cells /\ new.up = z.namel
    <3>1. z.cell[n] \in Cells
      BY <1>2, <2>n
    <3> QED
      BY <3>1, <1>1 DEF Cells
  <2>1. Popped(z, d, t, b) = [p |-> z.p, visit |-> z.visit, cell |-> cell, namel |-> n, stk |-> stk]
    <3> DEFINE y == [z EXCEPT !.stk = stk]
    <3>1. Popped(z, d, t, b) = [y EXCEPT !.cell[n].up = y.namel, !.namel = n]
      BY <1>6 DEF NFree
    <3>2. y = [p |-> z.p, visit |-> z.visit, cell |-> z.cell, namel |-> z.namel, stk |-> stk]
      <4> HIDE DEF stk
      <4> QED
        BY <1>1
    <3> HIDE DEF y
    <3>3. y.namel = z.namel /\ y.cell = z.cell
      BY <3>2
    <3>4. [y EXCEPT !.cell[n].up = y.namel, !.namel = n] = [y EXCEPT !.cell = cell, !.namel = n]
      BY <3>3
    <3> HIDE DEF cell, stk, n
    <3> QED
      BY <3>1, <3>2, <3>4
  <2> HIDE DEF new
  <2>2. Linked(N, up, Holders(z), ptr)
    <3>1. Ptr(z)[t] # 0
      BY <1>4, <1>6
    <3> QED
      BY <3>1, <1>1, <1>2, <1>4, MoveLinked
  <2>3. cell \in Seq(Cells) /\ Len(cell) = N
    BY <1>1, <2>c, <2>n
  <2>4. n \in Nat
    BY <2>n
  <2>5. stk \in [DOMAIN z.stk -> Nat]
    BY <1>1, <1>2, <2>n
  <2>6. ASSUME NEW m \in 1..N PROVE up[m] = cell[m].up
    <3>1. CASE m = n
      <4>1. up[m] = z.namel /\ cell[m] = new
        BY <3>1, <1>1, <1>4, <2>n
      <4> QED
        BY <4>1, <2>c
    <3>2. CASE m # n
      <4>1. up[m] = Links(z)[m] /\ cell[m] = z.cell[m]
        BY <3>2, <1>1, <1>4, <2>n
      <4> QED
        BY <4>1, <1>4
    <3> QED
      BY <3>1, <3>2
  <2>7. ptr[Free] = n
    BY <1>2, <1>4
  <2>8. \A u \in DOMAIN z.stk : ptr[u] = stk[u]
    <3>1. ptr[t] = z.cell[n].up
      BY <1>2, <1>4, <2>n
    <3> QED
      BY <3>1, <1>1, <1>4
  <2> HIDE DEF cell, stk, up, ptr, N, n
  <2>9. Linked(Len(cell), up, Holders(z), ptr) /\ \A m \in 1..Len(cell) : up[m] = cell[m].up
    BY <2>2, <2>3, <2>6
  <2> QED
    BY <2>1, <2>3, <2>4, <2>5, <2>7, <2>8, <2>9, StacksFrom
<1> QED
  BY <1>5, <1>6 DEF Popped

(* The names that do not reach b leave one after the other.                *)
LEMMA GetStkIs ==
  ASSUME NEW z, Len(z.cell) \in Nat, NEW d, NEW t, NEW b
  PROVE  \E f : /\ GetStk(z, d, t, b) = f[Len(z.cell)] /\ f[0] = z
                /\ \A k \in 1..Len(z.cell) : f[k] = Popped(f[k - 1], d, t, b)
<1> DEFINE m == Len(z.cell)
<1> DEFINE After(k, s) == Popped(s, d, t, b)
<1> DEFINE Is(h, j) == h = [k \in 0..j |-> IF k = 0 THEN z ELSE After(k, h[k - 1])]
<1> DEFINE T == {j \in 0..m : \E h : Is(h, j)}
<1>n. m \in Nat
  OBVIOUS
<1> HIDE DEF After, m
<1>1. 0 \in T
  <2>1. Is([k \in 0..0 |-> z], 0)
    OBVIOUS
  <2> HIDE DEF Is
  <2> QED
    BY <2>1, <1>n
<1>2. ASSUME NEW j \in 1..m, j - 1 \in T PROVE j \in T
  <2>1. PICK f : Is(f, j - 1)
    BY <1>2
  <2> DEFINE e == [k \in 0..j |-> IF k = j THEN After(j, f[j - 1]) ELSE f[k]]
  <2>2. \A k \in 0..j - 1 : f[k] = IF k = 0 THEN z ELSE After(k, f[k - 1])
    BY <2>1
  <2>3. \A k \in 1..j : e[k - 1] = f[k - 1]
    BY <1>n
  <2>4. \A k \in 0..j : e[k] = IF k = 0 THEN z ELSE After(k, e[k - 1])
    BY <2>2, <2>3, <1>n
  <2>5. Is(e, j)
    BY <2>4
  <2> HIDE DEF Is, e
  <2> QED
    BY <2>5
<1> HIDE DEF T
<1>3. \A j \in 0..m : j \in T
  BY <1>n, <1>1, <1>2, UpTo
<1>4. m \in T
  BY <1>n, <1>3
<1>5. PICK f : Is(f, m)
  BY <1>4 DEF T
<1> DEFINE l == CHOOSE h : Is(h, m)
<1>6. Is(l, m)
  BY <1>5
<1>7. GetStk(z, d, t, b) = l[m]
  BY DEF GetStk, After, m
<1>8. l[0] = z /\ \A k \in 1..m : l[k] = After(k, l[k - 1])
  <2> HIDE DEF l
  <2> QED
    BY <1>6, <1>n
<1> HIDE DEF l
<1> QED
  BY <1>7, <1>8 DEF After, m

LEMMA GetStkStacks ==
  ASSUME NEW z, Stacks(z), NEW t \in DOMAIN z.stk, NEW d, NEW b
  PROVE  Restacked(z, GetStk(z, d, t, b)) /\ Top(GetStk(z, d, t, b), t) \in Int
<1> DEFINE n == Len(z.cell)
<1>n. n \in Nat
  BY StackRange
<1>1. PICK f : /\ GetStk(z, d, t, b) = f[n] /\ f[0] = z
               /\ \A k \in 1..n : f[k] = Popped(f[k - 1], d, t, b)
  BY <1>n, GetStkIs
<1> HIDE DEF n
<1> DEFINE T == {k \in 0..n : Restacked(z, f[k])}
<1>2. 0 \in T
  BY <1>1, <1>n DEF Restacked
<1>3. ASSUME NEW k \in 1..n, k - 1 \in T PROVE k \in T
  <2>1. Restacked(z, f[k - 1]) /\ k \in 0..n
    BY <1>3, <1>n
  <2>2. Stacks(f[k - 1]) /\ t \in DOMAIN f[k - 1].stk
    BY <2>1 DEF Restacked
  <2>3. Restacked(f[k - 1], Popped(f[k - 1], d, t, b))
    BY <2>2, PoppedStacks
  <2>4. Restacked(z, f[k])
    BY <2>1, <2>3, <1>1 DEF Restacked
  <2> QED
    BY <2>1, <2>4
<1> HIDE DEF T
<1>4. \A k \in 0..n : k \in T
  BY <1>n, <1>2, <1>3, UpTo
<1>5. Restacked(z, f[n])
  BY <1>n, <1>4 DEF T
<1> DEFINE y == GetStk(z, d, t, b)
<1>6. Restacked(z, y)
  BY <1>1, <1>5
<1> HIDE DEF y
<1>7. Top(y, t) \in Int
  <2>1. Stacks(y) /\ t \in DOMAIN y.stk
    BY <1>6 DEF Restacked
  <2>2. /\ Len(y.cell) \in Nat /\ y.stk[t] \in 0..Len(y.cell)
        /\ \A m \in 1..Len(y.cell) : y.cell[m] \in Cells
    BY <2>1, StackRange
  <2>3. y.stk[t] # 0 => y.cell[y.stk[t]].r \in Int
    BY <2>2 DEF Cells
  <2>4. Con(0) \in Int
    BY DEF Con
  <2> QED
    BY <2>3, <2>4 DEF Top
<1> QED
  BY <1>6, <1>7 DEF y

-----------------------------------------------------------------------------
(* What holds of a program while it is renamed.  The temporaries up to n0  *)
(* are those that came in; every later one is a new name.                  *)
Sound(g) ==
  /\ g \in Programs
  /\ \A b \in Ids(g) : g.blk[b].s1 \in Ids(g) \cup {0} /\ g.blk[b].s2 \in Ids(g) \cup {0}
Good(z, n0) ==
  /\ Stacks(z) /\ Sound(z.p) /\ n0 <= z.p.nt
  /\ z.visit \in [DOMAIN z.visit -> DOMAIN z.stk]
  /\ DOMAIN z.stk \subseteq DOMAIN z.visit /\ DOMAIN z.visit \subseteq Nat
  /\ \A t \in DOMAIN z.visit : t <= n0 => t \in DOMAIN z.stk

(* A step may change b, the arguments of phis, the new names, the stacks.  *)
SameTos(f, h) == \A i \in 1..Len(f) : h[i].to = f[i].to
SameCode(g, q, b) ==
  /\ Ids(q) = Ids(g)
  /\ \A c \in Ids(g) : /\ q.blk[c].s1 = g.blk[c].s1 /\ q.blk[c].s2 = g.blk[c].s2
                       /\ Len(q.blk[c].phi) = Len(g.blk[c].phi)
                       /\ Len(q.blk[c].ins) = Len(g.blk[c].ins)
                       /\ c # b => /\ q.blk[c].ins = g.blk[c].ins /\ q.blk[c].jmp = g.blk[c].jmp
                                   /\ SameTos(g.blk[c].phi, q.blk[c].phi)
Step(z, y, n0, b) == Good(y, n0) /\ SameCode(z.p, y.p, b)

LEMMA RestackedGood ==
  ASSUME NEW n0, NEW z, Good(z, n0), NEW y, Restacked(z, y)
  PROVE  Good(y, n0) /\ y.p = z.p /\ y.visit = z.visit /\ DOMAIN y.stk = DOMAIN z.stk
BY DEF Good, Restacked

(* A new program beside the same stacks.                                   *)
LEMMA WithCode ==
  ASSUME NEW n0, NEW z, Good(z, n0), NEW q, Sound(q), n0 <= q.nt
  PROVE  Good([z EXCEPT !.p = q], n0) /\ [z EXCEPT !.p = q].p = q
<1> DEFINE y == [z EXCEPT !.p = q]
<1>1. z = [p |-> z.p, visit |-> z.visit, cell |-> z.cell, namel |-> z.namel, stk |-> z.stk]
  BY DEF Good, Stacks
<1>2. y = [p |-> q, visit |-> z.visit, cell |-> z.cell, namel |-> z.namel, stk |-> z.stk]
  BY <1>1
<1> HIDE DEF y
<1>3. y.p = q /\ y.visit = z.visit /\ y.cell = z.cell /\ y.namel = z.namel /\ y.stk = z.stk
  BY <1>2
<1>4. Stacks(y)
  <2>1. Links(y) = Links(z) /\ Ptr(y) = Ptr(z) /\ Holders(y) = Holders(z)
    BY <1>3 DEF Links, Ptr, Holders
  <2>2. Stacks(z)
    BY DEF Good
  <2> QED
    BY <1>2, <1>3, <2>1, <2>2 DEF Stacks
<1>5. Good(y, n0)
  BY <1>3, <1>4 DEF Good
<1> QED
  BY <1>3, <1>5 DEF y

(* A name for t: a number of its own, and a cell on the stack of t.        *)
LEMMA RenDefGood ==
  ASSUME NEW n0 \in Nat, NEW z, Good(z, n0), NEW t \in DOMAIN z.stk, NEW b \in Nat
  PROVE  LET y == RenDef(z, t, b)
         IN Good(y, n0) /\ y.p.blk = z.p.blk /\ y.p.nt \in Nat /\ DOMAIN z.visit \subseteq DOMAIN y.visit
<1> DEFINE r == z.p.nt + 1
<1> DEFINE x == NewName(z, t)
<1> DEFINE y == NNew(x, t, r, b)
<1>1. z = [p |-> z.p, visit |-> z.visit, cell |-> z.cell, namel |-> z.namel, stk |-> z.stk]
  BY DEF Good, Stacks
<1>2. z.p = [blk |-> z.p.blk, nt |-> z.p.nt] /\ z.p.nt \in Nat
  BY DEF Good, Sound, Programs
<1>3. t \in DOMAIN z.stk
  OBVIOUS
<1> DEFINE v == [a \in DOMAIN z.visit \cup {r} |-> IF a = r THEN t ELSE z.visit[a]]
<1> DEFINE q == [blk |-> z.p.blk, nt |-> r]
<1>4. x = [p |-> q, visit |-> v, cell |-> z.cell, namel |-> z.namel, stk |-> z.stk]
  <2>1. x = [z EXCEPT !.p = [z.p EXCEPT !.nt = r], !.visit = v]
    <3>1. x = [z EXCEPT !.p.nt = r, !.visit = v]
      BY DEF NewName
    <3> HIDE DEF v, r
    <3> QED
      BY <3>1
  <2>2. [z.p EXCEPT !.nt = r] = q
    <3> HIDE DEF r
    <3> QED
      BY <1>2
  <2> HIDE DEF v, q, r
  <2> QED
    BY <1>1, <2>1, <2>2
<1>5. r \in Nat /\ n0 <= z.p.nt /\ z.p.nt < r
  BY <1>2 DEF Good
<1>6. q \in Programs /\ q.blk = z.p.blk /\ q.nt = r
  BY <1>2, <1>5 DEF Good, Sound, Programs
<1> HIDE DEF x, q, r
<1>7. x.p = q /\ x.visit = v /\ x.cell = z.cell /\ x.namel = z.namel /\ x.stk = z.stk
  BY <1>4
<1>8. Sound(x.p)
  BY <1>6, <1>7 DEF Good, Sound, Ids
<1>9. DOMAIN v = DOMAIN z.visit \cup {r} /\ v \in [DOMAIN v -> DOMAIN z.stk]
  BY <1>3 DEF Good
<1>10. Stacks(x)
  <2>1. Links(x) = Links(z) /\ Ptr(x) = Ptr(z) /\ Holders(x) = Holders(z)
    BY <1>7 DEF Links, Ptr, Holders
  <2>2. Stacks(z)
    BY DEF Good
  <2> QED
    BY <1>4, <1>7, <2>1, <2>2 DEF Stacks
<1> HIDE DEF v
<1>11. Good(x, n0)
  <2>1. n0 <= x.p.nt
    BY <1>2, <1>5, <1>6, <1>7
  <2>2. \A a \in DOMAIN v : a <= n0 => a \in DOMAIN z.stk
    <3>1. ~(r <= n0)
      BY <1>2, <1>5
    <3> QED
      BY <1>9, <3>1 DEF Good
  <2>3. DOMAIN z.stk \subseteq DOMAIN v /\ DOMAIN v \subseteq Nat
    BY <1>5, <1>9 DEF Good
  <2> QED
    BY <1>7, <1>8, <1>9, <1>10, <2>1, <2>2, <2>3 DEF Good
<1>12. Restacked(x, y)
  <2>1. t \in DOMAIN x.stk /\ r \in Int
    BY <1>3, <1>5, <1>7
  <2> QED
    BY <1>10, <2>1, NNewStacks
<1> HIDE DEF y
<1>13. Good(y, n0) /\ y.p = q /\ y.visit = v
  BY <1>7, <1>11, <1>12, RestackedGood
<1>14. RenDef(z, t, b) = y
  BY DEF RenDef, x, y, r
<1> QED
  BY <1>5, <1>6, <1>9, <1>13, <1>14

-----------------------------------------------------------------------------
(* The setters.                                                            *)
LEMMA SameCodeRefl ==
  ASSUME NEW g, NEW b
  PROVE  SameCode(g, g, b)
BY DEF SameCode, SameTos

LEMMA SameCodeTrans ==
  ASSUME NEW g, NEW q, NEW s, NEW b, SameCode(g, q, b), SameCode(q, s, b)
  PROVE  SameCode(g, s, b)
<1>1. Ids(q) = Ids(g) /\ Ids(s) = Ids(g)
  BY DEF SameCode
<1>2. ASSUME NEW c \in Ids(g)
      PROVE  /\ s.blk[c].s1 = g.blk[c].s1 /\ s.blk[c].s2 = g.blk[c].s2
             /\ Len(s.blk[c].phi) = Len(g.blk[c].phi)
             /\ Len(s.blk[c].ins) = Len(g.blk[c].ins)
             /\ c # b => /\ s.blk[c].ins = g.blk[c].ins /\ s.blk[c].jmp = g.blk[c].jmp
                         /\ SameTos(g.blk[c].phi, s.blk[c].phi)
  <2>1. /\ Len(q.blk[c].phi) = Len(g.blk[c].phi)
        /\ c # b => SameTos(g.blk[c].phi, q.blk[c].phi) /\ SameTos(q.blk[c].phi, s.blk[c].phi)
    BY <1>1 DEF SameCode
  <2>2. c # b => SameTos(g.blk[c].phi, s.blk[c].phi)
    BY <2>1 DEF SameTos
  <2> QED
    BY <1>1, <2>2 DEF SameCode
<1> QED
  BY <1>1, <1>2 DEF SameCode

(* Block 0 is no block: the code of all stays.                             *)
LEMMA AllSame ==
  ASSUME NEW g \in Programs, NEW q, SameCode(g, q, 0), NEW b
  PROVE  /\ SameCode(g, q, b)
         /\ \A c \in Ids(g) : q.blk[c].ins = g.blk[c].ins /\ q.blk[c].jmp = g.blk[c].jmp
<1>1. \A c \in Ids(g) : c # 0
  BY IdsAre
<1> QED
  BY <1>1 DEF SameCode

Put(g, b, k) == [g EXCEPT !.blk[b] = k]
LEMMA PutSound ==
  ASSUME NEW g, Sound(g), NEW b \in Ids(g), NEW k \in Blocks,
         k.s1 = g.blk[b].s1, k.s2 = g.blk[b].s2
  PROVE  /\ Sound(Put(g, b, k)) /\ Put(g, b, k).nt = g.nt /\ Ids(Put(g, b, k)) = Ids(g)
         /\ Put(g, b, k).blk[b] = k /\ \A c \in Ids(g) : c # b => Put(g, b, k).blk[c] = g.blk[c]
<1> DEFINE blk == [g.blk EXCEPT ![b] = k]
<1> DEFINE q == Put(g, b, k)
<1>1. g = [blk |-> g.blk, nt |-> g.nt] /\ g.blk \in Seq(Blocks) /\ g.nt \in Nat
  BY DEF Sound, Programs
<1>2. blk \in Seq(Blocks) /\ DOMAIN blk = DOMAIN g.blk /\ blk[b] = k /\ \A c \in Ids(g) : c # b => blk[c] = g.blk[c]
  BY <1>1 DEF Ids
<1>3. q = [blk |-> blk, nt |-> g.nt]
  <2>1. q = [g EXCEPT !.blk = blk]
    BY DEF Put
  <2> HIDE DEF blk
  <2> QED
    BY <1>1, <2>1
<1> HIDE DEF blk, q
<1>4. q.blk = blk /\ q.nt = g.nt /\ q \in Programs
  BY <1>1, <1>2, <1>3 DEF Programs
<1>5. Ids(q) = Ids(g)
  BY <1>2, <1>4 DEF Ids
<1>6. \A c \in Ids(q) : q.blk[c].s1 \in Ids(q) \cup {0} /\ q.blk[c].s2 \in Ids(q) \cup {0}
  BY <1>2, <1>4, <1>5 DEF Sound
<1> QED
  BY <1>2, <1>4, <1>5, <1>6 DEF Sound, q

LEMMA BlkIs ==
  ASSUME NEW g, Sound(g), NEW b \in Ids(g)
  PROVE  /\ b \in Nat /\ g.blk[b] \in Blocks
         /\ g.blk[b].phi \in Seq(Phis) /\ g.blk[b].ins \in Seq(Instrs) /\ g.blk[b].jmp \in Int
         /\ g.blk[b] = [phi |-> g.blk[b].phi, ins |-> g.blk[b].ins, jmp |-> g.blk[b].jmp,
                        s1 |-> g.blk[b].s1, s2 |-> g.blk[b].s2]
<1>1. g.blk[b] \in Blocks /\ b \in Nat
  BY IdsAre DEF Sound, Programs, Ids
<1> QED
  BY <1>1 DEF Blocks

(* Another instruction in the place of one.                                *)
WithIns(g, b, j, s) == Put(g, b, [g.blk[b] EXCEPT !.ins[j] = s])
OnlyIns(g, q, b, j) ==
  /\ q.blk[b].jmp = g.blk[b].jmp
  /\ \A i \in DOMAIN g.blk[b].ins : i # j => q.blk[b].ins[i] = g.blk[b].ins[i]
LEMMA WithInsIs ==
  ASSUME NEW g, Sound(g), NEW b \in Ids(g), NEW j \in DOMAIN g.blk[b].ins, NEW s \in Instrs
  PROVE  LET q == WithIns(g, b, j, s)
         IN Sound(q) /\ q.nt = g.nt /\ SameCode(g, q, b) /\ OnlyIns(g, q, b, j) /\ q.blk[b].ins[j] = s
<1> DEFINE ins == [g.blk[b].ins EXCEPT ![j] = s]
<1> DEFINE k == [g.blk[b] EXCEPT !.ins[j] = s]
<1> DEFINE q == Put(g, b, k)
<1>1. /\ g.blk[b] \in Blocks /\ g.blk[b].ins \in Seq(Instrs)
      /\ g.blk[b] = [phi |-> g.blk[b].phi, ins |-> g.blk[b].ins, jmp |-> g.blk[b].jmp,
                     s1 |-> g.blk[b].s1, s2 |-> g.blk[b].s2]
  BY BlkIs
<1>2. ins \in Seq(Instrs) /\ Len(ins) = Len(g.blk[b].ins) /\ ins[j] = s
      /\ \A i \in DOMAIN g.blk[b].ins : i # j => ins[i] = g.blk[b].ins[i]
  BY <1>1
<1>3. k = [phi |-> g.blk[b].phi, ins |-> ins, jmp |-> g.blk[b].jmp, s1 |-> g.blk[b].s1, s2 |-> g.blk[b].s2]
  <2>1. k = [g.blk[b] EXCEPT !.ins = ins]
    OBVIOUS
  <2> HIDE DEF ins
  <2> QED
    BY <1>1, <2>1
<1> HIDE DEF ins, k
<1>4. k.phi = g.blk[b].phi /\ k.ins = ins /\ k.jmp = g.blk[b].jmp /\ k.s1 = g.blk[b].s1 /\ k.s2 = g.blk[b].s2
  BY <1>3
<1>5. k \in Blocks
  BY <1>1, <1>2, <1>3 DEF Blocks
<1>6. /\ Sound(q) /\ q.nt = g.nt /\ Ids(q) = Ids(g)
      /\ q.blk[b] = k /\ \A c \in Ids(g) : c # b => q.blk[c] = g.blk[c]
  BY <1>4, <1>5, PutSound
<1> HIDE DEF q
<1>7. SameCode(g, q, b)
  <2> SUFFICES ASSUME NEW c \in Ids(g)
               PROVE  /\ q.blk[c].s1 = g.blk[c].s1 /\ q.blk[c].s2 = g.blk[c].s2
                      /\ Len(q.blk[c].phi) = Len(g.blk[c].phi)
                      /\ Len(q.blk[c].ins) = Len(g.blk[c].ins)
                      /\ c # b => /\ q.blk[c].ins = g.blk[c].ins /\ q.blk[c].jmp = g.blk[c].jmp
                                  /\ SameTos(g.blk[c].phi, q.blk[c].phi)
    BY <1>6 DEF SameCode
  <2>1. CASE c = b
    BY <2>1, <1>2, <1>4, <1>6
  <2>2. CASE c # b
    BY <2>2, <1>6 DEF SameTos
  <2> QED
    BY <2>1, <2>2
<1>8. OnlyIns(g, q, b, j) /\ q.blk[b].ins[j] = s
  BY <1>2, <1>4, <1>6 DEF OnlyIns
<1> QED
  BY <1>6, <1>7, <1>8 DEF WithIns, q, k

LEMMA InsIs ==
  ASSUME NEW g, Sound(g), NEW b \in Ids(g), NEW j \in DOMAIN g.blk[b].ins
  PROVE  LET s == g.blk[b].ins[j]
         IN /\ s \in Instrs /\ s = [op |-> s.op, cls |-> s.cls, to |-> s.to, arg |-> s.arg]
            /\ s.to \in Nat /\ s.arg = <<s.arg[1], s.arg[2]>> /\ s.arg[1] \in Int /\ s.arg[2] \in Int
<1> DEFINE s == g.blk[b].ins[j]
<1>1. s \in Instrs
  <2>1. g.blk[b].ins \in Seq(Instrs)
    BY BlkIs
  <2> QED
    BY <2>1
<1> HIDE DEF s
<1>2. s = [op |-> s.op, cls |-> s.cls, to |-> s.to, arg |-> s.arg] /\ s.to \in Nat /\ s.arg \in Int \X Int
  BY <1>1 DEF Instrs
<1> QED
  BY <1>1, <1>2 DEF s

OtherArg(g, q, b, j, m) ==
  /\ q.blk[b].ins[j].to = g.blk[b].ins[j].to
  /\ \A i \in {1, 2} : i # m => q.blk[b].ins[j].arg[i] = g.blk[b].ins[j].arg[i]
LEMMA SetArgIs ==
  ASSUME NEW g, Sound(g), NEW b \in Ids(g), NEW j \in DOMAIN g.blk[b].ins, NEW m \in {1, 2}, NEW r \in Int
  PROVE  LET q == SetArg(g, b, j, m, r)
         IN /\ Sound(q) /\ q.nt = g.nt /\ SameCode(g, q, b) /\ OnlyIns(g, q, b, j)
            /\ OtherArg(g, q, b, j, m)
<1> DEFINE s == g.blk[b].ins[j]
<1> DEFINE e == [s EXCEPT !.arg[m] = r]
<1>1. /\ s \in Instrs /\ s = [op |-> s.op, cls |-> s.cls, to |-> s.to, arg |-> s.arg]
      /\ s.arg = <<s.arg[1], s.arg[2]>> /\ s.arg[1] \in Int /\ s.arg[2] \in Int
  BY InsIs
<1>2. SetArg(g, b, j, m, r) = WithIns(g, b, j, e)
  BY DEF SetArg, WithIns, Put
<1> HIDE DEF s
<1> DEFINE a == [s.arg EXCEPT ![m] = r]
<1>3. a \in Int \X Int /\ \A i \in {1, 2} : i # m => a[i] = s.arg[i]
  <2>1. a = IF m = 1 THEN <<r, s.arg[2]>> ELSE <<s.arg[1], r>>
    BY <1>1
  <2> HIDE DEF a
  <2> QED
    BY <1>1, <2>1
<1>4. e = [op |-> s.op, cls |-> s.cls, to |-> s.to, arg |-> a]
  <2>1. e = [s EXCEPT !.arg = a]
    OBVIOUS
  <2> HIDE DEF a
  <2> QED
    BY <1>1, <2>1
<1> HIDE DEF a, e
<1>5. e \in Instrs /\ e.arg = a /\ e.to = s.to
  BY <1>1, <1>3, <1>4 DEF Instrs
<1> DEFINE q == WithIns(g, b, j, e)
<1>6. Sound(q) /\ q.nt = g.nt /\ SameCode(g, q, b) /\ OnlyIns(g, q, b, j) /\ q.blk[b].ins[j] = e
  BY <1>5, WithInsIs
<1> QED
  BY <1>2, <1>3, <1>5, <1>6 DEF s, OtherArg

LEMMA SetToIs ==
  ASSUME NEW g, Sound(g), NEW b \in Ids(g), NEW j \in DOMAIN g.blk[b].ins, NEW r \in Nat
  PROVE  LET q == SetTo(g, b, j, r)
         IN Sound(q) /\ q.nt = g.nt /\ SameCode(g, q, b) /\ OnlyIns(g, q, b, j)
<1> DEFINE s == g.blk[b].ins[j]
<1> DEFINE e == [s EXCEPT !.to = r]
<1>1. /\ s \in Instrs /\ s = [op |-> s.op, cls |-> s.cls, to |-> s.to, arg |-> s.arg]
  BY InsIs
<1>2. SetTo(g, b, j, r) = WithIns(g, b, j, e)
  BY DEF SetTo, WithIns, Put
<1> HIDE DEF s
<1>4. e = [op |-> s.op, cls |-> s.cls, to |-> r, arg |-> s.arg]
  BY <1>1
<1>5. e \in Instrs
  BY <1>1, <1>4 DEF Instrs
<1> HIDE DEF e
<1> QED
  BY <1>2, <1>5, WithInsIs

LEMMA SetJmpIs ==
  ASSUME NEW g, Sound(g), NEW b \in Ids(g), NEW r \in Int
  PROVE  LET q == SetJmp(g, b, r) IN Sound(q) /\ q.nt = g.nt /\ SameCode(g, q, b)
<1> DEFINE k == [g.blk[b] EXCEPT !.jmp = r]
<1> DEFINE q == Put(g, b, k)
<1>1. /\ g.blk[b] \in Blocks
      /\ g.blk[b] = [phi |-> g.blk[b].phi, ins |-> g.blk[b].ins, jmp |-> g.blk[b].jmp,
                     s1 |-> g.blk[b].s1, s2 |-> g.blk[b].s2]
  BY BlkIs
<1>3. k = [phi |-> g.blk[b].phi, ins |-> g.blk[b].ins, jmp |-> r, s1 |-> g.blk[b].s1, s2 |-> g.blk[b].s2]
  BY <1>1
<1> HIDE DEF k
<1>4. k.phi = g.blk[b].phi /\ k.ins = g.blk[b].ins /\ k.s1 = g.blk[b].s1 /\ k.s2 = g.blk[b].s2
  BY <1>3
<1>5. k \in Blocks
  BY <1>1, <1>3 DEF Blocks
<1>6. /\ Sound(q) /\ q.nt = g.nt /\ Ids(q) = Ids(g)
      /\ q.blk[b] = k /\ \A c \in Ids(g) : c # b => q.blk[c] = g.blk[c]
  BY <1>4, <1>5, PutSound
<1>7. SetJmp(g, b, r) = q
  BY DEF SetJmp, Put, k
<1> HIDE DEF q
<1>8. SameCode(g, q, b)
  BY <1>4, <1>6 DEF SameCode, SameTos
<1> QED
  BY <1>6, <1>7, <1>8

LEMMA PhiIs ==
  ASSUME NEW g, Sound(g), NEW b \in Ids(g), NEW j \in DOMAIN g.blk[b].phi
  PROVE  LET f == g.blk[b].phi[j]
         IN /\ f \in Phis /\ f = [to |-> f.to, cls |-> f.cls, arg |-> f.arg, blk |-> f.blk]
            /\ f.arg \in Seq(Int) /\ f.blk \in Seq(Nat)
<1> DEFINE f == g.blk[b].phi[j]
<1>1. f \in Phis
  <2>1. g.blk[b].phi \in Seq(Phis)
    BY BlkIs
  <2> QED
    BY <2>1
<1> HIDE DEF f
<1>2. f = [to |-> f.to, cls |-> f.cls, arg |-> f.arg, blk |-> f.blk] /\ f.arg \in Seq(Int) /\ f.blk \in Seq(Nat)
  BY <1>1 DEF Phis
<1> QED
  BY <1>1, <1>2 DEF f

OnlyPhi(g, q, b, j) ==
  /\ q.blk[b].ins = g.blk[b].ins /\ q.blk[b].jmp = g.blk[b].jmp
  /\ \A i \in 1..Len(g.blk[b].phi) : i # j => q.blk[b].phi[i] = g.blk[b].phi[i]
LEMMA SetPhiIs ==
  ASSUME NEW g, Sound(g), NEW b \in Ids(g), NEW j \in DOMAIN g.blk[b].phi, NEW f \in Phis
  PROVE  LET q == SetPhi(g, b, j, f)
         IN /\ Sound(q) /\ q.nt = g.nt /\ SameCode(g, q, b) /\ OnlyPhi(g, q, b, j)
            /\ f.to = g.blk[b].phi[j].to => SameCode(g, q, 0)
<1> DEFINE phi == [g.blk[b].phi EXCEPT ![j] = f]
<1> DEFINE k == [g.blk[b] EXCEPT !.phi[j] = f]
<1> DEFINE q == Put(g, b, k)
<1>1. /\ g.blk[b] \in Blocks /\ g.blk[b].phi \in Seq(Phis)
      /\ g.blk[b] = [phi |-> g.blk[b].phi, ins |-> g.blk[b].ins, jmp |-> g.blk[b].jmp,
                     s1 |-> g.blk[b].s1, s2 |-> g.blk[b].s2]
  BY BlkIs
<1>2. /\ phi \in Seq(Phis) /\ Len(phi) = Len(g.blk[b].phi) /\ phi[j] = f
      /\ \A i \in 1..Len(g.blk[b].phi) : i # j => phi[i] = g.blk[b].phi[i]
  BY <1>1
<1>3. k = [phi |-> phi, ins |-> g.blk[b].ins, jmp |-> g.blk[b].jmp, s1 |-> g.blk[b].s1, s2 |-> g.blk[b].s2]
  <2>1. k = [g.blk[b] EXCEPT !.phi = phi]
    OBVIOUS
  <2> HIDE DEF phi
  <2> QED
    BY <1>1, <2>1
<1> HIDE DEF phi, k
<1>4. k.phi = phi /\ k.ins = g.blk[b].ins /\ k.jmp = g.blk[b].jmp /\ k.s1 = g.blk[b].s1 /\ k.s2 = g.blk[b].s2
  BY <1>3
<1>5. k \in Blocks
  BY <1>1, <1>2, <1>3 DEF Blocks
<1>6. /\ Sound(q) /\ q.nt = g.nt /\ Ids(q) = Ids(g)
      /\ q.blk[b] = k /\ \A c \in Ids(g) : c # b => q.blk[c] = g.blk[c]
  BY <1>4, <1>5, PutSound
<1>7. SetPhi(g, b, j, f) = q
  BY DEF SetPhi, Put, k
<1> HIDE DEF q
<1>8. ASSUME NEW c \in Ids(g)
      PROVE  /\ q.blk[c].s1 = g.blk[c].s1 /\ q.blk[c].s2 = g.blk[c].s2
             /\ Len(q.blk[c].phi) = Len(g.blk[c].phi)
             /\ Len(q.blk[c].ins) = Len(g.blk[c].ins)
             /\ q.blk[c].ins = g.blk[c].ins /\ q.blk[c].jmp = g.blk[c].jmp
             /\ c # b \/ f.to = g.blk[b].phi[j].to => SameTos(g.blk[c].phi, q.blk[c].phi)
  <2>1. CASE c = b
    <3>1. f.to = g.blk[b].phi[j].to => SameTos(g.blk[b].phi, phi)
      BY <1>2 DEF SameTos
    <3> QED
      BY <2>1, <3>1, <1>2, <1>4, <1>6
  <2>2. CASE c # b
    BY <2>2, <1>6 DEF SameTos
  <2> QED
    BY <2>1, <2>2
<1>9. SameCode(g, q, b) /\ (f.to = g.blk[b].phi[j].to => SameCode(g, q, 0))
  BY <1>6, <1>8 DEF SameCode
<1>10. OnlyPhi(g, q, b, j)
  BY <1>2, <1>4, <1>6 DEF OnlyPhi
<1> QED
  BY <1>6, <1>7, <1>9, <1>10

-----------------------------------------------------------------------------
(* Renaming an instruction.  What it refers to came in.                    *)
LEMMA GetStkGood ==
  ASSUME NEW n0 \in Nat, NEW z, Good(z, n0), NEW t \in DOMAIN z.stk, NEW d, NEW b
  PROVE  LET y == GetStk(z, d, t, b) IN Good(y, n0) /\ y.p = z.p /\ Top(y, t) \in Int
<1> DEFINE y == GetStk(z, d, t, b)
<1>1. Restacked(z, y) /\ Top(y, t) \in Int
  BY GetStkStacks DEF Good
<1> HIDE DEF y
<1>2. Good(y, n0) /\ y.p = z.p
  BY <1>1, RestackedGood
<1> QED
  BY <1>1, <1>2 DEF y

LEMMA RenArgGood ==
  ASSUME NEW n0 \in Nat, NEW z, Good(z, n0), NEW d, NEW b \in Ids(z.p),
         NEW j \in DOMAIN z.p.blk[b].ins, NEW m \in {1, 2}, z.p.blk[b].ins[j].arg[m] <= n0
  PROVE  LET y == RenArg(z, d, b, j, m)
         IN Step(z, y, n0, b) /\ OnlyIns(z.p, y.p, b, j) /\ OtherArg(z.p, y.p, b, j, m)
<1> DEFINE r == z.p.blk[b].ins[j].arg[m]
<1> DEFINE y == GetStk(z, d, r, b)
<1> DEFINE u == Top(y, r)
<1> DEFINE q == SetArg(z.p, b, j, m, u)
<1>1. CASE RenArg(z, d, b, j, m) = z
  <2>1. SameCode(z.p, z.p, b)
    BY SameCodeRefl
  <2> QED
    BY <1>1, <2>1 DEF Step, OnlyIns, OtherArg
<1>2. CASE Renamed(z, r) /\ RenArg(z, d, b, j, m) = [y EXCEPT !.p = SetArg(y.p, b, j, m, u)]
  <2>1. r \in DOMAIN z.stk
    BY <1>2 DEF Good, Renamed
  <2>2. Good(y, n0) /\ y.p = z.p /\ u \in Int
    BY <2>1, GetStkGood
  <2>3. Sound(z.p) /\ n0 <= z.p.nt
    BY DEF Good
  <2> HIDE DEF y, u, r
  <2>4. Sound(q) /\ q.nt = z.p.nt /\ SameCode(z.p, q, b) /\ OnlyIns(z.p, q, b, j) /\ OtherArg(z.p, q, b, j, m)
    BY <2>2, <2>3, SetArgIs
  <2>5. RenArg(z, d, b, j, m) = [y EXCEPT !.p = q]
    BY <1>2, <2>2
  <2> HIDE DEF q
  <2>6. Good([y EXCEPT !.p = q], n0) /\ [y EXCEPT !.p = q].p = q
    BY <2>2, <2>3, <2>4, WithCode
  <2> QED
    BY <2>4, <2>5, <2>6 DEF Step
<1>3. RenArg(z, d, b, j, m) = IF IsTmp(r) /\ Renamed(z, r) THEN [y EXCEPT !.p = SetArg(y.p, b, j, m, u)] ELSE z
  BY DEF RenArg
<1> HIDE DEF y, u, r
<1> QED
  BY <1>1, <1>2, <1>3

LEMMA OnlyInsTrans ==
  ASSUME NEW g, NEW q, NEW s, NEW b \in Ids(g), NEW j, OnlyIns(g, q, b, j), OnlyIns(q, s, b, j),
         g.blk[b].ins \in Seq(Instrs), q.blk[b].ins \in Seq(Instrs), SameCode(g, q, b)
  PROVE  OnlyIns(g, s, b, j)
<1>1. DOMAIN q.blk[b].ins = DOMAIN g.blk[b].ins
  BY DEF SameCode
<1> QED
  BY <1>1 DEF OnlyIns

LEMMA RenInsGood ==
  ASSUME NEW n0 \in Nat, NEW z, Good(z, n0), NEW d, NEW b \in Ids(z.p),
         NEW j \in DOMAIN z.p.blk[b].ins,
         z.p.blk[b].ins[j].to <= n0,
         z.p.blk[b].ins[j].arg[1] <= n0, z.p.blk[b].ins[j].arg[2] <= n0
  PROVE  LET y == RenIns(z, d, b, j) IN Step(z, y, n0, b) /\ OnlyIns(z.p, y.p, b, j)
<1> DEFINE x == RenArg(z, d, b, j, 1)
<1> DEFINE y == RenArg(x, d, b, j, 2)
<1> DEFINE t == y.p.blk[b].ins[j].to
<1> DEFINE w == RenDef(y, t, b)
<1>1. /\ Step(z, x, n0, b) /\ OnlyIns(z.p, x.p, b, j)
      /\ x.p.blk[b].ins[j].arg[2] = z.p.blk[b].ins[j].arg[2]
      /\ x.p.blk[b].ins[j].to = z.p.blk[b].ins[j].to
  <2>1. LET a == RenArg(z, d, b, j, 1)
        IN Step(z, a, n0, b) /\ OnlyIns(z.p, a.p, b, j) /\ OtherArg(z.p, a.p, b, j, 1)
    BY RenArgGood
  <2> QED
    BY <2>1 DEF OtherArg
<1>s. Sound(z.p)
  BY DEF Good
<1> HIDE DEF x
<1>2. /\ Good(x, n0) /\ b \in Ids(x.p) /\ Sound(x.p) /\ z.p.blk[b].ins \in Seq(Instrs) /\ x.p.blk[b].ins \in Seq(Instrs)
      /\ DOMAIN x.p.blk[b].ins = DOMAIN z.p.blk[b].ins
  <2>1. Good(x, n0) /\ SameCode(z.p, x.p, b) /\ Sound(x.p)
    BY <1>1 DEF Step, Good
  <2>2. b \in Ids(x.p) /\ Len(x.p.blk[b].ins) = Len(z.p.blk[b].ins)
    BY <2>1 DEF SameCode
  <2>3. z.p.blk[b].ins \in Seq(Instrs) /\ x.p.blk[b].ins \in Seq(Instrs)
    BY <1>s, <2>1, <2>2, BlkIs
  <2>4. /\ DOMAIN z.p.blk[b].ins = 1..Len(z.p.blk[b].ins)
        /\ DOMAIN x.p.blk[b].ins = 1..Len(x.p.blk[b].ins)
    BY <2>3
  <2>5. DOMAIN x.p.blk[b].ins = DOMAIN z.p.blk[b].ins
    BY <2>2, <2>4
  <2> QED
    BY <2>1, <2>2, <2>3, <2>5
<1>3. Step(x, y, n0, b) /\ OnlyIns(x.p, y.p, b, j) /\ t = z.p.blk[b].ins[j].to
  <2>1. x.p.blk[b].ins[j].arg[2] <= n0 /\ j \in DOMAIN x.p.blk[b].ins
    BY <1>1, <1>2
  <2>2. LET a == RenArg(x, d, b, j, 2)
        IN Step(x, a, n0, b) /\ OnlyIns(x.p, a.p, b, j) /\ OtherArg(x.p, a.p, b, j, 2)
    BY <1>2, <2>1, RenArgGood
  <2> QED
    BY <1>1, <2>2 DEF OtherArg
<1> HIDE DEF y
<1>4. Step(z, y, n0, b) /\ OnlyIns(z.p, y.p, b, j)
  <2>1. SameCode(z.p, x.p, b) /\ SameCode(x.p, y.p, b) /\ Good(y, n0)
    BY <1>1, <1>3 DEF Step
  <2>2. SameCode(z.p, y.p, b)
    BY <2>1, SameCodeTrans
  <2>3. OnlyIns(z.p, y.p, b, j)
    BY <1>1, <1>2, <1>3, <2>1, OnlyInsTrans
  <2> QED
    BY <2>1, <2>2, <2>3 DEF Step
<1>5. /\ Good(y, n0) /\ Sound(y.p) /\ b \in Ids(y.p) /\ b \in Nat
      /\ y.p.blk[b].ins \in Seq(Instrs) /\ DOMAIN y.p.blk[b].ins = DOMAIN z.p.blk[b].ins
  <2>1. Good(y, n0) /\ SameCode(z.p, y.p, b) /\ Sound(y.p)
    BY <1>4 DEF Step, Good
  <2>2. b \in Ids(y.p) /\ Len(y.p.blk[b].ins) = Len(z.p.blk[b].ins)
    BY <2>1 DEF SameCode
  <2>3. y.p.blk[b].ins \in Seq(Instrs) /\ b \in Nat
    BY <2>1, <2>2, BlkIs
  <2> QED
    <3>1. DOMAIN y.p.blk[b].ins = DOMAIN z.p.blk[b].ins
      <4>1. /\ DOMAIN y.p.blk[b].ins = 1..Len(y.p.blk[b].ins)
            /\ DOMAIN z.p.blk[b].ins = 1..Len(z.p.blk[b].ins)
        BY <1>2, <2>3
      <4> QED
        BY <4>1, <2>2
    <3> QED
      BY <3>1, <2>1, <2>2, <2>3
<1>6. CASE t # R /\ Renamed(y, t)
  <2> DEFINE q == SetTo(w.p, b, j, w.p.nt)
  <2>1. /\ Good(w, n0) /\ w.p.blk = y.p.blk /\ w.p.nt \in Nat
    <3>1. t \in DOMAIN y.stk
      BY <1>3, <1>5, <1>6 DEF Renamed, Good
    <3> HIDE DEF t
    <3>2. LET a == RenDef(y, t, b) IN Good(a, n0) /\ a.p.blk = y.p.blk /\ a.p.nt \in Nat
      BY <3>1, <1>5, RenDefGood
    <3> QED
      BY <3>2
  <2> HIDE DEF w
  <2>2. b \in Ids(w.p) /\ j \in DOMAIN w.p.blk[b].ins /\ Sound(w.p) /\ n0 <= w.p.nt
    BY <1>5, <2>1 DEF Ids, Good
  <2>3. Sound(q) /\ q.nt = w.p.nt /\ SameCode(w.p, q, b) /\ OnlyIns(w.p, q, b, j)
    BY <2>1, <2>2, SetToIs
  <2> HIDE DEF q
  <2>4. Good([w EXCEPT !.p = q], n0) /\ [w EXCEPT !.p = q].p = q
    BY <2>1, <2>2, <2>3, WithCode
  <2>5. SameCode(y.p, q, b) /\ OnlyIns(y.p, q, b, j)
    BY <2>1, <2>3 DEF SameCode, OnlyIns, Ids
  <2>6. SameCode(z.p, q, b)
    BY <1>4, <2>5, SameCodeTrans DEF Step
  <2>7. OnlyIns(z.p, q, b, j)
    <3>1. SameCode(z.p, y.p, b)
      BY <1>4 DEF Step
    <3> QED
      BY <1>2, <1>4, <1>5, <2>5, <3>1, OnlyInsTrans
  <2>8. RenIns(z, d, b, j) = [w EXCEPT !.p = q]
    BY <1>6 DEF RenIns, x, y, w, q
  <2> QED
    BY <2>4, <2>6, <2>7, <2>8 DEF Step
<1>7. CASE ~(t # R /\ Renamed(y, t))
  <2>1. RenIns(z, d, b, j) = y
    BY <1>7 DEF RenIns, x, y
  <2> QED
    BY <1>4, <2>1
<1> QED
  BY <1>6, <1>7

(* The instructions of a block one after the other.                        *)
LEMMA RenInssIs ==
  ASSUME NEW z, NEW d, NEW b, Len(z.p.blk[b].ins) \in Nat
  PROVE  \E f : /\ RenInss(z, d, b) = f[Len(z.p.blk[b].ins)] /\ f[0] = z
                /\ \A k \in 1..Len(z.p.blk[b].ins) : f[k] = RenIns(f[k - 1], d, b, k)
<1> DEFINE m == Len(z.p.blk[b].ins)
<1> DEFINE After(k, s) == RenIns(s, d, b, k)
<1> DEFINE Is(h, j) == h = [k \in 0..j |-> IF k = 0 THEN z ELSE After(k, h[k - 1])]
<1> DEFINE T == {j \in 0..m : \E h : Is(h, j)}
<1>n. m \in Nat
  OBVIOUS
<1> HIDE DEF After, m
<1>1. 0 \in T
  <2>1. Is([k \in 0..0 |-> z], 0)
    OBVIOUS
  <2> HIDE DEF Is
  <2> QED
    BY <2>1, <1>n
<1>2. ASSUME NEW j \in 1..m, j - 1 \in T PROVE j \in T
  <2>1. PICK f : Is(f, j - 1)
    BY <1>2
  <2> DEFINE e == [k \in 0..j |-> IF k = j THEN After(j, f[j - 1]) ELSE f[k]]
  <2>2. \A k \in 0..j - 1 : f[k] = IF k = 0 THEN z ELSE After(k, f[k - 1])
    BY <2>1
  <2>3. \A k \in 1..j : e[k - 1] = f[k - 1]
    BY <1>n
  <2>4. \A k \in 0..j : e[k] = IF k = 0 THEN z ELSE After(k, e[k - 1])
    BY <2>2, <2>3, <1>n
  <2>5. Is(e, j)
    BY <2>4
  <2> HIDE DEF Is, e
  <2> QED
    BY <2>5
<1> HIDE DEF T
<1>3. \A j \in 0..m : j \in T
  BY <1>n, <1>1, <1>2, UpTo
<1>4. m \in T
  BY <1>n, <1>3
<1>5. PICK f : Is(f, m)
  BY <1>4 DEF T
<1> DEFINE l == CHOOSE h : Is(h, m)
<1>6. Is(l, m)
  BY <1>5
<1>7. RenInss(z, d, b) = l[m]
  BY DEF RenInss, After, m
<1>8. l[0] = z /\ \A k \in 1..m : l[k] = After(k, l[k - 1])
  <2> HIDE DEF l
  <2> QED
    BY <1>6, <1>n
<1> HIDE DEF l
<1> QED
  BY <1>7, <1>8 DEF After, m

LEMMA RenInssGood ==
  ASSUME NEW n0 \in Nat, NEW z, Good(z, n0), NEW d, NEW b \in Ids(z.p), Numbered(z.p.blk[b], n0)
  PROVE  LET y == RenInss(z, d, b) IN Step(z, y, n0, b) /\ y.p.blk[b].jmp = z.p.blk[b].jmp
<1> DEFINE ins == z.p.blk[b].ins
<1> DEFINE n == Len(ins)
<1>s. Sound(z.p)
  BY DEF Good
<1>n. ins \in Seq(Instrs) /\ n \in Nat
  <2>1. ins \in Seq(Instrs)
    BY <1>s, BlkIs
  <2> HIDE DEF ins
  <2> QED
    BY <2>1
<1>a. \A j \in 1..n : ins[j].to <= n0 /\ ins[j].arg[1] <= n0 /\ ins[j].arg[2] <= n0
  <2>1. \A j \in 1..n : ins[j] \in Range(ins)
    BY <1>n DEF Range
  <2> QED
    BY <2>1 DEF Numbered
<1>1. PICK f : /\ RenInss(z, d, b) = f[n] /\ f[0] = z
               /\ \A k \in 1..n : f[k] = RenIns(f[k - 1], d, b, k)
  BY <1>n, RenInssIs
<1> HIDE DEF n
<1> DEFINE Is(y, k) == /\ Step(z, y, n0, b) /\ y.p.blk[b].jmp = z.p.blk[b].jmp
                       /\ \A i \in k + 1..n : y.p.blk[b].ins[i] = ins[i]
<1> DEFINE T == {k \in 0..n : Is(f[k], k)}
<1>2. 0 \in T
  <2>1. SameCode(z.p, z.p, b)
    BY SameCodeRefl
  <2>2. Is(z, 0)
    BY <2>1 DEF Step
  <2> HIDE DEF Is
  <2> QED
    BY <2>2, <1>1, <1>n
<1>3. ASSUME NEW k \in 1..n, k - 1 \in T PROVE k \in T
  <2> DEFINE x == f[k - 1]
  <2> DEFINE y == f[k]
  <2>1. Is(x, k - 1)
    BY <1>3
  <2>i. k \in 0..n /\ \A i \in k..n : i \in 1..n
    BY <1>n
  <2>2. y = RenIns(x, d, b, k)
    BY <1>1
  <2> HIDE DEF x, y
  <2>k. (k - 1) + 1 = k /\ k \in k..n
    BY <1>n
  <2>3. /\ Step(z, x, n0, b) /\ x.p.blk[b].jmp = z.p.blk[b].jmp
        /\ \A i \in k..n : x.p.blk[b].ins[i] = ins[i]
    BY <2>1, <2>k
  <2>4. Good(x, n0) /\ SameCode(z.p, x.p, b)
    BY <2>3 DEF Step
  <2>5. b \in Ids(x.p) /\ x.p.blk[b].ins \in Seq(Instrs) /\ DOMAIN x.p.blk[b].ins = 1..n
    <3>1. b \in Ids(x.p) /\ Len(x.p.blk[b].ins) = n
      BY <2>4 DEF SameCode, n
    <3>2. x.p.blk[b].ins \in Seq(Instrs)
      BY <3>1, <2>4, BlkIs DEF Good
    <3> QED
      BY <3>1, <3>2
  <2>6. x.p.blk[b].ins[k].to <= n0 /\ x.p.blk[b].ins[k].arg[1] <= n0 /\ x.p.blk[b].ins[k].arg[2] <= n0
    BY <2>3, <2>k, <1>a
  <2>7. Step(x, y, n0, b) /\ OnlyIns(x.p, y.p, b, k)
    BY <2>2, <2>4, <2>5, <2>6, RenInsGood
  <2>8. Step(z, y, n0, b)
    <3>1. SameCode(x.p, y.p, b) /\ Good(y, n0)
      BY <2>7 DEF Step
    <3>2. SameCode(z.p, y.p, b)
      BY <3>1, <2>4, SameCodeTrans
    <3> QED
      BY <3>1, <3>2 DEF Step
  <2>9. y.p.blk[b].jmp = z.p.blk[b].jmp
    BY <2>3, <2>7 DEF OnlyIns
  <2>10. ASSUME NEW i \in k + 1..n PROVE y.p.blk[b].ins[i] = ins[i]
    <3>1. i \in k..n /\ i # k /\ i \in 1..n
      BY <1>n
    <3>2. y.p.blk[b].ins[i] = x.p.blk[b].ins[i]
      BY <3>1, <2>5, <2>7 DEF OnlyIns
    <3> QED
      BY <3>1, <3>2, <2>3
  <2>11. Is(y, k)
    BY <2>8, <2>9, <2>10
  <2> HIDE DEF Is
  <2> QED
    BY <2>11, <2>i DEF y
<1> HIDE DEF T
<1>4. \A k \in 0..n : k \in T
  BY <1>n, <1>2, <1>3, UpTo
<1>5. Is(f[n], n)
  <2> HIDE DEF Is
  <2> QED
    BY <1>n, <1>4 DEF T
<1> QED
  BY <1>1, <1>5

LEMMA RenJmpGood ==
  ASSUME NEW n0 \in Nat, NEW z, Good(z, n0), NEW d, NEW b \in Ids(z.p), z.p.blk[b].jmp <= n0
  PROVE  Step(z, RenJmp(z, d, b), n0, b)
<1> DEFINE r == z.p.blk[b].jmp
<1> DEFINE y == GetStk(z, d, r, b)
<1> DEFINE u == Top(y, r)
<1> DEFINE q == SetJmp(z.p, b, u)
<1>1. CASE RenJmp(z, d, b) = z
  <2>1. SameCode(z.p, z.p, b)
    BY SameCodeRefl
  <2> QED
    BY <1>1, <2>1 DEF Step
<1>2. CASE Renamed(z, r) /\ RenJmp(z, d, b) = [y EXCEPT !.p = SetJmp(y.p, b, u)]
  <2>1. r \in DOMAIN z.stk
    BY <1>2 DEF Good, Renamed
  <2>2. Good(y, n0) /\ y.p = z.p /\ u \in Int
    BY <2>1, GetStkGood
  <2>3. Sound(z.p) /\ n0 <= z.p.nt
    BY DEF Good
  <2> HIDE DEF y, u, r
  <2>4. Sound(q) /\ q.nt = z.p.nt /\ SameCode(z.p, q, b)
    BY <2>2, <2>3, SetJmpIs
  <2>5. RenJmp(z, d, b) = [y EXCEPT !.p = q]
    BY <1>2, <2>2
  <2> HIDE DEF q
  <2>6. Good([y EXCEPT !.p = q], n0) /\ [y EXCEPT !.p = q].p = q
    BY <2>2, <2>3, <2>4, WithCode
  <2> QED
    BY <2>4, <2>5, <2>6 DEF Step
<1>3. RenJmp(z, d, b) = IF IsTmp(r) /\ Renamed(z, r) THEN [y EXCEPT !.p = SetJmp(y.p, b, u)] ELSE z
  BY DEF RenJmp
<1> HIDE DEF y, u, r
<1> QED
  BY <1>1, <1>2, <1>3

-----------------------------------------------------------------------------
(* Renaming phis.  No instruction and no jump changes.                     *)
Tos(f, nt) == \A i \in 1..Len(f) : f[i].to <= nt
LEMMA RenPhiGood ==
  ASSUME NEW n0 \in Nat, NEW z, Good(z, n0), NEW b \in Ids(z.p), NEW j \in DOMAIN z.p.blk[b].phi,
         z.p.blk[b].phi[j].to <= n0
  PROVE  LET y == RenPhi(z, b, j) IN Step(z, y, n0, b) /\ OnlyPhi(z.p, y.p, b, j)
<1> DEFINE f == z.p.blk[b].phi[j]
<1> DEFINE x == RenDef(z, f.to, b)
<1> DEFINE g == [f EXCEPT !.to = x.p.nt]
<1> DEFINE q == SetPhi(x.p, b, j, g)
<1>1. CASE RenPhi(z, b, j) = z
  <2>1. SameCode(z.p, z.p, b)
    BY SameCodeRefl
  <2> QED
    BY <1>1, <2>1 DEF Step, OnlyPhi
<1>2. CASE Renamed(z, f.to) /\ RenPhi(z, b, j) = [x EXCEPT !.p = q]
  <2>1. f.to \in DOMAIN z.stk /\ b \in Nat /\ Sound(z.p)
    BY <1>2, BlkIs DEF Renamed, Good
  <2>p. f \in Phis /\ f = [to |-> f.to, cls |-> f.cls, arg |-> f.arg, blk |-> f.blk]
    BY <2>1, PhiIs
  <2> HIDE DEF f
  <2>2. Good(x, n0) /\ x.p.blk = z.p.blk /\ x.p.nt \in Nat
    <3>1. LET a == RenDef(z, f.to, b) IN Good(a, n0) /\ a.p.blk = z.p.blk /\ a.p.nt \in Nat
      BY <2>1, RenDefGood
    <3> QED
      BY <3>1
  <2> HIDE DEF x
  <2>3. g \in Phis
    <3>1. g = [to |-> x.p.nt, cls |-> f.cls, arg |-> f.arg, blk |-> f.blk]
      BY <2>p
    <3> HIDE DEF g
    <3> QED
      BY <3>1, <2>2, <2>p DEF Phis
  <2> HIDE DEF g
  <2>4. b \in Ids(x.p) /\ j \in DOMAIN x.p.blk[b].phi /\ Sound(x.p) /\ n0 <= x.p.nt
    BY <2>2 DEF Ids, Good
  <2>5. Sound(q) /\ q.nt = x.p.nt /\ SameCode(x.p, q, b) /\ OnlyPhi(x.p, q, b, j)
    BY <2>3, <2>4, SetPhiIs
  <2> HIDE DEF q
  <2>6. Good([x EXCEPT !.p = q], n0) /\ [x EXCEPT !.p = q].p = q
    BY <2>2, <2>4, <2>5, WithCode
  <2>7. SameCode(z.p, q, b) /\ OnlyPhi(z.p, q, b, j)
    BY <2>2, <2>5 DEF SameCode, OnlyPhi, Ids
  <2> QED
    BY <1>2, <2>6, <2>7 DEF Step
<1>3. RenPhi(z, b, j) = IF Renamed(z, f.to) THEN [x EXCEPT !.p = q] ELSE z
  BY DEF RenPhi
<1> HIDE DEF x, f, q
<1> QED
  BY <1>1, <1>2, <1>3

LEMMA RenArgOfGood ==
  ASSUME NEW n0 \in Nat, NEW z, Good(z, n0), NEW d, NEW b \in Nat, NEW c \in Ids(z.p),
         NEW j \in DOMAIN z.p.blk[c].phi
  PROVE  Step(z, RenArgOf(z, d, b, c, j), n0, 0)
<1> DEFINE f == z.p.blk[c].phi[j]
<1> DEFINE t == z.visit[f.to]
<1> DEFINE y == GetStk(z, d, t, b)
<1> DEFINE u == Top(y, t)
<1> DEFINE g == [f EXCEPT !.arg = Append(@, u), !.blk = Append(@, b)]
<1> DEFINE q == SetPhi(z.p, c, j, g)
<1>1. CASE RenArgOf(z, d, b, c, j) = z
  <2>1. SameCode(z.p, z.p, 0)
    BY SameCodeRefl
  <2> QED
    BY <1>1, <2>1 DEF Step
<1>2. CASE Renamed(z, f.to) /\ RenArgOf(z, d, b, c, j) = [y EXCEPT !.p = SetPhi(y.p, c, j, g)]
  <2>1. t \in DOMAIN z.stk /\ Sound(z.p) /\ n0 <= z.p.nt
    BY <1>2 DEF Good, Renamed
  <2>p. /\ f \in Phis /\ f = [to |-> f.to, cls |-> f.cls, arg |-> f.arg, blk |-> f.blk]
        /\ f.arg \in Seq(Int) /\ f.blk \in Seq(Nat)
    BY <2>1, PhiIs
  <2> HIDE DEF f, t
  <2>2. Good(y, n0) /\ y.p = z.p /\ u \in Int
    BY <2>1, GetStkGood
  <2> HIDE DEF y, u
  <2>3. g \in Phis /\ g.to = f.to
    <3> DEFINE as == Append(f.arg, u)
    <3> DEFINE bs == Append(f.blk, b)
    <3>0. as \in Seq(Int) /\ bs \in Seq(Nat)
      BY <2>2, <2>p
    <3>1. g = [to |-> f.to, cls |-> f.cls, arg |-> as, blk |-> bs]
      <4>1. g = [f EXCEPT !.arg = as, !.blk = bs]
        OBVIOUS
      <4> HIDE DEF as, bs, g
      <4> QED
        BY <4>1, <2>p
    <3> HIDE DEF g, as, bs
    <3> QED
      BY <3>0, <3>1, <2>p DEF Phis
  <2> HIDE DEF g
  <2>4. g.to = z.p.blk[c].phi[j].to
    BY <2>3 DEF f
  <2>5. Sound(q) /\ q.nt = z.p.nt /\ SameCode(z.p, q, 0)
    <3>1. LET h == SetPhi(z.p, c, j, g)
          IN /\ Sound(h) /\ h.nt = z.p.nt
             /\ g.to = z.p.blk[c].phi[j].to => SameCode(z.p, h, 0)
      BY <2>1, <2>3, SetPhiIs
    <3> QED
      BY <3>1, <2>4
  <2>e. RenArgOf(z, d, b, c, j) = [y EXCEPT !.p = q]
    BY <1>2, <2>2
  <2> HIDE DEF q
  <2>6. Good([y EXCEPT !.p = q], n0) /\ [y EXCEPT !.p = q].p = q
    BY <2>1, <2>2, <2>5, WithCode
  <2> QED
    BY <2>e, <2>5, <2>6 DEF Step
<1>3. RenArgOf(z, d, b, c, j) = IF Renamed(z, f.to) THEN [y EXCEPT !.p = SetPhi(y.p, c, j, g)] ELSE z
  BY DEF RenArgOf
<1> HIDE DEF y, f, g
<1> QED
  BY <1>1, <1>2, <1>3

(* The phis of a block one after the other.                                *)
LEMMA RenPhisIs ==
  ASSUME NEW z, NEW b, Len(z.p.blk[b].phi) \in Nat
  PROVE  \E f : /\ RenPhis(z, b) = f[Len(z.p.blk[b].phi)] /\ f[0] = z
                /\ \A k \in 1..Len(z.p.blk[b].phi) : f[k] = RenPhi(f[k - 1], b, k)
<1> DEFINE m == Len(z.p.blk[b].phi)
<1> DEFINE After(k, s) == RenPhi(s, b, k)
<1> DEFINE Is(h, j) == h = [k \in 0..j |-> IF k = 0 THEN z ELSE After(k, h[k - 1])]
<1> DEFINE T == {j \in 0..m : \E h : Is(h, j)}
<1>n. m \in Nat
  OBVIOUS
<1> HIDE DEF After, m
<1>1. 0 \in T
  <2>1. Is([k \in 0..0 |-> z], 0)
    OBVIOUS
  <2> HIDE DEF Is
  <2> QED
    BY <2>1, <1>n
<1>2. ASSUME NEW j \in 1..m, j - 1 \in T PROVE j \in T
  <2>1. PICK f : Is(f, j - 1)
    BY <1>2
  <2> DEFINE e == [k \in 0..j |-> IF k = j THEN After(j, f[j - 1]) ELSE f[k]]
  <2>2. \A k \in 0..j - 1 : f[k] = IF k = 0 THEN z ELSE After(k, f[k - 1])
    BY <2>1
  <2>3. \A k \in 1..j : e[k - 1] = f[k - 1]
    BY <1>n
  <2>4. \A k \in 0..j : e[k] = IF k = 0 THEN z ELSE After(k, e[k - 1])
    BY <2>2, <2>3, <1>n
  <2>5. Is(e, j)
    BY <2>4
  <2> HIDE DEF Is, e
  <2> QED
    BY <2>5
<1> HIDE DEF T
<1>3. \A j \in 0..m : j \in T
  BY <1>n, <1>1, <1>2, UpTo
<1>4. m \in T
  BY <1>n, <1>3
<1>5. PICK f : Is(f, m)
  BY <1>4 DEF T
<1> DEFINE l == CHOOSE h : Is(h, m)
<1>6. Is(l, m)
  BY <1>5
<1>7. RenPhis(z, b) = l[m]
  BY DEF RenPhis, After, m
<1>8. l[0] = z /\ \A k \in 1..m : l[k] = After(k, l[k - 1])
  <2> HIDE DEF l
  <2> QED
    BY <1>6, <1>n
<1> HIDE DEF l
<1> QED
  BY <1>7, <1>8 DEF After, m

LEMMA RenPhisGood ==
  ASSUME NEW n0 \in Nat, NEW z, Good(z, n0), NEW b \in Ids(z.p), Tos(z.p.blk[b].phi, n0)
  PROVE  LET y == RenPhis(z, b)
         IN /\ Step(z, y, n0, b) /\ y.p.blk[b].jmp = z.p.blk[b].jmp
            /\ y.p.blk[b].ins = z.p.blk[b].ins
<1> DEFINE phi == z.p.blk[b].phi
<1> DEFINE n == Len(phi)
<1>s. Sound(z.p)
  BY DEF Good
<1>n. phi \in Seq(Phis) /\ n \in Nat
  <2>1. phi \in Seq(Phis)
    BY <1>s, BlkIs
  <2> HIDE DEF phi
  <2> QED
    BY <2>1
<1>a. \A j \in 1..n : phi[j].to <= n0
  BY DEF Tos
<1>1. PICK f : /\ RenPhis(z, b) = f[n] /\ f[0] = z
               /\ \A k \in 1..n : f[k] = RenPhi(f[k - 1], b, k)
  BY <1>n, RenPhisIs
<1> HIDE DEF n
<1> DEFINE Is(y, k) == /\ Step(z, y, n0, b) /\ y.p.blk[b].jmp = z.p.blk[b].jmp
                       /\ y.p.blk[b].ins = z.p.blk[b].ins
                       /\ \A i \in k + 1..n : y.p.blk[b].phi[i] = phi[i]
<1> DEFINE T == {k \in 0..n : Is(f[k], k)}
<1>2. 0 \in T
  <2>1. SameCode(z.p, z.p, b)
    BY SameCodeRefl
  <2>2. Is(z, 0)
    BY <2>1 DEF Step
  <2> HIDE DEF Is
  <2> QED
    BY <2>2, <1>1, <1>n
<1>3. ASSUME NEW k \in 1..n, k - 1 \in T PROVE k \in T
  <2> DEFINE x == f[k - 1]
  <2> DEFINE y == f[k]
  <2>1. Is(x, k - 1)
    BY <1>3
  <2>i. k \in 0..n /\ \A i \in k..n : i \in 1..n
    BY <1>n
  <2>2. y = RenPhi(x, b, k)
    BY <1>1
  <2> HIDE DEF x, y
  <2>k. (k - 1) + 1 = k /\ k \in k..n
    BY <1>n
  <2>3. /\ Step(z, x, n0, b) /\ x.p.blk[b].jmp = z.p.blk[b].jmp /\ x.p.blk[b].ins = z.p.blk[b].ins
        /\ \A i \in k..n : x.p.blk[b].phi[i] = phi[i]
    BY <2>1, <2>k
  <2>4. Good(x, n0) /\ SameCode(z.p, x.p, b)
    BY <2>3 DEF Step
  <2>5. /\ b \in Ids(x.p) /\ DOMAIN x.p.blk[b].phi = 1..n /\ Len(x.p.blk[b].phi) = n
    <3>1. b \in Ids(x.p) /\ Len(x.p.blk[b].phi) = n
      BY <2>4 DEF SameCode, n
    <3>2. x.p.blk[b].phi \in Seq(Phis)
      BY <3>1, <2>4, BlkIs DEF Good
    <3> QED
      BY <3>1, <3>2
  <2>6. x.p.blk[b].phi[k].to <= n0
    BY <2>3, <2>k, <1>a
  <2>7. Step(x, y, n0, b) /\ OnlyPhi(x.p, y.p, b, k)
    BY <2>2, <2>4, <2>5, <2>6, RenPhiGood
  <2>8. Step(z, y, n0, b)
    <3>1. SameCode(x.p, y.p, b) /\ Good(y, n0)
      BY <2>7 DEF Step
    <3>2. SameCode(z.p, y.p, b)
      BY <3>1, <2>4, SameCodeTrans
    <3> QED
      BY <3>1, <3>2 DEF Step
  <2>9. y.p.blk[b].jmp = z.p.blk[b].jmp /\ y.p.blk[b].ins = z.p.blk[b].ins
    BY <2>3, <2>7 DEF OnlyPhi
  <2>10. ASSUME NEW i \in k + 1..n PROVE y.p.blk[b].phi[i] = phi[i]
    <3>1. i \in k..n /\ i # k /\ i \in 1..n
      BY <1>n
    <3>2. y.p.blk[b].phi[i] = x.p.blk[b].phi[i]
      BY <3>1, <2>5, <2>7 DEF OnlyPhi
    <3> QED
      BY <3>1, <3>2, <2>3
  <2>11. Is(y, k)
    BY <2>8, <2>9, <2>10
  <2> HIDE DEF Is
  <2> QED
    BY <2>11, <2>i DEF y
<1> HIDE DEF T
<1>4. \A k \in 0..n : k \in T
  BY <1>n, <1>2, <1>3, UpTo
<1>5. Is(f[n], n)
  <2> HIDE DEF Is
  <2> QED
    BY <1>n, <1>4 DEF T
<1> QED
  BY <1>1, <1>5

(* The phis of a successor.                                                *)
SuccLoop(z, d, b, c, f) ==
  /\ RenSucc(z, d, b, c) = f[Len(z.p.blk[c].phi)] /\ f[0] = z
  /\ \A k \in 1..Len(z.p.blk[c].phi) : f[k] = RenArgOf(f[k - 1], d, b, c, k)
LEMMA RenSuccIs ==
  ASSUME NEW z, NEW d, NEW b, NEW c, Len(z.p.blk[c].phi) \in Nat
  PROVE  \E f : SuccLoop(z, d, b, c, f)
<1> DEFINE m == Len(z.p.blk[c].phi)
<1> DEFINE After(k, s) == RenArgOf(s, d, b, c, k)
<1> DEFINE Is(h, j) == h = [k \in 0..j |-> IF k = 0 THEN z ELSE After(k, h[k - 1])]
<1> DEFINE T == {j \in 0..m : \E h : Is(h, j)}
<1>n. m \in Nat
  OBVIOUS
<1> HIDE DEF After, m
<1>1. 0 \in T
  <2>1. Is([k \in 0..0 |-> z], 0)
    OBVIOUS
  <2> HIDE DEF Is
  <2> QED
    BY <2>1, <1>n
<1>2. ASSUME NEW j \in 1..m, j - 1 \in T PROVE j \in T
  <2>1. PICK f : Is(f, j - 1)
    BY <1>2
  <2> DEFINE e == [k \in 0..j |-> IF k = j THEN After(j, f[j - 1]) ELSE f[k]]
  <2>2. \A k \in 0..j - 1 : f[k] = IF k = 0 THEN z ELSE After(k, f[k - 1])
    BY <2>1
  <2>3. \A k \in 1..j : e[k - 1] = f[k - 1]
    BY <1>n
  <2>4. \A k \in 0..j : e[k] = IF k = 0 THEN z ELSE After(k, e[k - 1])
    BY <2>2, <2>3, <1>n
  <2>5. Is(e, j)
    BY <2>4
  <2> HIDE DEF Is, e
  <2> QED
    BY <2>5
<1> HIDE DEF T
<1>3. \A j \in 0..m : j \in T
  BY <1>n, <1>1, <1>2, UpTo
<1>4. m \in T
  BY <1>n, <1>3
<1>5. PICK f : Is(f, m)
  BY <1>4 DEF T
<1> DEFINE l == CHOOSE h : Is(h, m)
<1>6. Is(l, m)
  BY <1>5
<1>7. RenSucc(z, d, b, c) = l[m]
  BY DEF RenSucc, After, m
<1>8. l[0] = z /\ \A k \in 1..m : l[k] = After(k, l[k - 1])
  <2> HIDE DEF l
  <2> QED
    BY <1>6, <1>n
<1> HIDE DEF l
<1> QED
  <2>1. /\ RenSucc(z, d, b, c) = l[m] /\ l[0] = z
        /\ \A k \in 1..m : l[k] = RenArgOf(l[k - 1], d, b, c, k)
    BY <1>7, <1>8 DEF After
  <2>2. SuccLoop(z, d, b, c, l)
    BY <2>1 DEF SuccLoop, m
  <2> QED
    BY <2>2

LEMMA RenSuccGood ==
  ASSUME NEW n0 \in Nat, NEW z, Good(z, n0), NEW d, NEW b \in Nat, NEW c \in Ids(z.p)
  PROVE  Step(z, RenSucc(z, d, b, c), n0, 0)
<1> DEFINE n == Len(z.p.blk[c].phi)
<1>n. n \in Nat
  <2>1. z.p.blk[c].phi \in Seq(Phis)
    BY BlkIs DEF Good
  <2> QED
    BY <2>1
<1>0. \E f : SuccLoop(z, d, b, c, f)
  <2>1. Len(z.p.blk[c].phi) \in Nat
    BY <1>n
  <2> HIDE DEF n
  <2> QED
    BY <2>1, RenSuccIs
<1>1. PICK f : /\ RenSucc(z, d, b, c) = f[n] /\ f[0] = z
               /\ \A k \in 1..n : f[k] = RenArgOf(f[k - 1], d, b, c, k)
  BY <1>0 DEF SuccLoop
<1> HIDE DEF n
<1> DEFINE T == {k \in 0..n : Step(z, f[k], n0, 0)}
<1>2. 0 \in T
  <2>1. SameCode(z.p, z.p, 0)
    BY SameCodeRefl
  <2> QED
    BY <2>1, <1>1, <1>n DEF Step
<1>3. ASSUME NEW k \in 1..n, k - 1 \in T PROVE k \in T
  <2> DEFINE x == f[k - 1]
  <2> DEFINE y == f[k]
  <2>1. Step(z, x, n0, 0)
    BY <1>3
  <2>2. y = RenArgOf(x, d, b, c, k) /\ k \in 0..n
    BY <1>1, <1>n
  <2> HIDE DEF x, y
  <2>3. Good(x, n0) /\ SameCode(z.p, x.p, 0)
    BY <2>1 DEF Step
  <2>4. c \in Ids(x.p) /\ Len(x.p.blk[c].phi) = n
    BY <2>3 DEF SameCode, n
  <2>5. k \in DOMAIN x.p.blk[c].phi
    <3>1. x.p.blk[c].phi \in Seq(Phis)
      BY <2>3, <2>4, BlkIs DEF Good
    <3> QED
      BY <3>1, <2>4
  <2>6. Step(x, y, n0, 0)
    BY <2>2, <2>3, <2>4, <2>5, RenArgOfGood
  <2>7. SameCode(z.p, y.p, 0) /\ Good(y, n0)
    BY <2>3, <2>6, SameCodeTrans DEF Step
  <2> QED
    BY <2>2, <2>7 DEF Step, y
<1> HIDE DEF T
<1>4. \A k \in 0..n : k \in T
  BY <1>n, <1>2, <1>3, UpTo
<1>5. n \in T
  BY <1>n, <1>4
<1> QED
  BY <1>1, <1>5 DEF T

LEMMA RenIfGood ==
  ASSUME NEW n0 \in Nat, NEW z, Good(z, n0), NEW d, NEW b \in Nat, NEW c \in Ids(z.p) \cup {0}
  PROVE  Step(z, RenIf(z, d, b, c), n0, 0)
<1>1. CASE c = 0
  BY <1>1, SameCodeRefl DEF RenIf, Step
<1>2. CASE c # 0
  <2>1. Step(z, RenSucc(z, d, b, c), n0, 0)
    BY <1>2, RenSuccGood
  <2> QED
    BY <1>2, <2>1 DEF RenIf
<1> QED
  BY <1>1, <1>2

(* Renaming a block whose code came in.                                    *)
LEMMA RenBlkGood ==
  ASSUME NEW n0 \in Nat, NEW z, Good(z, n0), NEW d, NEW b \in Ids(z.p),
         Numbered(z.p.blk[b], n0), Tos(z.p.blk[b].phi, n0)
  PROVE  Step(z, RenBlk(z, d, b), n0, b)
<1> DEFINE s1 == z.p.blk[b].s1
<1> DEFINE s2 == IF z.p.blk[b].s2 = s1 THEN 0 ELSE z.p.blk[b].s2
<1> DEFINE u == RenPhis(z, b)
<1> DEFINE v == RenInss(u, d, b)
<1> DEFINE w == RenJmp(v, d, b)
<1> DEFINE x == RenIf(w, d, b, s1)
<1> DEFINE y == RenIf(x, d, b, s2)
<1>0. /\ z.p \in Programs /\ b \in Nat /\ s1 \in Ids(z.p) \cup {0} /\ s2 \in Ids(z.p) \cup {0}
  BY IdsAre DEF Good, Sound
<1>e. RenBlk(z, d, b) = y
  BY DEF RenBlk
<1> HIDE DEF s1, s2
<1>1. Step(z, u, n0, b) /\ u.p.blk[b].jmp = z.p.blk[b].jmp /\ u.p.blk[b].ins = z.p.blk[b].ins
  BY RenPhisGood
<1> HIDE DEF u
<1>2. Good(u, n0) /\ SameCode(z.p, u.p, b) /\ b \in Ids(u.p) /\ u.p.blk[b].ins = z.p.blk[b].ins /\ u.p.blk[b].jmp = z.p.blk[b].jmp
  BY <1>1 DEF Step, SameCode
<1>3. Numbered(u.p.blk[b], n0)
  BY <1>2 DEF Numbered
<1>4. Step(u, v, n0, b) /\ v.p.blk[b].jmp = u.p.blk[b].jmp
  BY <1>2, <1>3, RenInssGood
<1> HIDE DEF v
<1>5. Good(v, n0) /\ SameCode(z.p, v.p, b) /\ b \in Ids(v.p) /\ v.p.blk[b].jmp <= n0
  <2>1. SameCode(u.p, v.p, b) /\ Good(v, n0)
    BY <1>4 DEF Step
  <2>2. SameCode(z.p, v.p, b)
    BY <1>2, <2>1, SameCodeTrans
  <2> QED
    BY <1>3, <1>4, <2>1, <2>2 DEF SameCode, Numbered
<1>6. Step(v, w, n0, b)
  BY <1>5, RenJmpGood
<1> HIDE DEF w
<1>7. Good(w, n0) /\ SameCode(z.p, w.p, b) /\ Ids(w.p) = Ids(z.p)
  <2>1. SameCode(v.p, w.p, b) /\ Good(w, n0)
    BY <1>6 DEF Step
  <2>2. SameCode(z.p, w.p, b)
    BY <1>5, <2>1, SameCodeTrans
  <2> QED
    BY <2>1, <2>2 DEF SameCode
<1>8. Step(w, x, n0, 0)
  BY <1>0, <1>7, RenIfGood
<1> HIDE DEF x
<1>9. Good(x, n0) /\ SameCode(z.p, x.p, b) /\ Ids(x.p) = Ids(z.p)
  <2>1. SameCode(w.p, x.p, 0) /\ Good(x, n0) /\ w.p \in Programs
    BY <1>7, <1>8 DEF Step, Good, Sound
  <2>2. SameCode(w.p, x.p, b)
    BY <2>1, AllSame
  <2>3. SameCode(z.p, x.p, b)
    BY <1>7, <2>2, SameCodeTrans
  <2> QED
    BY <2>1, <2>3 DEF SameCode
<1>10. Step(x, y, n0, 0)
  BY <1>0, <1>9, RenIfGood
<1> HIDE DEF y
<1>11. Good(y, n0) /\ SameCode(z.p, y.p, b)
  <2>1. SameCode(x.p, y.p, 0) /\ Good(y, n0) /\ x.p \in Programs
    BY <1>9, <1>10 DEF Step, Good, Sound
  <2>2. SameCode(x.p, y.p, b)
    BY <2>1, AllSame
  <2>3. SameCode(z.p, y.p, b)
    BY <1>9, <2>2, SameCodeTrans
  <2> QED
    BY <2>1, <2>3
<1> QED
  BY <1>e, <1>11 DEF Step

-----------------------------------------------------------------------------
(* The passes before: no reference is to a temporary without a number.     *)
Args(ins, nt) == \A i \in DOMAIN ins : ins[i].to <= nt /\ ins[i].arg[1] <= nt /\ ins[i].arg[2] <= nt
Typed(g) ==
  /\ Sound(g)
  /\ \A b \in Ids(g) : g.blk[b].jmp <= g.nt /\ Args(g.blk[b].ins, g.nt) /\ Tos(g.blk[b].phi, g.nt)
Pass(g, q) == Typed(q) /\ Ids(q) = Ids(g) /\ g.nt <= q.nt

LEMMA PassTrans ==
  ASSUME NEW g, Typed(g), NEW q, NEW s, Pass(g, q), Pass(q, s)
  PROVE  Pass(g, s)
<1>1. g.nt \in Nat /\ q.nt \in Nat /\ s.nt \in Nat
  BY DEF Pass, Typed, Sound, Programs
<1>2. g.nt <= q.nt /\ q.nt <= s.nt
  BY DEF Pass
<1>3. g.nt <= s.nt
  BY <1>1, <1>2
<1> QED
  BY <1>3 DEF Pass

LEMMA PassRefl ==
  ASSUME NEW g, Typed(g)
  PROVE  Pass(g, g)
<1>1. g.nt \in Nat
  BY DEF Typed, Sound, Programs
<1> QED
  BY <1>1 DEF Pass

(* Numbered says the same of a block with a list of instructions.          *)
LEMMA ArgsNumbered ==
  ASSUME NEW k, NEW nt
  PROVE  Numbered(k, nt) <=> k.jmp <= nt /\ Args(k.ins, nt)
BY DEF Numbered, Args, Range

(* Other blocks with the same edges, and perhaps more temporaries.         *)
SameEdges(g, b, k) == k \in Blocks /\ k.s1 = g.blk[b].s1 /\ k.s2 = g.blk[b].s2
LEMMA BlocksPass ==
  ASSUME NEW g, Typed(g), NEW nt \in Nat, g.nt <= nt, NEW blk, DOMAIN blk = Ids(g), blk = [b \in Ids(g) |-> blk[b]],
         \A b \in Ids(g) : SameEdges(g, b, blk[b]) /\ blk[b].jmp <= nt /\ Args(blk[b].ins, nt) /\ Tos(blk[b].phi, nt)
  PROVE  Pass(g, [blk |-> blk, nt |-> nt])
<1> DEFINE q == [blk |-> blk, nt |-> nt]
<1>1. q.blk = blk /\ q.nt = nt
  OBVIOUS
<1>2. g \in Programs /\ Len(g.blk) \in Nat /\ Ids(g) = 1..Len(g.blk)
  BY IdsAre DEF Typed, Sound
<1>3. blk \in Seq(Blocks)
  <2>1. \A b \in 1..Len(g.blk) : blk[b] \in Blocks
    BY <1>2 DEF SameEdges
  <2>2. blk = [b \in 1..Len(g.blk) |-> blk[b]]
    BY <1>2
  <2> QED
    BY <1>2, <2>1, <2>2
<1>4. q \in Programs
  BY <1>3 DEF Programs
<1> HIDE DEF q
<1>5. Ids(q) = Ids(g)
  BY <1>1 DEF Ids
<1>6. \A b \in Ids(g) : q.blk[b].s1 \in Ids(g) \cup {0} /\ q.blk[b].s2 \in Ids(g) \cup {0}
  BY <1>1 DEF SameEdges, Typed, Sound
<1>7. Typed(q)
  BY <1>1, <1>4, <1>5, <1>6 DEF Typed, Sound
<1> QED
  BY <1>1, <1>5, <1>7 DEF Pass, q

LEMMA TypedIs ==
  ASSUME NEW g, Typed(g)
  PROVE  g = [blk |-> g.blk, nt |-> g.nt] /\ g.nt \in Nat /\ g.blk = [b \in Ids(g) |-> g.blk[b]]
<1>1. g \in Programs
  BY DEF Typed, Sound
<1>2. g.blk \in Seq(Blocks)
  BY <1>1 DEF Programs
<1> QED
  BY <1>1, <1>2 DEF Programs, Ids

(* A load or store of a promoted slot becomes a copy or an extension.      *)
LEMMA AsCopyIs ==
  ASSUME NEW s \in Instrs, NEW t \in Nat, NEW nt \in Nat, s.to <= nt, s.arg[1] <= nt, s.arg[2] <= nt,
         s.op \in Loads \/ (s.op \in Stores /\ s.arg[2] = t),
         NEW k, s.op \in Stores => k \in Classes
  PROVE  AsCopy(s, k) \in Instrs /\ AsCopy(s, k).to <= nt /\ AsCopy(s, k).arg[1] <= nt /\ AsCopy(s, k).arg[2] <= nt
<1>1. s = [op |-> s.op, cls |-> s.cls, to |-> s.to, arg |-> s.arg] /\ s.arg \in Int \X Int
  BY DEF Instrs
<1>2. CASE s.op \in Stores
  <2> DEFINE i == Ins("copy", k, s.arg[2], s.arg[1], R)
  <2>1. s.arg[2] = t
    BY <1>2 DEF Loads, Stores
  <2>2. i = [op |-> "copy", cls |-> k, to |-> t, arg |-> <<s.arg[1], 0>>]
    BY <2>1 DEF Ins, R
  <2> HIDE DEF i
  <2>3. i \in Instrs /\ i.arg = <<s.arg[1], 0>> /\ i.to = t
    <3>1. "copy" \in Ops
      BY DEF Ops
    <3>2. s.arg[1] \in Int
      BY <1>1
    <3> QED
      BY <1>2, <2>2, <3>1, <3>2 DEF Instrs
  <2>4. AsCopy(s, k) = i
    BY <1>2 DEF AsCopy, i
  <2> QED
    BY <2>1, <2>3, <2>4
<1>3. ASSUME NEW op \in Ops
      PROVE  LET i == [s EXCEPT !.op = op] IN i \in Instrs /\ i.to <= nt /\ i.arg[1] <= nt /\ i.arg[2] <= nt
  <2> DEFINE i == [s EXCEPT !.op = op]
  <2>1. i = [op |-> op, cls |-> s.cls, to |-> s.to, arg |-> s.arg]
    BY <1>1
  <2> HIDE DEF i
  <2>2. i \in Instrs /\ i.arg = s.arg /\ i.to = s.to
    BY <2>1 DEF Instrs
  <2> QED
    BY <2>2 DEF i
<1>4. CASE s.op \in Loads /\ s.op \notin Stores
  <2>1. s.op # "load" => ExtOf[s.op] \in Ops
    <3> SUFFICES ASSUME s.op # "load" PROVE ExtOf[s.op] \in Ops
      OBVIOUS
    <3>1. s.op \in DOMAIN ExtOf
      BY <1>4 DEF Loads, ExtOf
    <3>2. ExtOf[s.op] \in Exts
      BY <3>1 DEF Exts
    <3> QED
      BY <3>2 DEF Ops
  <2> DEFINE op == IF s.op = "load" \/ (s.op \in {"loadsw", "loaduw"} /\ k # "l")
                   THEN IF IsFloat(k) # IsFloat(s.cls) THEN "cast" ELSE "copy"
                   ELSE ExtOf[s.op]
  <2>2. op \in Ops
    <3>1. "cast" \in Ops /\ "copy" \in Ops
      BY DEF Ops
    <3> QED
      BY <2>1, <3>1
  <2>3. AsCopy(s, k) = [s EXCEPT !.op = op]
    BY <1>4 DEF AsCopy
  <2> HIDE DEF op
  <2> QED
    BY <2>2, <2>3, <1>3
<1> QED
  BY <1>2, <1>4

LEMMA PromotedPass ==
  ASSUME NEW g, Typed(g), NEW t \in Nat, Uniform(g, t)
  PROVE  Pass(g, Promoted(g, t))
<1> DEFINE Changed(s) == IF s.op = "alloc" /\ s.to = t THEN Nop
                         ELSE IF t \in Range(s.arg) THEN AsCopy(s, SlotCls(g, t)) ELSE s
<1> DEFINE Fine(s) == s \in Instrs /\ s.to <= g.nt /\ s.arg[1] <= g.nt /\ s.arg[2] <= g.nt
<1>p. g = [blk |-> g.blk, nt |-> g.nt] /\ g.nt \in Nat /\ Sound(g)
  BY TypedIs DEF Typed
<1>1. ASSUME NEW b \in Ids(g), NEW j \in DOMAIN g.blk[b].ins
      PROVE  Fine(Changed(g.blk[b].ins[j]))
  <2> DEFINE s == g.blk[b].ins[j]
  <2>1. Fine(s) /\ s.arg = <<s.arg[1], s.arg[2]>>
    <3>1. s \in Instrs /\ s.arg = <<s.arg[1], s.arg[2]>>
      <4>1. Sound(g)
        BY <1>p
      <4>2. /\ s \in Instrs /\ s = [op |-> s.op, cls |-> s.cls, to |-> s.to, arg |-> s.arg]
            /\ s.arg = <<s.arg[1], s.arg[2]>> /\ s.arg[1] \in Int /\ s.arg[2] \in Int
        BY <4>1, InsIs
      <4> HIDE DEF s
      <4> QED
        BY <4>2
    <3>2. Args(g.blk[b].ins, g.nt)
      BY DEF Typed
    <3> QED
      BY <3>1, <3>2 DEF Args
  <2>2. Fine(Nop)
    <3>1. Nop = [op |-> "nop", cls |-> "w", to |-> 0, arg |-> <<0, 0>>]
      BY DEF Nop, Ins, R
    <3>o. "nop" \in Ops /\ "w" \in Classes
      BY DEF Ops, Classes
    <3>2. Nop \in Instrs /\ Nop.arg = <<0, 0>> /\ Nop.to = 0
      BY <3>1, <3>o DEF Instrs
    <3> QED
      BY <1>p, <3>2
  <2>3. ASSUME t \in Range(s.arg) PROVE Fine(AsCopy(s, SlotCls(g, t)))
    <3> DEFINE u == [type |-> "ins", b |-> b, i |-> j]
    <3>1. u \in Uses(g, t)
      BY <2>3 DEF Uses
    <3>2. InsAt(g, u) = s /\ s \in SlotOps(g, t)
      BY <3>1 DEF InsAt, SlotOps
    <3>3. PICK sz \in {1, 2, 4, 8}, k \in {"w", "l", "s", "d"} :
            \A v \in Uses(g, t) : v.type = "ins" /\ IsUseOf(InsAt(g, v), t, sz, k)
      BY DEF Uniform
    <3>4. IsUseOf(s, t, sz, k)
      BY <3>1, <3>2, <3>3
    <3>5. s.op \in Loads \/ (s.op \in Stores /\ s.arg[2] = t)
      BY <3>4 DEF IsUseOf
    <3>6. s.op \in Stores => SlotCls(g, t) \in Classes
      <4> SUFFICES ASSUME s.op \in Stores PROVE SlotCls(g, t) \in Classes
        OBVIOUS
      <4> DEFINE c == CHOOSE x \in SlotOps(g, t) : x.op \in Stores
      <4>1. c.op \in Stores
        <5> HIDE DEF s
        <5> QED
          BY <3>2
      <4> HIDE DEF c
      <4>2. StoreCls[c.op] \in Classes
        BY <4>1 DEF Stores, StoreCls, Classes
      <4> QED
        BY <4>2 DEF SlotCls, c
    <3> HIDE DEF s
    <3> QED
      BY <1>p, <2>1, <3>5, <3>6, AsCopyIs
  <2> HIDE DEF s, Fine
  <2>4. Fine(Changed(s))
    BY <2>1, <2>2, <2>3
  <2> QED
    BY <2>4 DEF s
<1> DEFINE ins(b) == [j \in DOMAIN g.blk[b].ins |-> Changed(g.blk[b].ins[j])]
<1> DEFINE blk == [b \in Ids(g) |-> [g.blk[b] EXCEPT !.ins = ins(b)]]
<1>2. Promoted(g, t) = [g EXCEPT !.blk = blk]
  BY DEF Promoted
<1> HIDE DEF Changed
<1>3. ASSUME NEW b \in Ids(g)
      PROVE  SameEdges(g, b, blk[b]) /\ blk[b].jmp <= g.nt /\ Args(blk[b].ins, g.nt) /\ Tos(blk[b].phi, g.nt)
  <2>1. /\ g.blk[b].phi \in Seq(Phis) /\ g.blk[b].ins \in Seq(Instrs) /\ g.blk[b].jmp \in Int /\ g.blk[b] \in Blocks
        /\ g.blk[b] = [phi |-> g.blk[b].phi, ins |-> g.blk[b].ins, jmp |-> g.blk[b].jmp,
                       s1 |-> g.blk[b].s1, s2 |-> g.blk[b].s2]
    BY <1>p, BlkIs
  <2>2. ins(b) \in Seq(Instrs) /\ Args(ins(b), g.nt)
    <3>1. \A j \in DOMAIN g.blk[b].ins : Changed(g.blk[b].ins[j]) \in Instrs
      BY <1>1
    <3>2. ins(b) \in Seq(Instrs)
      BY <2>1, <3>1
    <3>3. Args(ins(b), g.nt)
      BY <1>1 DEF Args
    <3> QED
      BY <3>2, <3>3
  <2> HIDE DEF ins
  <2>3. blk[b] = [phi |-> g.blk[b].phi, ins |-> ins(b), jmp |-> g.blk[b].jmp,
                  s1 |-> g.blk[b].s1, s2 |-> g.blk[b].s2]
    BY <2>1
  <2> HIDE DEF blk
  <2>4. /\ blk[b] \in Blocks /\ blk[b].s1 = g.blk[b].s1 /\ blk[b].s2 = g.blk[b].s2
        /\ blk[b].jmp = g.blk[b].jmp /\ blk[b].ins = ins(b) /\ blk[b].phi = g.blk[b].phi
    BY <2>1, <2>2, <2>3 DEF Blocks
  <2>5. g.blk[b].jmp <= g.nt /\ Tos(g.blk[b].phi, g.nt)
    BY DEF Typed
  <2> QED
    BY <2>2, <2>4, <2>5 DEF SameEdges
<1>4. DOMAIN blk = Ids(g) /\ blk = [b \in Ids(g) |-> blk[b]]
  OBVIOUS
<1> HIDE DEF blk
<1>5. Promoted(g, t) = [blk |-> blk, nt |-> g.nt]
  BY <1>2, <1>p
<1>6. g.nt <= g.nt
  BY <1>p
<1>7. Pass(g, [blk |-> blk, nt |-> g.nt])
  BY <1>p, <1>3, <1>4, <1>6, BlocksPass
<1> QED
  BY <1>5, <1>7

(* The slots one after the other.                                          *)
LEMMA MemOptIs ==
  ASSUME NEW g, Len(g.blk[1].ins) \in Nat
  PROVE  \E f : /\ MemOpt(g) = f[Len(g.blk[1].ins)] /\ f[0] = g
                /\ \A k \in 1..Len(g.blk[1].ins) : f[k] = TrySlot(f[k - 1], g.blk[1].ins[k])
<1> DEFINE m == Len(g.blk[1].ins)
<1> DEFINE After(k, s) == TrySlot(s, g.blk[1].ins[k])
<1> DEFINE Is(h, j) == h = [k \in 0..j |-> IF k = 0 THEN g ELSE After(k, h[k - 1])]
<1> DEFINE T == {j \in 0..m : \E h : Is(h, j)}
<1>n. m \in Nat
  OBVIOUS
<1> HIDE DEF After, m
<1>1. 0 \in T
  <2>1. Is([k \in 0..0 |-> g], 0)
    OBVIOUS
  <2> HIDE DEF Is
  <2> QED
    BY <2>1, <1>n
<1>2. ASSUME NEW j \in 1..m, j - 1 \in T PROVE j \in T
  <2>1. PICK f : Is(f, j - 1)
    BY <1>2
  <2> DEFINE e == [k \in 0..j |-> IF k = j THEN After(j, f[j - 1]) ELSE f[k]]
  <2>2. \A k \in 0..j - 1 : f[k] = IF k = 0 THEN g ELSE After(k, f[k - 1])
    BY <2>1
  <2>3. \A k \in 1..j : e[k - 1] = f[k - 1]
    BY <1>n
  <2>4. \A k \in 0..j : e[k] = IF k = 0 THEN g ELSE After(k, e[k - 1])
    BY <2>2, <2>3, <1>n
  <2>5. Is(e, j)
    BY <2>4
  <2> HIDE DEF Is, e
  <2> QED
    BY <2>5
<1> HIDE DEF T
<1>3. \A j \in 0..m : j \in T
  BY <1>n, <1>1, <1>2, UpTo
<1>4. m \in T
  BY <1>n, <1>3
<1>5. PICK f : Is(f, m)
  BY <1>4 DEF T
<1> DEFINE l == CHOOSE h : Is(h, m)
<1>6. Is(l, m)
  BY <1>5
<1>7. MemOpt(g) = l[m]
  BY DEF MemOpt, After, m
<1>8. l[0] = g /\ \A k \in 1..m : l[k] = After(k, l[k - 1])
  <2> HIDE DEF l
  <2> QED
    BY <1>6, <1>n
<1> HIDE DEF l
<1> QED
  BY <1>7, <1>8 DEF After, m

LEMMA MemOptPasses ==
  ASSUME NEW g, Typed(g), 1 \in Ids(g)
  PROVE  Pass(g, MemOpt(g))
<1> DEFINE n == Len(g.blk[1].ins)
<1>s. Sound(g)
  BY DEF Typed
<1>n. n \in Nat /\ \A k \in 1..n : g.blk[1].ins[k].to \in Nat
  <2>1. g.blk[1].ins \in Seq(Instrs)
    BY <1>s, BlkIs
  <2>2. n \in Nat /\ \A k \in 1..n : k \in DOMAIN g.blk[1].ins
    BY <2>1
  <2> HIDE DEF n
  <2>3. ASSUME NEW k \in 1..n PROVE g.blk[1].ins[k].to \in Nat
    <3>1. k \in DOMAIN g.blk[1].ins
      BY <2>2
    <3> QED
      BY <3>1, <1>s, InsIs
  <2> QED
    BY <2>2, <2>3
<1>1. PICK f : /\ MemOpt(g) = f[n] /\ f[0] = g
               /\ \A k \in 1..n : f[k] = TrySlot(f[k - 1], g.blk[1].ins[k])
  BY <1>n, MemOptIs
<1> HIDE DEF n
<1> DEFINE T == {k \in 0..n : Pass(g, f[k])}
<1>2. 0 \in T
  BY <1>1, <1>n, PassRefl
<1>3. ASSUME NEW k \in 1..n, k - 1 \in T PROVE k \in T
  <2> DEFINE q == f[k - 1]
  <2> DEFINE s == g.blk[1].ins[k]
  <2>1. Pass(g, q) /\ k \in 0..n
    BY <1>3, <1>n
  <2>2. f[k] = TrySlot(q, s) /\ s.to \in Nat
    BY <1>1, <1>n
  <2> HIDE DEF q, s
  <2>3. Typed(q)
    BY <2>1 DEF Pass
  <2>4. Pass(q, TrySlot(q, s))
    <3>1. CASE Uniform(q, s.to) /\ TrySlot(q, s) = Promoted(q, s.to)
      BY <2>2, <2>3, <3>1, PromotedPass
    <3>2. CASE TrySlot(q, s) = q
      BY <2>3, <3>2, PassRefl
    <3> QED
      BY <3>1, <3>2 DEF TrySlot
  <2>5. Pass(g, f[k])
    BY <2>1, <2>2, <2>4, PassTrans
  <2> QED
    BY <2>1, <2>5
<1> HIDE DEF T
<1>4. \A k \in 0..n : k \in T
  BY <1>n, <1>2, <1>3, UpTo
<1>5. n \in T
  BY <1>n, <1>4
<1> QED
  BY <1>1, <1>5 DEF T

-----------------------------------------------------------------------------
(* phiins(): the new numbers come after those there are.                   *)
Renumbered(g, b, t, end) ==
  [g EXCEPT !.nt = end.nt, !.blk[b].ins = end.ins,
            !.blk[b].jmp = IF end.r = R THEN @ ELSE Sub(t, end.r, @)]

(* Giving the definitions of t in a block names of their own.              *)
LEMMA LocalIs ==
  ASSUME NEW g, NEW b, NEW t, Len(g.blk[b].ins) \in Nat
  PROVE  \E f : /\ Local(g, b, t) = Renumbered(g, b, t, f[Len(g.blk[b].ins)]) /\ f[0] = [nt |-> g.nt, r |-> R, ins |-> <<>>]
                /\ \A k \in 1..Len(g.blk[b].ins) : f[k] = LocalIns(f[k - 1], g.blk[b].ins[k], t)
<1> DEFINE m == Len(g.blk[b].ins)
<1> DEFINE After(k, s) == LocalIns(s, g.blk[b].ins[k], t)
<1> DEFINE Is(h, j) == h = [k \in 0..j |-> IF k = 0 THEN [nt |-> g.nt, r |-> R, ins |-> <<>>] ELSE After(k, h[k - 1])]
<1> DEFINE T == {j \in 0..m : \E h : Is(h, j)}
<1>n. m \in Nat
  OBVIOUS
<1> HIDE DEF After, m
<1>1. 0 \in T
  <2>1. Is([k \in 0..0 |-> [nt |-> g.nt, r |-> R, ins |-> <<>>]], 0)
    OBVIOUS
  <2> HIDE DEF Is
  <2> QED
    BY <2>1, <1>n
<1>2. ASSUME NEW j \in 1..m, j - 1 \in T PROVE j \in T
  <2>1. PICK f : Is(f, j - 1)
    BY <1>2
  <2> DEFINE e == [k \in 0..j |-> IF k = j THEN After(j, f[j - 1]) ELSE f[k]]
  <2>2. \A k \in 0..j - 1 : f[k] = IF k = 0 THEN [nt |-> g.nt, r |-> R, ins |-> <<>>] ELSE After(k, f[k - 1])
    BY <2>1
  <2>3. \A k \in 1..j : e[k - 1] = f[k - 1]
    BY <1>n
  <2>4. \A k \in 0..j : e[k] = IF k = 0 THEN [nt |-> g.nt, r |-> R, ins |-> <<>>] ELSE After(k, e[k - 1])
    BY <2>2, <2>3, <1>n
  <2>5. Is(e, j)
    BY <2>4
  <2> HIDE DEF Is, e
  <2> QED
    BY <2>5
<1> HIDE DEF T
<1>3. \A j \in 0..m : j \in T
  BY <1>n, <1>1, <1>2, UpTo
<1>4. m \in T
  BY <1>n, <1>3
<1>5. PICK f : Is(f, m)
  BY <1>4 DEF T
<1> DEFINE l == CHOOSE h : Is(h, m)
<1>6. Is(l, m)
  BY <1>5
<1>7. Local(g, b, t) = Renumbered(g, b, t, l[m])
  BY DEF Local, Renumbered, After, m
<1>8. l[0] = [nt |-> g.nt, r |-> R, ins |-> <<>>] /\ \A k \in 1..m : l[k] = After(k, l[k - 1])
  <2> HIDE DEF l
  <2> QED
    BY <1>6, <1>n
<1> HIDE DEF l
<1> QED
  BY <1>7, <1>8 DEF After, m

(* More temporaries.                                                       *)
LEMMA ArgsMore ==
  ASSUME NEW g, Sound(g), NEW c \in Ids(g), Args(g.blk[c].ins, g.nt), NEW nt \in Nat, g.nt <= nt
  PROVE  Args(g.blk[c].ins, nt)
<1>1. ASSUME NEW j \in DOMAIN g.blk[c].ins
      PROVE  g.blk[c].ins[j].to <= nt /\ g.blk[c].ins[j].arg[1] <= nt /\ g.blk[c].ins[j].arg[2] <= nt
  <2> DEFINE a == g.blk[c].ins[j].arg
  <2> DEFINE o == g.blk[c].ins[j].to
  <2>1. a[1] \in Int /\ a[2] \in Int /\ o \in Nat
    BY InsIs
  <2>2. a[1] <= g.nt /\ a[2] <= g.nt /\ o <= g.nt
    BY DEF Args
  <2>3. g.nt \in Nat
    BY DEF Sound, Programs
  <2> HIDE DEF a, o
  <2>4. a[1] <= nt /\ a[2] <= nt /\ o <= nt
    BY <2>1, <2>2, <2>3
  <2> QED
    BY <2>4 DEF a, o
<1> QED
  BY <1>1 DEF Args

LEMMA TosMore ==
  ASSUME NEW g, Sound(g), NEW c \in Ids(g), Tos(g.blk[c].phi, g.nt), NEW nt \in Nat, g.nt <= nt
  PROVE  Tos(g.blk[c].phi, nt)
<1> DEFINE phi == g.blk[c].phi
<1>1. phi \in Seq(Phis) /\ g.nt \in Nat
  BY BlkIs DEF Sound, Programs
<1> HIDE DEF phi
<1>2. ASSUME NEW i \in 1..Len(phi), phi[i].to <= g.nt PROVE phi[i].to <= nt
  <2>1. phi[i] \in Phis
    BY <1>1
  <2>2. phi[i].to \in Nat
    BY <2>1 DEF Phis
  <2> QED
    BY <1>1, <1>2, <2>2
<1> QED
  BY <1>2 DEF Tos, phi

LEMMA LocalPass ==
  ASSUME NEW g, Typed(g), NEW b \in Ids(g), NEW t \in Nat, t <= g.nt
  PROVE  Pass(g, Local(g, b, t))
<1> DEFINE ins == g.blk[b].ins
<1> DEFINE n == Len(ins)
<1>p. g = [blk |-> g.blk, nt |-> g.nt] /\ g.nt \in Nat /\ Sound(g)
  BY TypedIs DEF Typed
<1>b. /\ ins \in Seq(Instrs) /\ g.blk[b].jmp \in Int /\ g.blk[b] \in Blocks
      /\ g.blk[b] = [phi |-> g.blk[b].phi, ins |-> ins, jmp |-> g.blk[b].jmp,
                     s1 |-> g.blk[b].s1, s2 |-> g.blk[b].s2]
  BY <1>p, BlkIs
<1>n. n \in Nat
  <2> HIDE DEF ins
  <2> QED
    BY <1>b
<1>1. PICK f : /\ Local(g, b, t) = Renumbered(g, b, t, f[n])
               /\ f[0] = [nt |-> g.nt, r |-> R, ins |-> <<>>]
               /\ \A k \in 1..n : f[k] = LocalIns(f[k - 1], ins[k], t)
  BY <1>n, LocalIs
<1>a. ASSUME NEW k \in 1..n
      PROVE  /\ ins[k] \in Instrs
             /\ ins[k] = [op |-> ins[k].op, cls |-> ins[k].cls, to |-> ins[k].to, arg |-> ins[k].arg]
             /\ ins[k].arg[1] \in Int /\ ins[k].arg[2] \in Int
             /\ ins[k].to <= g.nt /\ ins[k].arg[1] <= g.nt /\ ins[k].arg[2] <= g.nt
  <2>0. k \in DOMAIN ins
    BY <1>b
  <2>1. LET s == ins[k]
        IN /\ s \in Instrs /\ s = [op |-> s.op, cls |-> s.cls, to |-> s.to, arg |-> s.arg]
           /\ s.to \in Nat /\ s.arg = <<s.arg[1], s.arg[2]>> /\ s.arg[1] \in Int /\ s.arg[2] \in Int
    BY <1>p, <2>0, InsIs
  <2>2. Args(ins, g.nt)
    BY DEF Typed
  <2> HIDE DEF ins
  <2>3. ins[k].to <= g.nt /\ ins[k].arg[1] <= g.nt /\ ins[k].arg[2] <= g.nt
    BY <2>0, <2>2 DEF Args
  <2> QED
    BY <2>1, <2>3
<1> DEFINE Is(st) == /\ st = [nt |-> st.nt, r |-> st.r, ins |-> st.ins]
                     /\ st.nt \in Nat /\ g.nt <= st.nt /\ st.r \in Nat /\ st.r <= st.nt
                     /\ st.ins \in Seq(Instrs) /\ Args(st.ins, st.nt)
<1> DEFINE T == {k \in 0..n : Is(f[k])}
<1> HIDE DEF n, ins
<1>2. 0 \in T
  <2> DEFINE st == [nt |-> g.nt, r |-> R, ins |-> <<>>]
  <2>1. st.nt = g.nt /\ st.r = 0 /\ st.ins = <<>>
    BY DEF R
  <2>2. Args(<<>>, g.nt)
    BY DEF Args
  <2>3. Is(st)
    BY <1>p, <2>1, <2>2
  <2> HIDE DEF Is, st
  <2> QED
    BY <2>3, <1>1, <1>n DEF st
<1>3. ASSUME NEW k \in 1..n, k - 1 \in T PROVE k \in T
  <2> DEFINE st == f[k - 1]
  <2> DEFINE s == ins[k]
  <2>1. Is(st) /\ k \in 0..n
    BY <1>3, <1>n
  <2>2. f[k] = LocalIns(st, s, t)
    BY <1>1
  <2>3. /\ s \in Instrs /\ s = [op |-> s.op, cls |-> s.cls, to |-> s.to, arg |-> s.arg]
        /\ s.arg[1] \in Int /\ s.arg[2] \in Int /\ s.arg[1] <= g.nt /\ s.arg[2] <= g.nt
        /\ s.to \in Nat /\ s.to <= g.nt
    BY <1>a DEF Instrs
  <2> HIDE DEF st, s
  <2> DEFINE r == IF st.r = R THEN t ELSE st.r
  <2> DEFINE a == <<Sub(t, r, s.arg[1]), Sub(t, r, s.arg[2])>>
  <2>4. r \in Nat /\ r <= st.nt
    BY <1>p, <2>1
  <2> HIDE DEF r
  <2>5. a \in Int \X Int /\ a[1] <= st.nt /\ a[2] <= st.nt
    <3>1. \A x \in Int : x <= g.nt => Sub(t, r, x) \in Int /\ Sub(t, r, x) <= st.nt
      BY <1>p, <2>1, <2>4 DEF Sub
    <3>2. Sub(t, r, s.arg[1]) \in Int /\ Sub(t, r, s.arg[1]) <= st.nt
      BY <2>3, <3>1
    <3>3. Sub(t, r, s.arg[2]) \in Int /\ Sub(t, r, s.arg[2]) <= st.nt
      BY <2>3, <3>1
    <3> QED
      BY <3>2, <3>3
  <2> HIDE DEF a
  <2> DEFINE s1 == [s EXCEPT !.arg = a]
  <2> DEFINE s2 == [s1 EXCEPT !.to = st.nt + 1]
  <2>6. s1 = [op |-> s.op, cls |-> s.cls, to |-> s.to, arg |-> a]
    BY <2>3
  <2>7. s2 = [op |-> s.op, cls |-> s.cls, to |-> st.nt + 1, arg |-> a]
    <3> HIDE DEF s1
    <3> QED
      BY <2>6
  <2>8. LocalIns(st, s, t) = IF s.to = t THEN [nt |-> st.nt + 1, r |-> st.nt + 1, ins |-> Append(st.ins, s2)]
                             ELSE [st EXCEPT !.ins = Append(@, s1)]
    BY DEF LocalIns, a, r
  <2> HIDE DEF s1, s2
  <2>9. s1 \in Instrs /\ s2 \in Instrs /\ s1.arg = a /\ s2.arg = a /\ s1.to = s.to /\ s2.to = st.nt + 1
    BY <2>1, <2>3, <2>5, <2>6, <2>7 DEF Instrs
  <2>10. ASSUME NEW e \in Instrs, e.arg = a, NEW nt \in Nat, st.nt <= nt, e.to <= nt
         PROVE  Append(st.ins, e) \in Seq(Instrs) /\ Args(Append(st.ins, e), nt)
    <3> DEFINE q == Append(st.ins, e)
    <3>1. /\ q \in Seq(Instrs) /\ Len(q) = Len(st.ins) + 1 /\ q[Len(st.ins) + 1] = e
          /\ \A i \in 1..Len(st.ins) : q[i] = st.ins[i]
      BY <2>1
    <3>d. DOMAIN st.ins = 1..Len(st.ins) /\ Len(st.ins) \in Nat
      BY <2>1
    <3> HIDE DEF q
    <3>2. ASSUME NEW i \in DOMAIN q PROVE q[i].to <= nt /\ q[i].arg[1] <= nt /\ q[i].arg[2] <= nt
      <4>1. CASE i = Len(st.ins) + 1
        <5>1. q[i].arg = a /\ q[i].to <= nt
          BY <4>1, <3>1, <2>10
        <5>2. a[1] \in Int /\ a[2] \in Int /\ a[1] <= st.nt /\ a[2] <= st.nt /\ st.nt \in Nat
          BY <2>5, <2>1
        <5>3. a[1] <= nt /\ a[2] <= nt
          BY <5>2, <2>10
        <5> QED
          BY <5>1, <5>3
      <4>2. CASE i # Len(st.ins) + 1
        <5>1. i \in 1..Len(st.ins)
          BY <4>2, <3>1, <3>d
        <5>2. q[i] = st.ins[i] /\ q[i] \in Instrs
          BY <5>1, <3>1
        <5>3. st.ins[i].to <= st.nt /\ st.ins[i].arg[1] <= st.nt /\ st.ins[i].arg[2] <= st.nt
          BY <5>1, <2>1, <3>d DEF Args
        <5>4. q[i].to \in Nat /\ q[i].arg[1] \in Int /\ q[i].arg[2] \in Int
          BY <5>2 DEF Instrs
        <5>5. st.nt \in Nat
          BY <2>1
        <5> QED
          BY <5>2, <5>3, <5>4, <5>5, <2>10
      <4> QED
        BY <4>1, <4>2
    <3>3. Args(q, nt)
      BY <3>2 DEF Args
    <3> QED
      BY <3>1, <3>3 DEF q
  <2>11. CASE s.to = t
    <3> DEFINE e == [nt |-> st.nt + 1, r |-> st.nt + 1, ins |-> Append(st.ins, s2)]
    <3>1. st.nt + 1 \in Nat /\ st.nt <= st.nt + 1 /\ g.nt <= st.nt + 1
      BY <1>p, <2>1
    <3>2. Append(st.ins, s2) \in Seq(Instrs) /\ Args(Append(st.ins, s2), st.nt + 1)
      <4>1. s2.to <= st.nt + 1
        BY <3>1, <2>9
      <4> QED
        BY <2>9, <2>10, <3>1, <4>1
    <3>3. e.nt = st.nt + 1 /\ e.r = st.nt + 1 /\ e.ins = Append(st.ins, s2) /\ e = [nt |-> e.nt, r |-> e.r, ins |-> e.ins]
      OBVIOUS
    <3> HIDE DEF e
    <3>4. Is(e)
      BY <3>1, <3>2, <3>3
    <3>5. f[k] = e
      BY <2>2, <2>8, <2>11 DEF e
    <3> HIDE DEF Is
    <3> QED
      BY <3>4, <3>5, <2>1
  <2>12. CASE s.to # t
    <3> DEFINE q == Append(st.ins, s1)
    <3> DEFINE e == [st EXCEPT !.ins = q]
    <3>0. st.nt \in Nat /\ st.nt <= st.nt
      BY <2>1
    <3>2. q \in Seq(Instrs) /\ Args(q, st.nt)
      <4>1. s1.to <= st.nt
        BY <2>1, <2>3, <2>9, <1>p
      <4> QED
        BY <2>9, <2>10, <3>0, <4>1
    <3>5. f[k] = e
      BY <2>2, <2>8, <2>12
    <3> HIDE DEF q
    <3>3. e = [nt |-> st.nt, r |-> st.r, ins |-> q]
      BY <2>1
    <3> HIDE DEF e
    <3>4. e.nt = st.nt /\ e.r = st.r /\ e.ins = q
      BY <3>3
    <3>6. Is(e)
      BY <2>1, <3>2, <3>3, <3>4
    <3> HIDE DEF Is
    <3> QED
      BY <3>5, <3>6, <2>1
  <2> QED
    BY <2>11, <2>12
<1> HIDE DEF T
<1>4. \A k \in 0..n : k \in T
  BY <1>n, <1>2, <1>3, UpTo
<1> DEFINE end == f[n]
<1>5. Is(end)
  <2>1. n \in T
    BY <1>n, <1>4
  <2> HIDE DEF Is
  <2> QED
    BY <2>1 DEF T
<1>6. Local(g, b, t) = Renumbered(g, b, t, end)
  BY <1>1
<1> HIDE DEF end
<1> DEFINE jmp == IF end.r = R THEN g.blk[b].jmp ELSE Sub(t, end.r, g.blk[b].jmp)
<1> DEFINE k == [g.blk[b] EXCEPT !.ins = end.ins, !.jmp = jmp]
<1> DEFINE blk == [g.blk EXCEPT ![b] = k]
<1>7. Renumbered(g, b, t, end) = [blk |-> blk, nt |-> end.nt]
  <2> DEFINE k1 == [g.blk[b] EXCEPT !.ins = end.ins]
  <2> DEFINE blk1 == [g.blk EXCEPT ![b] = k1]
  <2> DEFINE g1 == [blk |-> blk1, nt |-> end.nt]
  <2>2. [g EXCEPT !.nt = end.nt, !.blk[b].ins = end.ins] = g1
    <3>1. [g EXCEPT !.nt = end.nt, !.blk[b].ins = end.ins] = [g EXCEPT !.nt = end.nt, !.blk = blk1]
      OBVIOUS
    <3>2. [g EXCEPT !.nt = end.nt, !.blk = blk1] = g1
      <4> DEFINE h == [g EXCEPT !.nt = end.nt]
      <4>1. h = [blk |-> g.blk, nt |-> end.nt]
        BY <1>p
      <4>2. [g EXCEPT !.nt = end.nt, !.blk = blk1] = [h EXCEPT !.blk = blk1]
        <5> HIDE DEF blk1
        <5> QED
          OBVIOUS
      <4>3. [h EXCEPT !.blk = blk1] = [blk |-> blk1, nt |-> end.nt]
        <5> HIDE DEF h, blk1
        <5> QED
          BY <4>1
      <4> QED
        BY <4>2, <4>3
    <3> QED
      BY <3>1, <3>2
  <2>3. k1 = [phi |-> g.blk[b].phi, ins |-> end.ins, jmp |-> g.blk[b].jmp, s1 |-> g.blk[b].s1, s2 |-> g.blk[b].s2]
    BY <1>b
  <2>4. g1.blk[b] = k1 /\ k1.jmp = g.blk[b].jmp
    <3>1. b \in DOMAIN g.blk
      BY DEF Ids
    <3>2. blk1[b] = k1
      <4> HIDE DEF k1
      <4> QED
        BY <3>1
    <3>3. k1.jmp = g.blk[b].jmp
      <4> HIDE DEF k1
      <4> QED
        BY <2>3
    <3> HIDE DEF blk1, k1
    <3> QED
      BY <3>2, <3>3
  <2>5. [k1 EXCEPT !.jmp = jmp] = k
    OBVIOUS
  <2>6. Renumbered(g, b, t, end) = [g1 EXCEPT !.blk[b].jmp = jmp]
    <3> DEFINE Fin(x) == [x EXCEPT !.blk[b].jmp = IF end.r = R THEN @ ELSE Sub(t, end.r, @)]
    <3>1. Renumbered(g, b, t, end) = Fin([g EXCEPT !.nt = end.nt, !.blk[b].ins = end.ins])
      BY DEF Renumbered
    <3>2. Renumbered(g, b, t, end) = Fin(g1)
      <4> HIDE DEF Fin, g1
      <4> QED
        BY <3>1, <2>2
    <3>3. g1.blk[b].jmp = g.blk[b].jmp
      <4> HIDE DEF g1, k1
      <4> QED
        BY <2>4
    <3> HIDE DEF g1
    <3> QED
      BY <3>2, <3>3
  <2>7. [g1 EXCEPT !.blk[b].jmp = jmp] = [g1 EXCEPT !.blk = blk]
    <3>1. [g1 EXCEPT !.blk[b].jmp = jmp] = [g1 EXCEPT !.blk = [g1.blk EXCEPT ![b] = [g1.blk[b] EXCEPT !.jmp = jmp]]]
      OBVIOUS
    <3>2. [g1.blk[b] EXCEPT !.jmp = jmp] = k
      <4> HIDE DEF g1, k1, jmp, k
      <4> QED
        BY <2>4, <2>5
    <3>3. [g1.blk EXCEPT ![b] = k] = blk
      <4>1. g1.blk = blk1
        OBVIOUS
      <4> HIDE DEF g1, k1, k
      <4>2. [blk1 EXCEPT ![b] = k] = blk
        OBVIOUS
      <4> QED
        BY <4>1, <4>2
    <3> HIDE DEF g1, jmp, k, blk
    <3> QED
      BY <3>1, <3>2, <3>3
  <2>8. [g1 EXCEPT !.blk = blk] = [blk |-> blk, nt |-> end.nt]
    <3> HIDE DEF blk, blk1
    <3> QED
      OBVIOUS
  <2> QED
    BY <2>6, <2>7, <2>8
<1>8. jmp \in Int /\ jmp <= end.nt
  <2>1. g.blk[b].jmp <= g.nt
    BY DEF Typed
  <2> QED
    BY <2>1, <1>5, <1>p, <1>b DEF Sub
<1> HIDE DEF jmp
<1>9. k = [phi |-> g.blk[b].phi, ins |-> end.ins, jmp |-> jmp, s1 |-> g.blk[b].s1, s2 |-> g.blk[b].s2]
  <2> DEFINE k1 == [g.blk[b] EXCEPT !.ins = end.ins]
  <2>1. k1 = [phi |-> g.blk[b].phi, ins |-> end.ins, jmp |-> g.blk[b].jmp, s1 |-> g.blk[b].s1, s2 |-> g.blk[b].s2]
    BY <1>b
  <2>2. k = [k1 EXCEPT !.jmp = jmp]
    OBVIOUS
  <2> HIDE DEF k1, k
  <2> QED
    BY <2>1, <2>2
<1> HIDE DEF k
<1>10. SameEdges(g, b, k) /\ k.jmp <= end.nt /\ Args(k.ins, end.nt) /\ k.phi = g.blk[b].phi
  <2>1. k.phi = g.blk[b].phi /\ k.ins = end.ins /\ k.jmp = jmp /\ k.s1 = g.blk[b].s1 /\ k.s2 = g.blk[b].s2
    BY <1>9
  <2>2. k \in Blocks
    BY <1>5, <1>8, <1>9, <1>b DEF Blocks
  <2> QED
    BY <2>1, <2>2, <1>5, <1>8 DEF SameEdges
<1>11. /\ DOMAIN blk = Ids(g) /\ blk = [c \in Ids(g) |-> blk[c]]
       /\ blk[b] = k /\ \A c \in Ids(g) : c # b => blk[c] = g.blk[c]
  <2>1. g.blk = [c \in Ids(g) |-> g.blk[c]]
    BY TypedIs
  <2> QED
    BY <2>1
<1> HIDE DEF blk
<1>12. ASSUME NEW c \in Ids(g)
       PROVE  SameEdges(g, c, blk[c]) /\ blk[c].jmp <= end.nt /\ Args(blk[c].ins, end.nt) /\ Tos(blk[c].phi, end.nt)
  <2>0. Tos(g.blk[c].phi, end.nt)
    <3>1. Tos(g.blk[c].phi, g.nt)
      BY DEF Typed
    <3> QED
      BY <3>1, <1>5, <1>p, TosMore
  <2>1. CASE c = b
    BY <2>0, <2>1, <1>10, <1>11
  <2>2. CASE c # b
    <3>1. blk[c] = g.blk[c] /\ g.blk[c] \in Blocks /\ g.blk[c].jmp \in Int
      BY <2>2, <1>11, <1>p, BlkIs
    <3>2. g.blk[c].jmp <= g.nt /\ Args(g.blk[c].ins, g.nt)
      BY DEF Typed
    <3>3. g.blk[c].jmp <= end.nt
      BY <3>1, <3>2, <1>5, <1>p
    <3>4. Args(g.blk[c].ins, end.nt)
      BY <3>2, <1>5, <1>p, ArgsMore
    <3> QED
      BY <2>0, <3>1, <3>3, <3>4 DEF SameEdges
  <2> QED
    BY <2>1, <2>2
<1>13. Pass(g, [blk |-> blk, nt |-> end.nt])
  BY <1>5, <1>11, <1>12, BlocksPass
<1> QED
  BY <1>6, <1>7, <1>13 DEF blk

(* ... in the blocks bs.                                                   *)
LEMMA LocalsIs ==
  ASSUME NEW g, NEW bs, NEW t, Len(g.blk) \in Nat
  PROVE  \E f : /\ Locals(g, bs, t) = f[Len(g.blk)] /\ f[0] = g
                /\ \A k \in 1..Len(g.blk) : f[k] = IF k \in bs THEN Local(f[k - 1], k, t) ELSE f[k - 1]
<1> DEFINE m == Len(g.blk)
<1> DEFINE After(k, s) == IF k \in bs THEN Local(s, k, t) ELSE s
<1> DEFINE Is(h, j) == h = [k \in 0..j |-> IF k = 0 THEN g ELSE After(k, h[k - 1])]
<1> DEFINE T == {j \in 0..m : \E h : Is(h, j)}
<1>n. m \in Nat
  OBVIOUS
<1> HIDE DEF After, m
<1>1. 0 \in T
  <2>1. Is([k \in 0..0 |-> g], 0)
    OBVIOUS
  <2> HIDE DEF Is
  <2> QED
    BY <2>1, <1>n
<1>2. ASSUME NEW j \in 1..m, j - 1 \in T PROVE j \in T
  <2>1. PICK f : Is(f, j - 1)
    BY <1>2
  <2> DEFINE e == [k \in 0..j |-> IF k = j THEN After(j, f[j - 1]) ELSE f[k]]
  <2>2. \A k \in 0..j - 1 : f[k] = IF k = 0 THEN g ELSE After(k, f[k - 1])
    BY <2>1
  <2>3. \A k \in 1..j : e[k - 1] = f[k - 1]
    BY <1>n
  <2>4. \A k \in 0..j : e[k] = IF k = 0 THEN g ELSE After(k, e[k - 1])
    BY <2>2, <2>3, <1>n
  <2>5. Is(e, j)
    BY <2>4
  <2> HIDE DEF Is, e
  <2> QED
    BY <2>5
<1> HIDE DEF T
<1>3. \A j \in 0..m : j \in T
  BY <1>n, <1>1, <1>2, UpTo
<1>4. m \in T
  BY <1>n, <1>3
<1>5. PICK f : Is(f, m)
  BY <1>4 DEF T
<1> DEFINE l == CHOOSE h : Is(h, m)
<1>6. Is(l, m)
  BY <1>5
<1>7. Locals(g, bs, t) = l[m]
  BY DEF Locals, After, m
<1>8. l[0] = g /\ \A k \in 1..m : l[k] = After(k, l[k - 1])
  <2> HIDE DEF l
  <2> QED
    BY <1>6, <1>n
<1> HIDE DEF l
<1> QED
  BY <1>7, <1>8 DEF After, m

LEMMA LocalsPass ==
  ASSUME NEW g, Typed(g), NEW bs, NEW t \in Nat, t <= g.nt
  PROVE  Pass(g, Locals(g, bs, t))
<1> DEFINE n == Len(g.blk)
<1>p. g.nt \in Nat /\ n \in Nat /\ Ids(g) = 1..n
  BY IdsAre, TypedIs DEF Typed, Sound
<1>1. PICK f : /\ Locals(g, bs, t) = f[n] /\ f[0] = g
               /\ \A k \in 1..n : f[k] = IF k \in bs THEN Local(f[k - 1], k, t) ELSE f[k - 1]
  BY <1>p, LocalsIs
<1> DEFINE T == {k \in 0..n : Pass(g, f[k])}
<1> HIDE DEF n
<1>2. 0 \in T
  BY <1>1, <1>p, PassRefl
<1>3. ASSUME NEW k \in 1..n, k - 1 \in T PROVE k \in T
  <2> DEFINE q == f[k - 1]
  <2>1. Pass(g, q) /\ k \in 0..n
    BY <1>3, <1>p
  <2>2. f[k] = IF k \in bs THEN Local(q, k, t) ELSE q
    BY <1>1
  <2> HIDE DEF q
  <2>3. k \in Ids(q) /\ Typed(q)
    BY <2>1, <1>p DEF Pass
  <2>4. q.nt \in Nat
    BY <2>3, TypedIs
  <2>5. t <= q.nt
    BY <2>1, <2>4, <1>p DEF Pass
  <2>6. Pass(q, Local(q, k, t))
    BY <2>3, <2>5, LocalPass
  <2>7. Pass(g, Local(q, k, t))
    BY <2>1, <2>6, PassTrans
  <2>8. Pass(g, f[k])
    BY <2>1, <2>2, <2>7
  <2> QED
    BY <2>1, <2>8
<1> HIDE DEF T
<1>4. \A k \in 0..n : k \in T
  BY <1>p, <1>2, <1>3, UpTo
<1>5. n \in T
  BY <1>p, <1>4
<1> QED
  BY <1>1, <1>5 DEF T

LEMMA WithPhiPass ==
  ASSUME NEW g, Typed(g), NEW bs, NEW f \in Phis, f.to <= g.nt
  PROVE  Pass(g, WithPhi(g, bs, f))
<1> DEFINE Aft(b) == IF b \in bs THEN [g.blk[b] EXCEPT !.phi = <<f>> \o @] ELSE g.blk[b]
<1> DEFINE blk == [b \in Ids(g) |-> Aft(b)]
<1>p. g = [blk |-> g.blk, nt |-> g.nt] /\ g.nt \in Nat /\ Sound(g)
  BY TypedIs DEF Typed
<1>1. ASSUME NEW b \in Ids(g)
      PROVE  SameEdges(g, b, Aft(b)) /\ Aft(b).jmp <= g.nt /\ Args(Aft(b).ins, g.nt) /\ Tos(Aft(b).phi, g.nt)
  <2> DEFINE o == g.blk[b]
  <2>1. /\ o \in Blocks /\ o.phi \in Seq(Phis)
        /\ o = [phi |-> o.phi, ins |-> o.ins, jmp |-> o.jmp, s1 |-> o.s1, s2 |-> o.s2]
    BY <1>p, BlkIs
  <2>2. o.jmp <= g.nt /\ Args(o.ins, g.nt) /\ Tos(o.phi, g.nt)
    BY DEF Typed
  <2>3. CASE b \notin bs
    BY <2>1, <2>2, <2>3 DEF SameEdges
  <2>4. CASE b \in bs
    <3> DEFINE ph == <<f>> \o o.phi
    <3>1. Aft(b) = [o EXCEPT !.phi = ph]
      BY <2>4
    <3>2. ph \in Seq(Phis) /\ Tos(ph, g.nt)
      <4> DEFINE h == o.phi
      <4>1. h \in Seq(Phis) /\ Tos(h, g.nt)
        BY <2>1, <2>2
      <4> HIDE DEF h
      <4>2. /\ <<f>> \o h \in Seq(Phis) /\ Len(<<f>> \o h) = Len(h) + 1 /\ (<<f>> \o h)[1] = f
            /\ \A i \in 2..Len(h) + 1 : (<<f>> \o h)[i] = h[i - 1]
        BY <4>1
      <4>3. Len(h) \in Nat /\ \A i \in 1..Len(h) + 1 : i = 1 \/ (i \in 2..Len(h) + 1 /\ i - 1 \in 1..Len(h))
        BY <4>1
      <4>4. Tos(<<f>> \o h, g.nt)
        BY <4>1, <4>2, <4>3 DEF Tos
      <4> QED
        BY <4>2, <4>4 DEF h
    <3> HIDE DEF o, ph, Aft
    <3>3. Aft(b) = [phi |-> ph, ins |-> o.ins, jmp |-> o.jmp, s1 |-> o.s1, s2 |-> o.s2]
      BY <3>1, <2>1
    <3>4. Aft(b).phi = ph /\ Aft(b).ins = o.ins /\ Aft(b).jmp = o.jmp /\ Aft(b).s1 = o.s1 /\ Aft(b).s2 = o.s2
      BY <3>3
    <3>5. Aft(b) \in Blocks
      BY <3>2, <3>3, <2>1 DEF Blocks
    <3> QED
      BY <3>2, <3>4, <3>5, <2>2 DEF SameEdges, o
  <2> QED
    BY <2>3, <2>4
<1>2. WithPhi(g, bs, f) = [g EXCEPT !.blk = blk]
  BY DEF WithPhi
<1> HIDE DEF Aft
<1>3. blk = [b \in Ids(g) |-> blk[b]] /\ DOMAIN blk = Ids(g) /\ \A b \in Ids(g) : blk[b] = Aft(b)
  OBVIOUS
<1> HIDE DEF blk
<1>4. WithPhi(g, bs, f) = [blk |-> blk, nt |-> g.nt]
  BY <1>2, <1>p
<1>5. \A b \in Ids(g) : SameEdges(g, b, blk[b]) /\ blk[b].jmp <= g.nt /\ Args(blk[b].ins, g.nt) /\ Tos(blk[b].phi, g.nt)
  BY <1>1, <1>3
<1>6. g.nt <= g.nt
  BY <1>p
<1>7. Pass(g, [blk |-> blk, nt |-> g.nt])
  BY <1>p, <1>3, <1>5, <1>6, BlocksPass
<1> QED
  BY <1>4, <1>7

LEMMA MergedIs ==
  ASSUME NEW ks, ks \subseteq Classes, ks # {}
  PROVE  Merged(ks) \in Classes
BY DEF Merged, Classes

(* What phiins() has done for the temporaries up to k.                     *)
PhiSt(g, st, k) ==
  /\ st = [p |-> st.p, visit |-> st.visit, bad |-> st.bad]
  /\ Pass(g, st.p) /\ st.visit \subseteq 1..k
Untouched(g) == [p |-> g, visit |-> {}, bad |-> FALSE]
LEMMA PhiIns1Is ==
  ASSUME NEW g, Typed(g), NEW d, NEW out, NEW st, NEW t \in 1..g.nt, PhiSt(g, st, t - 1)
  PROVE  PhiSt(g, PhiIns1(g, d, out, st, t), t)
<1> DEFINE defb == {b \in Ids(g) : InsDefs(g, b, t) # {}}
<1> DEFINE leave == {b \in defb : t \in out[b]}
<1> DEFINE ks == UNION {{g.blk[b].ins[j].cls : j \in InsDefs(g, b, t)} : b \in leave}
<1> DEFINE live == [b \in Ids(g) |-> t \in LiveIn(g, b, out[b])]
<1> DEFINE q == Locals(st.p, defb \ leave, t)
<1> DEFINE f == NewPhi(t, Merged(ks))
<1> DEFINE pb == PhiBlks(g, d, live, leave)
<1> DEFINE e == [p |-> WithPhi(q, pb, f), visit |-> st.visit \cup {t}, bad |-> st.bad \/ Mixed(ks)]
<1>p. g.nt \in Nat /\ t \in Nat
  <2>1. g.nt \in Nat
    BY TypedIs
  <2> QED
    BY <2>1
<1>1. PhiIns1(g, d, out, st, t) = IF Settled(g, t) THEN st ELSE IF leave = {} THEN [st EXCEPT !.p = q] ELSE e
  BY DEF PhiIns1
<1>2. ASSUME leave # {} PROVE ks \subseteq Classes /\ ks # {}
  <2>1. ASSUME NEW b \in leave, NEW j \in InsDefs(g, b, t) PROVE g.blk[b].ins[j].cls \in Classes
    <3>1. b \in Ids(g) /\ j \in DOMAIN g.blk[b].ins
      BY DEF InsDefs
    <3>2. g.blk[b].ins[j] \in Instrs
      BY <3>1, InsIs DEF Typed
    <3> QED
      BY <3>2 DEF Instrs
  <2>2. PICK b \in leave : TRUE
    BY <1>2
  <2>3. PICK j \in InsDefs(g, b, t) : TRUE
    BY <2>2
  <2>4. g.blk[b].ins[j].cls \in ks
    BY <2>2, <2>3
  <2> HIDE DEF leave
  <2>5. ks \subseteq Classes
    BY <2>1
  <2> QED
    BY <2>4, <2>5
<1>q. st.visit \subseteq 1..t /\ st.visit \cup {t} \subseteq 1..t /\ st.visit \subseteq 1..t - 1
  BY <1>p DEF PhiSt
<1>3. CASE Settled(g, t)
  BY <1>1, <1>3, <1>q DEF PhiSt
<1>4. Pass(g, q)
  <2>1. Typed(st.p) /\ g.nt <= st.p.nt /\ Pass(g, st.p)
    BY DEF PhiSt, Pass
  <2>2. st.p.nt \in Nat
    BY <2>1, TypedIs
  <2>3. t <= st.p.nt
    BY <2>1, <2>2, <1>p
  <2>4. Pass(st.p, Locals(st.p, defb \ leave, t))
    <3> HIDE DEF defb, leave
    <3> QED
      BY <2>1, <2>3, <1>p, LocalsPass
  <2>5. Pass(st.p, q)
    BY <2>4
  <2> HIDE DEF q
  <2> QED
    BY <2>1, <2>5, PassTrans
<1>5. CASE ~Settled(g, t) /\ leave = {}
  <2> HIDE DEF q, leave
  <2>1. PhiIns1(g, d, out, st, t) = [st EXCEPT !.p = q]
    BY <1>1, <1>5
  <2>2. [st EXCEPT !.p = q] = [p |-> q, visit |-> st.visit, bad |-> st.bad]
    BY DEF PhiSt
  <2> QED
    BY <2>1, <2>2, <1>4, <1>q DEF PhiSt
<1>6. CASE ~Settled(g, t) /\ leave # {}
  <2>1. Merged(ks) \in Classes
    <3> HIDE DEF ks, leave
    <3> QED
      BY <1>2, <1>6, MergedIs
  <2>2. f \in Phis /\ f.to = t
    <3> HIDE DEF ks
    <3>1. <<>> \in Seq(Int) /\ <<>> \in Seq(Nat)
      OBVIOUS
    <3> QED
      BY <2>1, <3>1, <1>p DEF NewPhi, Phis
  <2> HIDE DEF f, q, pb, leave
  <2>n. Typed(q) /\ g.nt <= q.nt
    BY <1>4 DEF Pass
  <2>t. f.to <= q.nt
    <3>1. q.nt \in Nat
      BY <2>n, TypedIs
    <3> QED
      BY <2>2, <2>n, <3>1, <1>p
  <2>3. Pass(q, WithPhi(q, pb, f))
    BY <2>2, <2>n, <2>t, WithPhiPass
  <2>4. Pass(g, WithPhi(q, pb, f))
    BY <2>3, <1>4, PassTrans
  <2>5. PhiIns1(g, d, out, st, t) = e
    BY <1>1, <1>6
  <2> HIDE DEF ks
  <2>6. PhiSt(g, e, t)
    BY <2>4, <1>q DEF PhiSt
  <2> QED
    BY <2>5, <2>6
<1> QED
  BY <1>3, <1>5, <1>6

(* phiins() goes through the temporaries.                                  *)
LEMMA PhiInsIs ==
  ASSUME NEW g, NEW d, g.nt \in Nat
  PROVE  \E f : /\ PhiIns(g, d) = f[g.nt] /\ f[0] = Untouched(g)
                /\ \A k \in 1..g.nt : f[k] = PhiIns1(g, d, LiveOut(g), f[k - 1], k)
<1> DEFINE m == g.nt
<1> DEFINE After(k, s) == PhiIns1(g, d, LiveOut(g), s, k)
<1> DEFINE Is(h, j) == h = [k \in 0..j |-> IF k = 0 THEN Untouched(g) ELSE After(k, h[k - 1])]
<1> DEFINE T == {j \in 0..m : \E h : Is(h, j)}
<1>n. m \in Nat
  OBVIOUS
<1> HIDE DEF After, m
<1>1. 0 \in T
  <2>1. Is([k \in 0..0 |-> Untouched(g)], 0)
    OBVIOUS
  <2> HIDE DEF Is
  <2> QED
    BY <2>1, <1>n
<1>2. ASSUME NEW j \in 1..m, j - 1 \in T PROVE j \in T
  <2>1. PICK f : Is(f, j - 1)
    BY <1>2
  <2> DEFINE e == [k \in 0..j |-> IF k = j THEN After(j, f[j - 1]) ELSE f[k]]
  <2>2. \A k \in 0..j - 1 : f[k] = IF k = 0 THEN Untouched(g) ELSE After(k, f[k - 1])
    BY <2>1
  <2>3. \A k \in 1..j : e[k - 1] = f[k - 1]
    BY <1>n
  <2>4. \A k \in 0..j : e[k] = IF k = 0 THEN Untouched(g) ELSE After(k, e[k - 1])
    BY <2>2, <2>3, <1>n
  <2>5. Is(e, j)
    BY <2>4
  <2> HIDE DEF Is, e
  <2> QED
    BY <2>5
<1> HIDE DEF T
<1>3. \A j \in 0..m : j \in T
  BY <1>n, <1>1, <1>2, UpTo
<1>4. m \in T
  BY <1>n, <1>3
<1>5. PICK f : Is(f, m)
  BY <1>4 DEF T
<1> DEFINE l == CHOOSE h : Is(h, m)
<1>6. Is(l, m)
  BY <1>5
<1>7. PhiIns(g, d) = l[m]
  BY DEF PhiIns, Untouched, After, m
<1>8. l[0] = Untouched(g) /\ \A k \in 1..m : l[k] = After(k, l[k - 1])
  <2> HIDE DEF l
  <2> QED
    BY <1>6, <1>n
<1> HIDE DEF l
<1> QED
  BY <1>7, <1>8 DEF After, m

LEMMA PhiInsPasses ==
  ASSUME NEW g, Typed(g), NEW d
  PROVE  PhiSt(g, PhiIns(g, d), g.nt)
<1>p. g.nt \in Nat
  BY TypedIs
<1>1. PICK f : /\ PhiIns(g, d) = f[g.nt] /\ f[0] = Untouched(g)
               /\ \A k \in 1..g.nt : f[k] = PhiIns1(g, d, LiveOut(g), f[k - 1], k)
  BY <1>p, PhiInsIs
<1> DEFINE T == {k \in 0..g.nt : PhiSt(g, f[k], k)}
<1>2. 0 \in T
  <2>1. PhiSt(g, [p |-> g, visit |-> {}, bad |-> FALSE], 0)
    BY PassRefl DEF PhiSt
  <2> QED
    BY <2>1, <1>1, <1>p DEF Untouched
<1>3. ASSUME NEW k \in 1..g.nt, k - 1 \in T PROVE k \in T
  <2>1. PhiSt(g, f[k - 1], k - 1) /\ k \in 0..g.nt
    BY <1>3, <1>p
  <2>2. PhiSt(g, PhiIns1(g, d, LiveOut(g), f[k - 1], k), k)
    BY <2>1, PhiIns1Is
  <2>3. PhiSt(g, f[k], k)
    BY <1>1, <2>2
  <2> QED
    BY <2>1, <2>3
<1> HIDE DEF T
<1>4. \A k \in 0..g.nt : k \in T
  BY <1>p, <1>2, <1>3, UpTo
<1>5. g.nt \in T
  BY <1>p, <1>4
<1> QED
  BY <1>1, <1>5 DEF T

-----------------------------------------------------------------------------
(* The renamer phiins() hands over: all cells are on the free list.        *)
LEMMA FreshIs ==
  ASSUME NEW n \in Nat
  PROVE  /\ Fresh(n) \in Seq(Cells) /\ Len(Fresh(n)) = n
         /\ \A m \in 1..n : Fresh(n)[m].up = m - 1
<1>1. \A m \in 1..n : [r |-> R, b |-> 1, up |-> m - 1] \in Cells
  BY DEF Cells, R
<1>2. Fresh(n) \in [1..n -> Cells]
  BY <1>1 DEF Fresh
<1>3. \A m \in 1..n : Fresh(n)[m] = [r |-> R, b |-> 1, up |-> m - 1]
  BY DEF Fresh
<1> QED
  BY <1>2, <1>3

LEMMA RenamerGood ==
  ASSUME NEW g, Typed(g), NEW st, PhiSt(g, st, g.nt), NEW n \in Nat
  PROVE  Good(Renamer(st, Fresh(n), n), st.p.nt)
<1> DEFINE z == Renamer(st, Fresh(n), n)
<1> DEFINE up == Links(z)
<1> DEFINE ptr == Ptr(z)
<1> DEFINE D == Holders(z)
<1> DEFINE own == [m \in 1..n |-> Free]
<1> DEFINE rank == [m \in 1..n |-> m]
<1>1. /\ z = [p |-> st.p, visit |-> [t \in st.visit |-> t], cell |-> Fresh(n), namel |-> n,
              stk |-> [t \in st.visit |-> 0]]
      /\ z.p = st.p /\ z.visit = [t \in st.visit |-> t] /\ z.cell = Fresh(n) /\ z.namel = n
      /\ z.stk = [t \in st.visit |-> 0] /\ DOMAIN z.stk = st.visit /\ DOMAIN z.visit = st.visit
  BY DEF Renamer
<1>2. st.visit \subseteq Nat /\ Typed(st.p) /\ st.p.nt \in Nat
  <2>1. g.nt \in Nat /\ Typed(st.p) /\ st.visit \subseteq 1..g.nt
    BY TypedIs DEF PhiSt, Pass
  <2>2. st.p.nt \in Nat
    BY <2>1, TypedIs
  <2>3. 1..g.nt \subseteq Nat
    BY <2>1
  <2> QED
    BY <2>1, <2>2, <2>3
<1>3. Fresh(n) \in Seq(Cells) /\ Len(Fresh(n)) = n /\ \A m \in 1..n : Fresh(n)[m].up = m - 1
  BY FreshIs
<1> HIDE DEF z
<1>4. up = [m \in 1..n |-> m - 1]
  BY <1>1, <1>3 DEF Links
<1>5. ptr = [h \in D |-> IF h = Free THEN n ELSE 0] /\ Free \in D
  <2>1. ptr = [h \in D |-> IF h = Free THEN z.namel ELSE z.stk[h]]
    BY DEF Ptr
  <2>2. \A h \in D : h # Free => z.stk[h] = 0
    BY <1>1 DEF Holders
  <2>3. Free \in D
    BY DEF Holders
  <2> QED
    BY <2>1, <2>2, <2>3, <1>1
<1> HIDE DEF up, ptr, D
<1>6. Hang(n, up, D, ptr, own, rank)
  <2>1. own \in [1..n -> D] /\ rank \in [1..n -> 1..n] /\ Distinct(rank, 1..n)
    BY <1>5 DEF Distinct
  <2>2. \A h \in D : ptr[h] # 0 => own[ptr[h]] = h /\ \A m \in 1..n : up[m] # ptr[h]
    BY <1>4, <1>5
  <2>3. \A m \in 1..n : up[m] # 0 => own[up[m]] = own[m] /\ rank[up[m]] < rank[m]
    BY <1>4
  <2>4. \A m, q \in 1..n : up[m] # 0 /\ up[m] = up[q] => m = q
    BY <1>4
  <2> QED
    BY <2>1, <2>2, <2>3, <2>4 DEF Hang
<1>7. up \in [1..n -> 0..n] /\ ptr \in [D -> 0..n]
  BY <1>4, <1>5
<1>8. Linked(n, up, D, ptr)
  BY <1>6, <1>7 DEF Linked
<1>9. Stacks(z)
  <2>1. z.stk \in [DOMAIN z.stk -> Nat] /\ DOMAIN z.stk \subseteq Nat
    BY <1>1, <1>2
  <2>2. z = [p |-> z.p, visit |-> z.visit, cell |-> z.cell, namel |-> z.namel, stk |-> z.stk]
    BY <1>1
  <2> QED
    BY <2>1, <2>2, <1>1, <1>3, <1>8 DEF Stacks, up, ptr, D
<1>10. Sound(z.p) /\ st.p.nt <= z.p.nt
  BY <1>1, <1>2 DEF Typed
<1>11. /\ z.visit \in [DOMAIN z.visit -> DOMAIN z.stk]
       /\ DOMAIN z.stk \subseteq DOMAIN z.visit /\ DOMAIN z.visit \subseteq Nat
       /\ \A t \in DOMAIN z.visit : t <= st.p.nt => t \in DOMAIN z.stk
  BY <1>1, <1>2
<1>12. Good(z, st.p.nt)
  BY <1>9, <1>10, <1>11 DEF Good
<1> QED
  BY <1>12 DEF z

-----------------------------------------------------------------------------
(* Every block that waits to be renamed, and every block such a block      *)
(* dominates, is still as phiins() left it: it has no temporary above n0.  *)
Waiting(g, n0, d, ts) ==
  \A i \in DOMAIN ts : \A x \in d[ts[i]] : Numbered(g.blk[x], n0) /\ Tos(g.blk[x].phi, n0)
Renaming(g, n0, d, ts, z) ==
  /\ Good(z, n0) /\ z.p = g
  /\ ts \in Seq(Ids(g)) /\ Separate(d, ts) /\ Waiting(g, n0, d, ts)

LEMMA RenamingStarts ==
  ASSUME NEW g, Typed(g), NEW d, d[1] = Ids(g), 1 \in Ids(g),
         NEW st, PhiSt(g, st, g.nt), NEW n \in Nat
  PROVE  Renaming(st.p, st.p.nt, d, <<1>>, Renamer(st, Fresh(n), n)) /\ st.p.nt \in Nat
<1> DEFINE z == Renamer(st, Fresh(n), n)
<1>1. Good(z, st.p.nt)
  BY RenamerGood
<1>2. z.p = st.p
  BY DEF Renamer
<1>3. Typed(st.p) /\ Ids(st.p) = Ids(g)
  BY DEF PhiSt, Pass
<1>4. <<1>> \in Seq(Ids(st.p)) /\ Separate(d, <<1>>)
  BY <1>3 DEF Separate
<1>5. Waiting(st.p, st.p.nt, d, <<1>>)
  <2>1. ASSUME NEW x \in Ids(g) PROVE Numbered(st.p.blk[x], st.p.nt) /\ Tos(st.p.blk[x].phi, st.p.nt)
    BY <1>3, ArgsNumbered DEF Typed
  <2>2. \A i \in DOMAIN <<1>> : <<1>>[i] = 1
    OBVIOUS
  <2> QED
    BY <2>1, <2>2 DEF Waiting
<1>6. st.p.nt \in Nat
  BY <1>3, TypedIs
<1> HIDE DEF z
<1>7. Renaming(st.p, st.p.nt, d, <<1>>, z)
  BY <1>1, <1>2, <1>4, <1>5 DEF Renaming
<1> QED
  BY <1>6, <1>7 DEF z

LEMMA RenamingSteps ==
  ASSUME NEW n0 \in Nat, NEW g, NEW d, NEW ts, NEW z, Renaming(g, n0, d, ts, z),
         Ordered(Ids(g), d), ts # <<>>
  PROVE  LET y == RenBlk(z, d, Head(ts))
         IN /\ Renaming(y.p, n0, d, Kids(g, d, Head(ts)) \o Tail(ts), y)
            /\ Ids(y.p) = Ids(g)
<1> DEFINE b == Head(ts)
<1> DEFINE y == RenBlk(z, d, b)
<1> DEFINE more == Kids(g, d, b) \o Tail(ts)
<1>1. /\ Good(z, n0) /\ z.p = g /\ g \in Programs
      /\ ts \in Seq(Ids(g)) /\ Separate(d, ts) /\ Waiting(g, n0, d, ts)
  BY DEF Renaming, Good, Sound
<1>2. b \in Ids(g) /\ 1 \in DOMAIN ts /\ b = ts[1]
  BY <1>1
<1>3. b \in d[b] /\ \A a \in Ids(g) : d[a] \subseteq Ids(g)
  BY <1>2 DEF Ordered
<1>4. Numbered(g.blk[b], n0) /\ Tos(g.blk[b].phi, n0)
  <2> HIDE DEF b
  <2> QED
    BY <1>1, <1>2, <1>3 DEF Waiting
<1>5. Step(z, y, n0, b)
  <2> HIDE DEF b
  <2> QED
    BY <1>1, <1>2, <1>4, RenBlkGood
<1>6. /\ more \in Seq(Ids(g)) /\ Separate(d, more)
      /\ \A i \in DOMAIN more : b \notin d[more[i]]
      /\ \A i \in DOMAIN more : \E k \in DOMAIN ts : d[more[i]] \subseteq d[ts[k]]
  BY <1>1, NextSeparate
<1> HIDE DEF b, y, more
<1>7. Good(y, n0) /\ SameCode(g, y.p, b) /\ Ids(y.p) = Ids(g)
  BY <1>1, <1>5 DEF Step, SameCode
<1>8. Waiting(y.p, n0, d, more)
  <2>1. ASSUME NEW i \in DOMAIN more, NEW x \in d[more[i]] PROVE Numbered(y.p.blk[x], n0) /\ Tos(y.p.blk[x].phi, n0)
    <3>1. PICK k \in DOMAIN ts : d[more[i]] \subseteq d[ts[k]]
      BY <1>6
    <3>2. more[i] \in Ids(g) /\ x # b
      BY <1>6
    <3>3. x \in Ids(g)
      BY <3>2, <1>3
    <3>4. Numbered(g.blk[x], n0) /\ Tos(g.blk[x].phi, n0)
      BY <3>1, <1>1 DEF Waiting
    <3>5. /\ y.p.blk[x].ins = g.blk[x].ins /\ y.p.blk[x].jmp = g.blk[x].jmp
          /\ Len(y.p.blk[x].phi) = Len(g.blk[x].phi) /\ SameTos(g.blk[x].phi, y.p.blk[x].phi)
      BY <3>2, <3>3, <1>7 DEF SameCode
    <3> QED
      BY <3>4, <3>5 DEF Numbered, Tos, SameTos
  <2> QED
    BY <2>1 DEF Waiting
<1>9. Renaming(y.p, n0, d, more, y)
  BY <1>6, <1>7, <1>8 DEF Renaming
<1> QED
  BY <1>7, <1>9 DEF y, more, b

-----------------------------------------------------------------------------
(* Every function that comes in is as the proofs need it.                  *)
LEMMA FnsIncoming ==
  ASSUME NEW f \in Fns
  PROVE  /\ Incoming(f.p) /\ Typed(f.p) /\ 1 \in Ids(f.p)
         /\ Ordered(Ids(f.p), Doms(f.p))
<1> DEFINE g == f.p
<1>1. /\ g \in Programs /\ Ids(g) # {} /\ \A b \in Ids(g) :
           /\ Numbered(g.blk[b], g.nt) /\ g.blk[b].phi = <<>>
           /\ Succ(g, b) \subseteq Ids(g) \ {1}
           /\ b # 1 => \E a \in 1..b - 1 : b \in Succ(g, a)
  BY MiddleAssumption
<1> HIDE DEF g
<1>2. Incoming(g)
  BY <1>1 DEF Incoming
<1>3. Ordered(Ids(g), Doms(g))
  BY <1>2, DomsOrder
<1>4. ASSUME NEW b \in Ids(g) PROVE g.blk[b].s1 \in Ids(g) \cup {0} /\ g.blk[b].s2 \in Ids(g) \cup {0}
  BY <1>1 DEF Succ
<1>5. Typed(g)
  <2>1. Tos(<<>>, g.nt)
    BY DEF Tos
  <2> QED
    BY <1>1, <1>4, <2>1, ArgsNumbered DEF Typed, Sound
<1> QED
  BY <1>2, <1>3, <1>5 DEF g, Ordered

(* What the passes up to the renaming keep.                                *)
MidInv ==
  /\ fn \in Fns /\ dom = Doms(fn.p)
  /\ pc \in {"memopt", "phiins", "rename"} => Ids(p) = Ids(fn.p)
  /\ pc = "memopt" => p = fn.p
  /\ pc = "phiins" => Typed(p)
  /\ pc = "rename" => \E n0 \in Nat : Renaming(p, n0, dom, todo, ren)

LEMMA MidInit == Init => MidInv
BY DEF Init, MidInv

LEMMA MidNext == MidInv /\ [Next]_vars => MidInv'
<1> SUFFICES ASSUME MidInv, [Next]_vars PROVE MidInv'
  OBVIOUS
<1>i. /\ fn \in Fns /\ dom = Doms(fn.p)
      /\ pc \in {"memopt", "phiins", "rename"} => Ids(p) = Ids(fn.p)
  BY DEF MidInv
<1>f. Typed(fn.p) /\ 1 \in Ids(fn.p) /\ Ordered(Ids(fn.p), dom)
  BY <1>i, FnsIncoming
<1>1. CASE MemOptPass
  <2>1. pc = "memopt" /\ p = fn.p /\ fn' = fn /\ dom' = dom
    BY <1>1 DEF MidInv, MemOptPass
  <2>2. CASE pc' = "error"
    BY <2>1, <2>2, <1>i DEF MidInv
  <2>3. CASE pc' = "phiins" /\ p' = MemOpt(p)
    <3>1. Pass(p, MemOpt(p))
      BY <2>1, <1>f, MemOptPasses
    <3>2. Typed(p') /\ Ids(p') = Ids(p)
      BY <3>1, <2>3 DEF Pass
    <3> QED
      BY <3>2, <2>1, <2>3, <1>i DEF MidInv
  <2> QED
    BY <1>1, <2>2, <2>3 DEF MemOptPass
<1>2. CASE PhiInsPass
  <2> DEFINE st == PhiIns(p, dom)
  <2>1. pc = "phiins" /\ Typed(p) /\ Ids(p) = Ids(fn.p) /\ fn' = fn /\ dom' = dom
    BY <1>2, <1>i DEF MidInv, PhiInsPass
  <2>2. PhiSt(p, st, p.nt)
    BY <2>1, PhiInsPasses
  <2>3. \/ pc' = "error"
        \/ /\ pc' = "rename" /\ p' = st.p /\ todo' = <<1>>
           /\ \E n \in FreeNames : ren' = Renamer(st, Fresh(n), n)
    BY <1>2 DEF PhiInsPass
  <2> HIDE DEF st
  <2>4. CASE pc' = "error"
    BY <2>1, <2>4, <1>i DEF MidInv
  <2>5. CASE /\ pc' = "rename" /\ p' = st.p /\ todo' = <<1>>
             /\ \E n \in FreeNames : ren' = Renamer(st, Fresh(n), n)
    <3>1. PICK n \in FreeNames : ren' = Renamer(st, Fresh(n), n)
      BY <2>5
    <3>2. n \in Nat
      BY MiddleAssumption
    <3>3. dom[1] = Ids(p) /\ 1 \in Ids(p)
      BY <1>f, <2>1 DEF Ordered
    <3>4. Renaming(st.p, st.p.nt, dom, <<1>>, Renamer(st, Fresh(n), n)) /\ st.p.nt \in Nat
      BY <2>1, <2>2, <3>2, <3>3, RenamingStarts
    <3>5. Renaming(p', st.p.nt, dom', todo', ren')
      BY <3>1, <3>4, <2>1, <2>5
    <3>6. Ids(p') = Ids(p)
      BY <2>2, <2>5 DEF PhiSt, Pass
    <3> QED
      BY <3>4, <3>5, <3>6, <2>1, <2>5, <1>i DEF MidInv
  <2> QED
    BY <2>3, <2>4, <2>5
<1>3. CASE RenBlkStep
  <2>1. /\ pc = "rename" /\ todo # <<>> /\ pc' = pc /\ fn' = fn /\ dom' = dom
        /\ ren' = RenBlk(ren, dom, Head(todo)) /\ p' = ren'.p
        /\ todo' = Kids(p, dom, Head(todo)) \o Tail(todo)
    BY <1>3 DEF RenBlkStep
  <2>2. PICK n0 \in Nat : Renaming(p, n0, dom, todo, ren)
    BY <2>1 DEF MidInv
  <2>3. Ids(p) = Ids(fn.p) /\ Ordered(Ids(p), dom)
    BY <2>1, <1>i, <1>f
  <2> DEFINE y == RenBlk(ren, dom, Head(todo))
  <2>4. /\ Renaming(y.p, n0, dom, Kids(p, dom, Head(todo)) \o Tail(todo), y)
        /\ Ids(y.p) = Ids(p)
    BY <2>1, <2>2, <2>3, RenamingSteps
  <2> HIDE DEF y
  <2>5. Renaming(p', n0, dom', todo', ren') /\ Ids(p') = Ids(p)
    BY <2>1, <2>4 DEF y
  <2> QED
    BY <2>1, <2>3, <2>5, <1>i DEF MidInv
<1>4. CASE AliasPass
  BY <1>4, <1>i DEF MidInv, AliasPass
<1>5. CASE LoadStep
  BY <1>5, <1>i DEF MidInv, LoadStep
<1>6. CASE InsertPass
  BY <1>6, <1>i DEF MidInv, InsertPass
<1>7. CASE CopyStep
  BY <1>7, <1>i DEF MidInv, CopyStep
<1>8. CASE SubstPass
  BY <1>8, <1>i DEF MidInv, SubstPass
<1>9. CASE RunStep
  BY <1>9, <1>i DEF MidInv, RunStep
<1>10. CASE UNCHANGED vars
  BY <1>10 DEF MidInv, vars
<1>11. CASE Stopped
  BY <1>11, <1>10 DEF Stopped
<1> QED
  BY <1>1, <1>2, <1>3, <1>4, <1>5, <1>6, <1>7, <1>8, <1>9, <1>10, <1>11 DEF Next

LEMMA MidApart == MidInv => NamesApart
<1> SUFFICES ASSUME MidInv, pc = "rename" PROVE Apart(ren)
  BY DEF NamesApart, Apart
<1>1. PICK n0 \in Nat : Renaming(p, n0, dom, todo, ren)
  BY DEF MidInv
<1>2. Stacks(ren)
  BY <1>1 DEF Renaming, Good
<1> QED
  BY <1>2, StacksApart

(* While ssa.c renames, the cells of its stacks are apart: each chain ends,*)
(* and no cell is on two stacks, or on a stack and on the free list, for   *)
(* every function and every free list left by those compiled before.       *)
THEOREM StacksStayApart == Spec => []NamesApart
BY MidInit, MidNext, MidApart, PTL DEF Spec

-----------------------------------------------------------------------------
(* stk[] has an entry for each temporary there was when ssa() was called,  *)
(* and a name made since has a visit, but no entry: a block that waits for *)
(* renblk(), and all below it, must not mention one (ssa.c:239-245, 277).  *)
Named(k) ==
  {k.jmp} \cup {f.to : f \in Range(k.phi)}
    \cup UNION {{s.to, s.arg[1], s.arg[2]} : s \in Range(k.ins)}
StackThere ==
  pc = "rename" => \A i \in DOMAIN todo : \A b \in dom[todo[i]] : \A t \in Named(p.blk[b]) :
    Renamed(ren, t) => t \in DOMAIN ren.stk

LEMMA MidThere == MidInv => StackThere
<1> SUFFICES ASSUME MidInv, pc = "rename",
                    NEW i \in DOMAIN todo, NEW b \in dom[todo[i]], NEW t \in Named(p.blk[b]), Renamed(ren, t)
             PROVE  t \in DOMAIN ren.stk
  BY DEF StackThere
<1>1. PICK n0 \in Nat : Renaming(p, n0, dom, todo, ren)
  BY DEF MidInv
<1>2. Good(ren, n0) /\ Numbered(p.blk[b], n0) /\ Tos(p.blk[b].phi, n0) /\ b \in Ids(p) /\ Sound(p)
  <2>1. dom[todo[i]] \subseteq Ids(p)
    <3>1. Ids(p) = Ids(fn.p) /\ fn \in Fns /\ dom = Doms(fn.p)
      BY DEF MidInv
    <3>2. Ordered(Ids(fn.p), dom)
      BY <3>1, FnsIncoming
    <3>3. todo[i] \in Ids(p)
      BY <1>1 DEF Renaming
    <3> QED
      BY <3>1, <3>2, <3>3 DEF Ordered
  <2> QED
    BY <1>1, <2>1 DEF Renaming, Waiting, Good
<1>3. t <= n0
  <2>1. CASE t = p.blk[b].jmp
    BY <1>2, <2>1 DEF Numbered
  <2>2. CASE t \in {f.to : f \in Range(p.blk[b].phi)}
    <3>1. PICK f \in Range(p.blk[b].phi) : t = f.to
      BY <2>2
    <3>2. p.blk[b].phi \in Seq(Phis)
      BY <1>2, BlkIs
    <3>3. PICK j \in 1..Len(p.blk[b].phi) : f = p.blk[b].phi[j]
      BY <3>1, <3>2 DEF Range
    <3> QED
      BY <1>2, <3>1, <3>3 DEF Tos
  <2>3. CASE \E s \in Range(p.blk[b].ins) : t \in {s.to, s.arg[1], s.arg[2]}
    BY <1>2, <2>3 DEF Numbered
  <2> QED
    BY <2>1, <2>2, <2>3 DEF Named
<1> QED
  BY <1>2, <1>3 DEF Good, Renamed

(* rendef() and getstk() ask only for stacks ssa() made: a block, and      *)
(* every block it dominates, is left alone until its turn in the walk down *)
(* the dominator tree, so no name made before is found in it, for every    *)
(* function and every free list (ssa.c:239-245, 277).                      *)
THEOREM StacksAreThere == Spec => []StackThere
BY MidInit, MidNext, MidThere, PTL DEF Spec
=============================================================================
