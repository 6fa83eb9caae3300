------------------------------ MODULE CfgProofs ------------------------------
(***************************************************************************)
(* Proofs about the control flow graph, for every number of blocks: first  *)
(* about Cfg, then about jump threading.                                   *)
(***************************************************************************)
EXTENDS Cfg, JmpThread, Recursion

(* A list of blocks and what it holds.                                     *)
LEMMA ListIs ==
  ASSUME NEW s \in Seq(Blk)
  PROVE  /\ Len(s) \in Nat /\ DOMAIN s = 1..Len(s) /\ s \in [1..Len(s) -> Blk]
         /\ ToSet(s) = {s[j] : j \in 1..Len(s)} /\ ToSet(s) \subseteq Blk
<1>1. Len(s) \in Nat /\ DOMAIN s = 1..Len(s) /\ s \in [1..Len(s) -> Blk]
  OBVIOUS
<1> QED
  BY <1>1 DEF ToSet

(* The lists Those goes through, one block of s after the other.           *)
Filters(s, S, f) ==
  /\ f \in [0..Len(s) -> Seq(Blk)]
  /\ f[0] = <<>>
  /\ \A j \in 1..Len(s) :
       f[j] = IF s[j] \in S THEN Append(f[j - 1], s[j]) ELSE f[j - 1]

(* Those is the last of them.                                              *)
LEMMA SomeIs ==
  ASSUME NEW s \in Seq(Blk), NEW S
  PROVE  \E f : Filters(s, S, f) /\ Those(s, S) = f[Len(s)]
<1> DEFINE N == 0..Len(s)
<1> DEFINE down == [j \in N |-> j - 1]
<1> DEFINE base == [j \in N |-> <<>>]
<1> DEFINE step == [j \in N |-> [v \in Seq(Blk) |->
                      IF j # 0 /\ s[j] \in S THEN Append(v, s[j]) ELSE v]]
<1> DEFINE Rec(f) == [j \in 0..Len(s) |-> IF j = 0 THEN <<>>
                        ELSE IF s[j] \in S THEN Append(f[j - 1], s[j]) ELSE f[j - 1]]
<1>1. Len(s) \in Nat /\ \A j \in 1..Len(s) : s[j] \in Blk
  BY ListIs
<1>2. Climbs(N, {0}, down)
  <2>1. Falls(N, {0}, down, [j \in N |-> j])
    BY <1>1 DEF Falls
  <2>2. [j \in N |-> j] \in [N -> 0..Len(s)]
    OBVIOUS
  <2>3. \E h \in [N -> 0..Len(s)] : Falls(N, {0}, down, h)
    <3> HIDE DEF N, down
    <3> QED
      BY <2>1, <2>2
  <2> HIDE DEF N, down
  <2> QED
    BY <1>1, <2>3 DEF Climbs
<1>3. base \in [N -> Seq(Blk)]
  OBVIOUS
<1>4. step \in [N -> [Seq(Blk) -> Seq(Blk)]]
  <2>1. ASSUME NEW j \in N, NEW v \in Seq(Blk)
        PROVE (IF j # 0 /\ s[j] \in S THEN Append(v, s[j]) ELSE v) \in Seq(Blk)
    <3>1. CASE j # 0 /\ s[j] \in S
      <4>1. j \in 1..Len(s)
        BY <3>1, <1>1
      <4> QED
        BY <3>1, <4>1, <1>1
    <3>2. CASE ~(j # 0 /\ s[j] \in S)
      BY <3>2
    <3> QED
      BY <3>1, <3>2
  <2> QED
    BY <2>1
<1>5. PICK f \in [N -> Seq(Blk)] : Solves(N, {0}, down, base, step, f)
  <2> HIDE DEF N, down, base, step
  <2> QED
    BY <1>2, <1>3, <1>4, ClimbRecursion
<1>6. f = Rec(f)
  <2>1. ASSUME NEW j \in N PROVE f[j] = Rec(f)[j]
    <3>1. CASE j = 0
      <4>1. f[j] = base[j]
        BY <3>1, <1>5 DEF Solves
      <4> QED
        BY <3>1, <4>1
    <3>2. CASE j # 0
      <4>1. j - 1 \in N /\ j \in 1..Len(s)
        BY <3>2, <1>1
      <4>2. f[j] = step[j][f[down[j]]]
        BY <3>2, <1>5 DEF Solves
      <4>3. f[j - 1] \in Seq(Blk)
        BY <4>1
      <4> QED
        BY <3>2, <4>1, <4>2, <4>3
    <3> QED
      BY <3>1, <3>2
  <2> QED
    BY <2>1
<1> DEFINE g == CHOOSE g : g = Rec(g)
<1>7. g = Rec(g)
  BY <1>6
<1>8. Those(s, S) = g[Len(s)]
  BY DEF Those
<1> HIDE DEF g
<1>9. /\ g[0] = <<>>
      /\ \A j \in 1..Len(s) : g[j] = IF s[j] \in S THEN Append(g[j - 1], s[j]) ELSE g[j - 1]
  <2>1. \A j \in 0..Len(s) : g[j] = Rec(g)[j]
    BY <1>7
  <2> QED
    BY <2>1, <1>1
<1>10. g \in [0..Len(s) -> Seq(Blk)]
  <2> DEFINE T == {j \in N : g[j] \in Seq(Blk)}
  <2>1. 0 \in T
    <3>1. <<>> \in Seq(Blk) /\ 0 \in N
      BY <1>1
    <3> QED
      BY <1>9, <3>1
  <2>2. \A j \in 1..Len(s) : j - 1 \in T => j \in T
    <3> SUFFICES ASSUME NEW j \in 1..Len(s), g[j - 1] \in Seq(Blk) PROVE g[j] \in Seq(Blk)
      BY <1>1
    <3>1. s[j] \in Blk
      BY <1>1
    <3>2. Append(g[j - 1], s[j]) \in Seq(Blk)
      BY <3>1
    <3> QED
      BY <1>9, <3>2
  <2>3. \A j \in 0..Len(s) : j \in T
    <3> HIDE DEF T
    <3> QED
      BY <2>1, <2>2, <1>1, UpTo
  <2>4. g = [j \in 0..Len(s) |-> g[j]]
    BY <1>7
  <2> QED
    BY <2>3, <2>4
<1>11. Filters(s, S, g)
  BY <1>9, <1>10 DEF Filters
<1> QED
  BY <1>8, <1>11

(* What Those keeps: what is in the set, as often as before.               *)
LEMMA ThoseIs ==
  ASSUME NEW s \in Seq(Blk), NEW S
  PROVE  /\ Those(s, S) \in Seq(Blk)
         /\ Len(Those(s, S)) <= Len(s)
         /\ ToSet(Those(s, S)) = ToSet(s) \cap S
         /\ IsInjective(s) => IsInjective(Those(s, S))
<1>1. Len(s) \in Nat /\ \A j \in 1..Len(s) : s[j] \in Blk
  BY ListIs
<1>0. PICK f : Filters(s, S, f) /\ Those(s, S) = f[Len(s)]
  BY SomeIs
<1>2. /\ f \in [0..Len(s) -> Seq(Blk)] /\ Those(s, S) = f[Len(s)] /\ f[0] = <<>>
      /\ \A j \in 1..Len(s) : s[j] \in S => f[j] = Append(f[j - 1], s[j])
      /\ \A j \in 1..Len(s) : s[j] \notin S => f[j] = f[j - 1]
  BY <1>0 DEF Filters
<1> DEFINE Upto(j) == {s[k] : k \in 1..j} \cap S
<1> DEFINE OK(j) ==
      /\ Len(f[j]) <= j
      /\ {f[j][k] : k \in 1..Len(f[j])} = Upto(j)
      /\ IsInjective(s) => \A a, b \in 1..Len(f[j]) : f[j][a] = f[j][b] => a = b
<1>3. OK(0)
  <2>1. Len(f[0]) = 0 /\ 1..0 = {}
    BY <1>2
  <2> QED
    BY <2>1
<1>4. ASSUME NEW j \in 1..Len(s), OK(j - 1) PROVE OK(j)
  <2> DEFINE q == f[j - 1]
  <2>0. j - 1 \in 0..Len(s) /\ j - 1 \in Nat /\ s[j] \in Blk
    BY <1>1
  <2>1. q \in Seq(Blk) /\ Len(q) \in Nat /\ j - 1 \in Nat /\ s[j] \in Blk
    BY <2>0, <1>2
  <2>2. Upto(j) = IF s[j] \in S THEN Upto(j - 1) \cup {s[j]} ELSE Upto(j - 1)
    <3>1. 1..j = 1..(j - 1) \cup {j}
      BY <1>1
    <3> QED
      BY <3>1
  <2>3. CASE s[j] \notin S
    <3>1. f[j] = q
      BY <1>2, <2>3
    <3>2. Len(f[j]) <= j /\ {f[j][k] : k \in 1..Len(f[j])} = Upto(j)
      <4> HIDE DEF Upto
      <4> QED
        BY <3>1, <1>4, <2>1, <2>2, <2>3
    <3> QED
      BY <3>1, <3>2, <1>4
  <2>4. CASE s[j] \in S
    <3>1. f[j] = Append(q, s[j])
      BY <1>2, <2>4
    <3>2. Len(f[j]) = Len(q) + 1 /\ 1..Len(f[j]) = 1..Len(q) \cup {Len(q) + 1}
      BY <3>1, <2>1
    <3>3. f[j][Len(q) + 1] = s[j] /\ \A k \in 1..Len(q) : f[j][k] = q[k]
      BY <3>1, <2>1
    <3>4. {f[j][k] : k \in 1..Len(f[j])} = {q[k] : k \in 1..Len(q)} \cup {s[j]}
      BY <3>2, <3>3
    <3>5. ASSUME IsInjective(s), NEW k \in 1..Len(q) PROVE q[k] # s[j]
      <4>1. q[k] \in Upto(j - 1)
        BY <1>4
      <4>2. PICK i \in 1..(j - 1) : q[k] = s[i]
        BY <4>1
      <4>3. i \in DOMAIN s /\ j \in DOMAIN s /\ i # j
        BY <1>1, ListIs
      <4> QED
        BY <3>5, <4>2, <4>3 DEF IsInjective
    <3>6. ASSUME IsInjective(s), NEW a \in 1..Len(f[j]), NEW b \in 1..Len(f[j]),
                 f[j][a] = f[j][b]
          PROVE  a = b
      BY <3>2, <3>3, <3>5, <3>6, <1>4
    <3> HIDE DEF q
    <3>7. Len(f[j]) <= j
      <4>1. Len(q) <= j - 1
        BY <1>4 DEF q
      <4> QED
        BY <4>1, <3>2, <2>1
    <3>8. {f[j][k] : k \in 1..Len(f[j])} = Upto(j)
      BY <3>4, <2>2, <2>4, <1>4 DEF q
    <3> QED
      BY <3>6, <3>7, <3>8
  <2> QED
    BY <2>3, <2>4
<1>5. OK(Len(s))
  <2> DEFINE T == {j \in 0..Len(s) : OK(j)}
  <2> HIDE DEF OK
  <2>1. 0 \in T
    BY <1>3, <1>1
  <2>2. \A j \in 1..Len(s) : j - 1 \in T => j \in T
    BY <1>4, <1>1
  <2>3. \A j \in 0..Len(s) : j \in T
    <3> HIDE DEF T
    <3> QED
      BY <2>1, <2>2, <1>1, UpTo
  <2> QED
    BY <2>3, <1>1
<1>6. Those(s, S) \in Seq(Blk)
  BY <1>1, <1>2
<1>7. DOMAIN Those(s, S) = 1..Len(Those(s, S))
  BY <1>6
<1>8. ToSet(s) = {s[k] : k \in 1..Len(s)}
  BY ListIs
<1>9. ToSet(Those(s, S)) = ToSet(s) \cap S
  <2>1. ToSet(Those(s, S)) = {f[Len(s)][k] : k \in 1..Len(f[Len(s)])}
    BY <1>2, <1>7 DEF ToSet
  <2>2. {f[Len(s)][k] : k \in 1..Len(f[Len(s)])} = Upto(Len(s))
    BY <1>5
  <2> QED
    BY <2>1, <2>2, <1>8
<1>10. IsInjective(s) => IsInjective(Those(s, S))
  BY <1>2, <1>5, <1>7 DEF IsInjective
<1>11. Len(Those(s, S)) <= Len(s)
  BY <1>2, <1>5
<1> QED
  BY <1>6, <1>9, <1>10, <1>11

(* A list without the first of its members that is b.                      *)
LEMMA RemovedIs ==
  ASSUME NEW s \in Seq(Blk), NEW b
  PROVE  /\ RemoveFirst(s, b) \in Seq(Blk)
         /\ Len(RemoveFirst(s, b)) <= Len(s)
         /\ b \notin ToSet(s) => RemoveFirst(s, b) = s
         /\ IsInjective(s) => /\ IsInjective(RemoveFirst(s, b))
                              /\ ToSet(RemoveFirst(s, b)) = ToSet(s) \ {b}
<1>1. Len(s) \in Nat /\ (\A j \in 1..Len(s) : s[j] \in Blk) /\ DOMAIN s = 1..Len(s)
  BY ListIs
<1>2. CASE ~\E k \in 1..Len(s) : s[k] = b
  <2>1. RemoveFirst(s, b) = s
    BY <1>2 DEF RemoveFirst
  <2>2. b \notin ToSet(s)
    BY <1>1, <1>2 DEF ToSet
  <2> QED
    BY <2>1, <2>2, <1>1
<1>3. CASE \E k \in 1..Len(s) : s[k] = b
  <2> DEFINE I == {k \in 1..Len(s) : s[k] = b}
  <2>1. PICK m \in I : \A k \in I : m <= k
    <3>1. I \in SUBSET (0..Len(s)) /\ I # {}
      BY <1>1, <1>3
    <3> HIDE DEF I
    <3> QED
      BY <3>1, <1>1, Least
  <2>2. SelectInSeq(s, LAMBDA v : v = b) \in I
    <3> DEFINE Least1 == CHOOSE k \in I : \A l \in I : k =< l
    <3>1. Least1 \in I
      <4> HIDE DEF I
      <4> QED
        BY <2>1
    <3>2. SelectInSeq(s, LAMBDA v : v = b) = Least1
      BY <1>3 DEF SelectInSeq, Min
    <3> QED
      BY <3>1, <3>2
  <2> DEFINE p == SelectInSeq(s, LAMBDA v : v = b)
  <2> DEFINE r == RemoveFirst(s, b)
  <2>3. r = SubSeq(s, 1, p - 1) \o SubSeq(s, p + 1, Len(s))
    BY <1>3 DEF RemoveFirst, RemoveAt
  <2>4. p \in 1..Len(s) /\ s[p] = b
    BY <2>2
  <2> HIDE DEF p
  <2> DEFINE u == SubSeq(s, 1, p - 1)
  <2> DEFINE v == SubSeq(s, p + 1, Len(s))
  <2>5. u \in Seq(Blk) /\ Len(u) = p - 1 /\ \A k \in 1..(p - 1) : u[k] = s[k]
    <3>1. u = [k \in 1..(p - 1) |-> s[k]] /\ p - 1 \in Nat
      BY <1>1, <2>4
    <3>2. u \in Seq(Blk)
      BY <1>1, <2>4, <3>1
    <3> HIDE DEF u
    <3>3. DOMAIN u = 1..(p - 1) /\ DOMAIN u = 1..Len(u) /\ Len(u) \in Nat
      BY <3>1, <3>2
    <3>4. Len(u) = p - 1
      BY <3>1, <3>3
    <3> QED
      BY <3>1, <3>2, <3>4
  <2>6. /\ v \in Seq(Blk) /\ Len(v) = Len(s) - p
        /\ \A k \in 1..(Len(s) - p) : v[k] = s[p + k]
    <3>1. v = [k \in 1..(Len(s) - p) |-> s[p + k]] /\ Len(s) - p \in Nat
      BY <1>1, <2>4
    <3>2. v \in Seq(Blk)
      BY <1>1, <2>4, <3>1
    <3> HIDE DEF v
    <3>3. DOMAIN v = 1..(Len(s) - p) /\ DOMAIN v = 1..Len(v) /\ Len(v) \in Nat
      BY <3>1, <3>2
    <3>4. Len(v) = Len(s) - p
      BY <3>1, <3>3
    <3> QED
      BY <3>1, <3>2, <3>4
  <2>7. /\ r \in Seq(Blk) /\ Len(r) = Len(s) - 1
        /\ \A k \in 1..(Len(s) - 1) : r[k] = IF k < p THEN s[k] ELSE s[k + 1]
    <3>1. r = u \o v
      BY <2>3
    <3> HIDE DEF u, v, r
    <3>0. r \in Seq(Blk) /\ Len(r) = Len(u) + Len(v)
      <4>1. u \in Seq(Blk) /\ v \in Seq(Blk)
        BY <2>5, <2>6
      <4> QED
        BY <3>1, <4>1
    <3>2. r \in Seq(Blk) /\ Len(r) = Len(s) - 1
      BY <3>0, <2>5, <2>6, <2>4, <1>1
    <3>3. \A k \in 1..(Len(s) - 1) : r[k] = IF k <= Len(u) THEN u[k] ELSE v[k - Len(u)]
      BY <3>1, <2>5, <2>6, <2>4, <1>1
    <3>4. ASSUME NEW k \in 1..(Len(s) - 1) PROVE r[k] = IF k < p THEN s[k] ELSE s[k + 1]
      <4>1. CASE k < p
        <5>1. k \in 1..(p - 1)
          BY <4>1, <2>4, <1>1
        <5> QED
          BY <5>1, <3>3, <2>5, <4>1, <2>4, <1>1
      <4>2. CASE ~(k < p)
        <5>1. k - (p - 1) \in 1..(Len(s) - p) /\ p + (k - (p - 1)) = k + 1 /\ ~(k <= p - 1)
          BY <4>2, <2>4, <1>1
        <5> QED
          BY <5>1, <3>3, <2>5, <2>6, <4>2
      <4> QED
        BY <4>1, <4>2
    <3> QED
      BY <3>2, <3>4
  <2> HIDE DEF r, u, v
  <2>8. DOMAIN r = 1..(Len(s) - 1)
    BY <2>7
  <2>9. ASSUME IsInjective(s) PROVE IsInjective(r)
    <3> SUFFICES ASSUME NEW j \in 1..(Len(s) - 1), NEW k \in 1..(Len(s) - 1), r[j] = r[k]
                 PROVE  j = k
      BY <2>8 DEF IsInjective
    <3> DEFINE at(l) == IF l < p THEN l ELSE l + 1
    <3>1. r[j] = s[at(j)] /\ r[k] = s[at(k)] /\ at(j) \in DOMAIN s /\ at(k) \in DOMAIN s
      BY <1>1, <2>4, <2>7
    <3>2. at(j) = at(k)
      <4> HIDE DEF at
      <4> QED
        BY <3>1, <2>9 DEF IsInjective
    <3> QED
      BY <3>2, <2>4, <1>1
  <2>10. ASSUME IsInjective(s) PROVE ToSet(r) = ToSet(s) \ {b}
    <3>1. ASSUME NEW k \in 1..(Len(s) - 1) PROVE r[k] \in ToSet(s) \ {b}
      <4> DEFINE q == IF k < p THEN k ELSE k + 1
      <4>1. r[k] = s[q] /\ q \in 1..Len(s) /\ q # p
        BY <1>1, <2>4, <2>7
      <4> HIDE DEF q
      <4>2. s[q] # s[p]
        BY <4>1, <2>4, <2>10, <1>1 DEF IsInjective
      <4> QED
        BY <4>1, <4>2, <2>4, <1>1 DEF ToSet
    <3>2. ASSUME NEW c \in ToSet(s), c # b PROVE c \in ToSet(r)
      <4>1. PICK q \in 1..Len(s) : c = s[q]
        BY <1>1 DEF ToSet
      <4> DEFINE k == IF q < p THEN q ELSE q - 1
      <4>2. q # p
        BY <4>1, <3>2, <2>4
      <4>3. k \in 1..(Len(s) - 1) /\ r[k] = s[q]
        BY <4>2, <1>1, <2>4, <2>7
      <4> HIDE DEF k
      <4> QED
        BY <4>1, <4>3, <2>8 DEF ToSet
    <3> QED
      BY <3>1, <3>2, <2>8 DEF ToSet
  <2>11. b \in ToSet(s)
    BY <2>4, <1>1 DEF ToSet
  <2> QED
    BY <2>7, <2>9, <2>10, <2>11, <1>1 DEF r
<1> QED
  BY <1>2, <1>3

-----------------------------------------------------------------------------
(* C holds every successor its blocks have outside T.                      *)
Closed(C, T) == \A b \in C : Succs(b) \ T \subseteq C
(* R is the least such set with the blocks of S that are not in T.         *)
Spans(R, S, T) ==
  /\ R \subseteq Blk \ T /\ S \ T \subseteq R /\ Closed(R, T)
  /\ \A C : S \ T \subseteq C /\ Closed(C, T) => R \subseteq C

Edges == s1 \in [Blk -> Blk \cup {0}] /\ s2 \in [Blk -> Blk \cup {0}]

(* The blocks of the graph are finitely many.                              *)
LEMMA BlkIs == NBlk \in Nat /\ IsFiniteSet(Blk) /\ Cardinality(Blk) = NBlk /\ 1 \in Blk
<1>1. NBlk \in Nat /\ NBlk >= 1
  BY CfgAssumption
<1>2. IsFiniteSet(Blk) /\ Cardinality(Blk) = IF 1 > NBlk THEN 0 ELSE NBlk - 1 + 1
  BY <1>1, FS_Interval DEF Blk
<1> QED
  BY <1>1, <1>2 DEF Blk

(* Successors are blocks.                                                  *)
LEMMA SuccsIs == Edges => \A b \in Blk : Succs(b) \subseteq Blk
  BY DEF Edges, Succs, Blk

(* Reach(S, T) grows NBlk times, and by then nothing more can join it.     *)
LEMMA ReachIs == Edges => \A S \in SUBSET Blk : \A T : Spans(Reach(S, T), S, T)
<1> SUFFICES ASSUME Edges, NEW S \in SUBSET Blk, NEW T PROVE Spans(Reach(S, T), S, T)
  OBVIOUS
<1> DEFINE More(U) == U \cup ((UNION {Succs(b) : b \in U}) \ T)
<1> DEFINE next == [U \in SUBSET Blk |-> More(U)]
<1> DEFINE Rec(f) == [k \in 0..NBlk |-> IF k = 0 THEN S \ T
             ELSE f[k - 1] \cup ((UNION {Succs(b) : b \in f[k - 1]}) \ T)]
<1>1. next \in [SUBSET Blk -> SUBSET Blk]
  <2>1. ASSUME NEW U \in SUBSET Blk PROVE More(U) \in SUBSET Blk
    BY SuccsIs
  <2> QED
    BY <2>1
<1>2. PICK r \in [0..NBlk -> SUBSET Blk] : Orbit(next, S \ T, NBlk, r)
  <2>1. S \ T \in SUBSET Blk
    OBVIOUS
  <2> HIDE DEF next
  <2> QED
    BY <1>1, <2>1, BlkIs, OrbitExists
<1>3. r = Rec(r)
  <2>1. ASSUME NEW k \in 0..NBlk PROVE r[k] = Rec(r)[k]
    <3>1. CASE k = 0
      BY <3>1, <1>2 DEF Orbit
    <3>2. CASE k # 0
      <4>1. k \in 1..NBlk /\ k - 1 \in 0..NBlk
        BY <3>2, BlkIs
      <4>2. r[k] = next[r[k - 1]] /\ r[k - 1] \in SUBSET Blk
        BY <4>1, <1>2 DEF Orbit
      <4>3. r[k] = More(r[k - 1])
        BY <4>2
      <4> QED
        BY <3>2, <4>3
    <3> QED
      BY <3>1, <3>2
  <2> QED
    BY <2>1, <1>2
<1> DEFINE g == CHOOSE g : g = Rec(g)
<1>4. g = Rec(g)
  BY <1>3
<1>5. Reach(S, T) = g[NBlk]
  BY DEF Reach
<1> HIDE DEF g
<1>6. g[0] = S \ T /\ \A k \in 1..NBlk : g[k] = More(g[k - 1])
  <2>1. \A k \in 0..NBlk : g[k] = Rec(g)[k]
    BY <1>4
  <2>2. g[0] = S \ T
    <3>1. 0 \in 0..NBlk
      BY BlkIs
    <3>2. g[0] = Rec(g)[0]
      BY <2>1, <3>1
    <3> QED
      BY <3>1, <3>2
  <2>3. ASSUME NEW k \in 1..NBlk PROVE g[k] = More(g[k - 1])
    <3>1. k \in 0..NBlk /\ k # 0
      BY BlkIs
    <3>2. g[k] = Rec(g)[k]
      BY <2>1, <3>1
    <3> QED
      BY <3>1, <3>2
  <2> QED
    BY <2>2, <2>3
<1> HIDE DEF More
<1>7. ASSUME NEW Q, g[0] \in Q, \A k \in 1..NBlk : g[k - 1] \in Q => More(g[k - 1]) \in Q
      PROVE  \A k \in 0..NBlk : g[k] \in Q
  <2> DEFINE W == {k \in 0..NBlk : g[k] \in Q}
  <2>0. 0 \in 0..NBlk /\ \A k \in 1..NBlk : k \in 0..NBlk /\ k - 1 \in 0..NBlk
    BY BlkIs
  <2>1. 0 \in W /\ \A k \in 1..NBlk : k - 1 \in W => k \in W
    BY <2>0, <1>6, <1>7
  <2>2. \A k \in 0..NBlk : k \in W
    <3> HIDE DEF W
    <3> QED
      BY <2>1, BlkIs, UpTo
  <2> QED
    BY <2>2
<1>8. \A k \in 0..NBlk : g[k] \in SUBSET (Blk \ T)
  <2>1. g[0] \in SUBSET (Blk \ T)
    BY <1>6
  <2>2. ASSUME NEW U \in SUBSET (Blk \ T) PROVE More(U) \in SUBSET (Blk \ T)
    BY SuccsIs DEF More
  <2> QED
    BY <2>1, <2>2, <1>7
<1>9. \A k \in 0..NBlk : S \ T \subseteq g[k]
  <2> DEFINE Q == {U \in SUBSET (Blk \ T) : S \ T \subseteq U}
  <2>1. g[0] \in Q
    BY <1>6
  <2>2. ASSUME NEW U \in Q PROVE More(U) \in Q
    BY SuccsIs DEF More
  <2>3. \A k \in 0..NBlk : g[k] \in Q
    <3> HIDE DEF Q
    <3> QED
      BY <2>1, <2>2, <1>7
  <2> QED
    BY <2>3
<1>10. ASSUME NEW C, S \ T \subseteq C, Closed(C, T) PROVE \A k \in 0..NBlk : g[k] \subseteq C
  <2>1. g[0] \in SUBSET C
    BY <1>6, <1>10
  <2>2. ASSUME NEW U \in SUBSET C PROVE More(U) \in SUBSET C
    BY <1>10 DEF More, Closed
  <2>3. \A k \in 0..NBlk : g[k] \in SUBSET C
    BY <2>1, <2>2, <1>7
  <2> QED
    BY <2>3
<1>11. \A k \in 0..NBlk : More(g[k]) = g[k] \/ Cardinality(g[k]) >= k
  <2> DEFINE W == {k \in 0..NBlk : More(g[k]) = g[k] \/ Cardinality(g[k]) >= k}
  <2>0. \A k \in 0..NBlk : IsFiniteSet(g[k]) /\ Cardinality(g[k]) \in Nat
    <3> SUFFICES ASSUME NEW k \in 0..NBlk PROVE IsFiniteSet(g[k]) /\ Cardinality(g[k]) \in Nat
      OBVIOUS
    <3>1. g[k] \in SUBSET Blk
      BY <1>8
    <3>2. IsFiniteSet(g[k])
      BY <3>1, BlkIs, FS_Subset
    <3> QED
      BY <3>2, FS_CardinalityType
  <2>1. 0 \in W
    BY <2>0, BlkIs
  <2>2. \A k \in 1..NBlk : k - 1 \in W => k \in W
    <3> SUFFICES ASSUME NEW k \in 1..NBlk, k - 1 \in W PROVE k \in W
      OBVIOUS
    <3>1. k \in 0..NBlk /\ k - 1 \in 0..NBlk /\ g[k] = More(g[k - 1])
      BY <1>6, BlkIs
    <3>2. CASE More(g[k - 1]) = g[k - 1]
      BY <3>1, <3>2
    <3>3. CASE More(g[k - 1]) # g[k - 1]
      <4>1. g[k - 1] \in SUBSET g[k] /\ g[k - 1] # g[k]
        BY <3>1, <3>3 DEF More
      <4>2. Cardinality(g[k - 1]) <= Cardinality(g[k]) /\ Cardinality(g[k - 1]) # Cardinality(g[k])
        BY <4>1, <3>1, <2>0, FS_Subset
      <4>3. Cardinality(g[k - 1]) >= k - 1
        BY <3>3, <3>1
      <4>4. Cardinality(g[k]) >= k
        BY <4>2, <4>3, <3>1, <2>0, BlkIs
      <4> QED
        BY <4>4, <3>1
    <3> QED
      BY <3>2, <3>3
  <2>3. \A k \in 0..NBlk : k \in W
    <3> HIDE DEF W
    <3> QED
      BY <2>1, <2>2, BlkIs, UpTo
  <2> QED
    BY <2>3
<1> DEFINE R == g[NBlk]
<1>12. NBlk \in 0..NBlk
  BY BlkIs
<1>13. Closed(R, T)
  <2>1. R \in SUBSET (Blk \ T)
    BY <1>8, <1>12
  <2>2. CASE More(R) = R
    BY <2>2 DEF More, Closed
  <2>3. CASE More(R) # R
    <3>1. Cardinality(R) >= NBlk /\ R \in SUBSET Blk
      BY <2>1, <2>3, <1>11, <1>12
    <3>2. IsFiniteSet(R) /\ Cardinality(R) <= NBlk /\ (Cardinality(R) = NBlk => R = Blk)
      <4> HIDE DEF R
      <4> QED
        BY <3>1, BlkIs, FS_Subset
    <3>3. Cardinality(R) \in Nat
      BY <3>2, FS_CardinalityType
    <3>4. R = Blk
      BY <3>1, <3>2, <3>3, BlkIs
    <3> QED
      BY <3>4, SuccsIs DEF Closed
  <2> QED
    BY <2>2, <2>3
<1> QED
  BY <1>5, <1>8, <1>9, <1>10, <1>12, <1>13 DEF Spans

(* The live blocks are the least set with the start and all successors.    *)
LEMMA LiveIs ==
  Edges => /\ Live \subseteq Blk /\ 1 \in Live /\ Closed(Live, {})
           /\ \A C : 1 \in C /\ Closed(C, {}) => Live \subseteq C
<1> SUFFICES ASSUME Edges
             PROVE  /\ Live \subseteq Blk /\ 1 \in Live /\ Closed(Live, {})
                    /\ \A C : 1 \in C /\ Closed(C, {}) => Live \subseteq C
  OBVIOUS
<1>1. {1} \in SUBSET Blk
  BY BlkIs
<1>2. Spans(Live, {1}, {})
  BY <1>1, ReachIs DEF Live
<1> QED
  BY <1>2 DEF Spans

(* A block is reached from s when every set with s and all successors has  *)
(* it.                                                                     *)
LEMMA FromIs ==
  Edges => \A s, b \in Blk :
     b \in Reach({s}, {}) <=> \A C : s \in C /\ Closed(C, {}) => b \in C
<1> SUFFICES ASSUME Edges, NEW s \in Blk, NEW b \in Blk
             PROVE  b \in Reach({s}, {}) <=> \A C : s \in C /\ Closed(C, {}) => b \in C
  OBVIOUS
<1>1. {s} \in SUBSET Blk
  OBVIOUS
<1>2. Spans(Reach({s}, {}), {s}, {})
  BY <1>1, ReachIs
<1> QED
  BY <1>2 DEF Spans

(* What d does not dominate is the least set with the start, unless it is  *)
(* d, and all successors but d.                                            *)
LEMMA DomIs ==
  Edges => \A d \in Blk :
     /\ \A b \in Live : ~Dominates(d, b) <=> b \in Reach({1}, {d})
     /\ Spans(Reach({1}, {d}), {1}, {d})
<1> SUFFICES ASSUME Edges, NEW d \in Blk
             PROVE  /\ \A b \in Live : ~Dominates(d, b) <=> b \in Reach({1}, {d})
                    /\ Spans(Reach({1}, {d}), {1}, {d})
  OBVIOUS
<1>1. {1} \in SUBSET Blk
  BY BlkIs
<1> QED
  BY <1>1, ReachIs DEF Dominates

(* Dominance is reflexive and transitive; the start dominates all blocks   *)
(* and nothing else dominates it.                                          *)
LEMMA DomOrder ==
  Edges => /\ \A b \in Blk : Dominates(b, b) /\ Dominates(1, b)
           /\ \A a \in Blk : Dominates(a, 1) => a = 1
           /\ \A a, b, c \in Blk : Dominates(a, b) /\ Dominates(b, c) => Dominates(a, c)
<1> SUFFICES ASSUME Edges
             PROVE  /\ \A b \in Blk : Dominates(b, b) /\ Dominates(1, b)
                    /\ \A a \in Blk : Dominates(a, 1) => a = 1
                    /\ \A a, b, c \in Blk :
                         Dominates(a, b) /\ Dominates(b, c) => Dominates(a, c)
  OBVIOUS
<1>1. \A d \in Blk : Spans(Reach({1}, {d}), {1}, {d})
  BY DomIs
<1>2. 1 \in Blk
  BY BlkIs
<1>3. \A b \in Blk : Dominates(b, b)
  BY <1>1 DEF Spans, Dominates
<1>4. \A b \in Blk : Dominates(1, b)
  <2>1. {1} \ {1} \subseteq {} /\ Closed({}, {1})
    BY DEF Closed
  <2>2. Reach({1}, {1}) \subseteq {}
    BY <2>1, <1>1, <1>2 DEF Spans
  <2> QED
    BY <2>2 DEF Dominates
<1>5. ASSUME NEW a \in Blk, Dominates(a, 1) PROVE a = 1
  BY <1>1, <1>5 DEF Spans, Dominates
<1>6. ASSUME NEW a \in Blk, NEW b \in Blk, NEW c \in Blk, Dominates(a, b), Dominates(b, c)
      PROVE  Dominates(a, c)
  <2> DEFINE A == Reach({1}, {a})
  <2> DEFINE B == Reach({1}, {b})
  <2>1. Spans(A, {1}, {a}) /\ Spans(B, {1}, {b}) /\ b \notin A /\ c \notin B
    BY <1>1, <1>6 DEF Dominates
  <2> HIDE DEF A, B
  <2>2. {1} \ {a} \subseteq A \cap B
    BY <2>1 DEF Spans
  <2>3. Closed(A \cap B, {a})
    <3> SUFFICES ASSUME NEW u \in A \cap B, NEW v \in Succs(u) \ {a} PROVE v \in A \cap B
      BY DEF Closed
    <3>1. v \in A
      BY <2>1 DEF Spans, Closed
    <3>2. v # b
      BY <2>1, <3>1
    <3> QED
      BY <2>1, <3>1, <3>2 DEF Spans, Closed
  <2>4. A \subseteq A \cap B
    BY <2>1, <2>2, <2>3 DEF Spans
  <2>5. c \notin A
    BY <2>1, <2>4
  <2> QED
    BY <2>5 DEF Dominates, A
<1> QED
  BY <1>3, <1>4, <1>5, <1>6

(* What dominates a block strictly dominates its predecessors.             *)
LEMMA DomPred ==
  Edges => \A d \in Blk, a \in Live, b \in Live :
     b \in Succs(a) /\ Dominates(d, b) /\ d # b => Dominates(d, a)
<1> SUFFICES ASSUME Edges, NEW d \in Blk, NEW a \in Live, NEW b \in Live,
                    b \in Succs(a), Dominates(d, b), d # b, ~Dominates(d, a)
             PROVE  FALSE
  OBVIOUS
<1>1. a \in Reach({1}, {d}) /\ Closed(Reach({1}, {d}), {d})
  BY DomIs DEF Dominates, Spans
<1>2. b \in Reach({1}, {d})
  BY <1>1 DEF Closed
<1> QED
  BY <1>2 DEF Dominates

-----------------------------------------------------------------------------
(* A list without duplicates is as long as what it holds is many.          *)
LEMMA CountIs ==
  ASSUME NEW s \in Seq(Blk), IsInjective(s)
  PROVE  Cardinality(ToSet(s)) = Len(s) /\ Len(s) <= NBlk
<1>1. Len(s) \in Nat /\ DOMAIN s = 1..Len(s) /\ ToSet(s) = {s[j] : j \in 1..Len(s)}
      /\ ToSet(s) \in SUBSET Blk
  BY ListIs
<1>2. s \in Bijection(1..Len(s), ToSet(s))
  <2>1. s \in [1..Len(s) -> ToSet(s)]
    BY <1>1, ListIs
  <2>2. \A a, b \in 1..Len(s) : s[a] = s[b] => a = b
    BY <1>1 DEF IsInjective
  <2>3. \A t \in ToSet(s) : \E a \in 1..Len(s) : s[a] = t
    BY <1>1
  <2> QED
    BY <2>1, <2>2, <2>3 DEF Bijection, Injection, IsInjective, Surjection
<1>3. IsFiniteSet(1..Len(s)) /\ Cardinality(1..Len(s)) = Len(s)
  BY <1>1, FS_Interval
<1>4. Cardinality(ToSet(s)) = Len(s)
  BY <1>2, <1>3, FS_Bijection DEF ExistsBijection
<1>5. Cardinality(ToSet(s)) <= NBlk
  BY <1>1, BlkIs, FS_Subset
<1> QED
  BY <1>4, <1>5

(* The last of a list, and the rest.                                       *)
LEMMA LastIs ==
  ASSUME NEW A, NEW s \in Seq(A), s # <<>>
  PROVE  /\ Len(s) \in Nat /\ Len(s) >= 1
         /\ Last(s) = s[Len(s)] /\ s[Len(s)] \in A
         /\ Front(s) \in Seq(A) /\ Len(Front(s)) = Len(s) - 1
         /\ \A k \in 1..(Len(s) - 1) : Front(s)[k] = s[k]
<1>1. Len(s) \in Nat /\ Len(s) >= 1 /\ DOMAIN s = 1..Len(s)
  OBVIOUS
<1>2. Last(s) = s[Len(s)] /\ s[Len(s)] \in A
  BY <1>1 DEF Last
<1> DEFINE u == Front(s)
<1>3. u = SubSeq(s, 1, Len(s) - 1)
  BY DEF Front
<1>4. u = [k \in 1..(Len(s) - 1) |-> s[k]] /\ Len(s) - 1 \in Nat
  BY <1>1, <1>3
<1>5. u \in Seq(A)
  BY <1>1, <1>4
<1> HIDE DEF u
<1>6. DOMAIN u = 1..(Len(s) - 1) /\ DOMAIN u = 1..Len(u) /\ Len(u) \in Nat
  BY <1>4, <1>5
<1>7. Len(u) = Len(s) - 1
  BY <1>4, <1>6
<1>8. \A k \in 1..(Len(s) - 1) : u[k] = s[k]
  BY <1>4
<1> QED
  BY <1>1, <1>2, <1>5, <1>7, <1>8 DEF u

(* Every variable has its type, with the domains of those that are         *)
(* functions into lists.                                                   *)
Typed ==
  /\ s1 \in [Blk -> (Blk \ {1}) \cup {0}] /\ s2 \in [Blk -> (Blk \ {1}) \cup {0}]
  /\ phi \in [Blk -> Seq(Blk)] /\ pred \in [Blk -> Seq(Blk)]
  /\ dom \in [Blk -> Seq(Blk)] /\ fron \in [Blk -> Seq(Blk)]
  /\ link \in Seq(Blk)
  /\ id \in [Blk -> -1..NBlk] /\ nblk \in 0..NBlk
  /\ \A j \in DOMAIN rpo : rpo[j] \in Blk \cup {0}
  /\ idom \in [Blk -> Blk \cup {0}]
  /\ loop \in [Blk -> Nat] /\ visit \in [Blk -> -1..NBlk]
  /\ pc \in {"rpo", "sweep", "dom", "fron", "loop", "done"}
  /\ x \in -1..NBlk + 1 /\ ch \in Nat

(* Called blocks were reached, active ones are on the stack, the others    *)
(* have their number.                                                      *)
Called == {b \in Blk : id[b] # -1}
Active == {stack[j].blk : j \in 1..Len(stack)}
Numbered == Called \ Active

Frames == [blk : Blk, todo : Seq(Blk \cup {0})]
Todo(f) == {f.todo[j] : j \in 1..Len(f.todo)}

(* The calls t are a path from the start, and what they still have to      *)
(* visit is all their blocks have of successors that were not called; c is *)
(* about to be.                                                            *)
CallsOK(t, c) ==
  /\ t \in Seq(Frames)
  /\ \A j \in 1..Len(t) :
       /\ t[j].blk \in Called
       /\ Todo(t[j]) \subseteq Succs(t[j].blk) \cup {0}
       /\ Succs(t[j].blk) \subseteq Called \cup Todo(t[j]) \cup {c}
       /\ j = 1 => t[j].blk = 1
       /\ j > 1 => t[j].blk \in Succs(t[j - 1].blk)
  /\ \A j, k \in 1..Len(t) : t[j].blk = t[k].blk => j = k

(* The numbers given so far: from the greatest down, an edge back only     *)
(* where a cycle is, and a predecessor before every block.                 *)
NumberOK ==
  /\ Called \subseteq Live
  /\ Called # {} => 1 \in Called
  /\ stack = <<>> /\ 1 \in Called => id[1] = x + 1
  /\ x \in -1..NBlk - 1 /\ Cardinality(Numbered) = NBlk - 1 - x
  /\ \A b \in Numbered : id[b] \in x + 1..NBlk - 1
  /\ \A b, c \in Numbered : id[b] = id[c] => b = c
  /\ \A k \in x + 1..NBlk - 1 : \E b \in Numbered : id[b] = k
  /\ \A b \in Numbered : \A s \in Succs(b) :
       s \in Called /\ ((s \in Numbered /\ id[s] > id[b]) \/ b \in Reach({s}, {}))
  /\ \A b \in Numbered \ {1} :
       \E a \in Called : b \in Succs(a) /\ (a \in Active \/ id[a] < id[b])

ListsOK == \A b \in Blk : ToSet(phi[b]) = PredsOf(b) /\ IsInjective(phi[b])

RpoInv ==
  /\ link = [j \in Blk |-> j] /\ nblk = NBlk
  /\ ListsOK
  /\ CallsOK(stack, 0) /\ NumberOK

-----------------------------------------------------------------------------
(* f numbers the live blocks in reverse postorder.                         *)
Numbering(f) ==
  /\ \A b \in Live : f[b] \in 0..nblk - 1
  /\ \A b, c \in Live : f[b] = f[c] => b = c
  /\ \A k \in 0..nblk - 1 : \E b \in Live : f[b] = k
  /\ f[1] = 0
  /\ \A b \in Live : \A s \in Succs(b) : f[s] > f[b] \/ b \in Reach({s}, {})
  /\ \A b \in Live \ {1} : \E a \in Live : b \in Succs(a) /\ f[a] < f[b]

(* The sweep goes through the blocks in their order.                       *)
Seen == 1..NBlk - Len(stack)
Shifted == [b \in Blk |-> IF b \in Seen THEN id[b] ELSE id[b] - FirstId]

SweepInv ==
  /\ stack \in Seq(Blk) /\ Len(stack) <= NBlk
  /\ \A j \in 1..Len(stack) : stack[j] = NBlk - Len(stack) + j
  /\ x \in -1..NBlk - 1 /\ nblk = NBlk - 1 - x /\ nblk = Cardinality(Live)
  /\ DOMAIN rpo = 0..nblk - 1
  /\ ToSet(link) = Live \cup (Blk \ Seen) /\ IsInjective(link)
  /\ ListsOK
  /\ \A b \in Blk \ Live : id[b] = -1 /\ (b \in Seen => Succs(b) = {})
  /\ Numbering(Shifted)
  /\ \A b \in Live \cap Seen : rpo[id[b]] = b

(* From fillpreds on the live blocks are numbered and listed, and the      *)
(* others have no edges.                                                   *)
Ordered ==
  /\ ToSet(link) = Live /\ IsInjective(link) /\ nblk = Len(link) /\ nblk >= 1
  /\ DOMAIN rpo = 0..nblk - 1
  /\ \A b \in Live : id[b] \in DOMAIN rpo /\ rpo[id[b]] = b
  /\ \A b \in Blk \ Live : Succs(b) = {}
  /\ \A b \in Blk : ToSet(phi[b]) = PredsOf(b) /\ ToSet(pred[b]) = PredsOf(b)
  /\ Numbering(id)

(* An immediate dominator found so far has a dominator or is the start, a  *)
(* smaller number, and no strict dominator of the block is lost.           *)
Kept ==
  /\ idom[1] = 0
  /\ \A b \in Live \ {1} : idom[b] # 0 =>
       /\ idom[b] \in Known /\ id[idom[b]] < id[b]
       /\ \A d \in Live \ {b} : Dominates(d, b) => Dominates(d, idom[b])

DomInv ==
  /\ Kept
  /\ x \in 1..nblk
  /\ \A j \in 1..x - 1 : rpo[j] \in Known
  /\ ch = 0 => \A j \in 1..x - 1 : idom[rpo[j]] = NewIdom(rpo[j])

(* The result of filldom.                                                  *)
Tree ==
  /\ idom[1] = 0
  /\ \A b \in Live \ {1} : /\ idom[b] \in Live /\ id[idom[b]] < id[b]
                           /\ IsIDom(idom[b], b)

FronInv(n) ==
  \A a \in Live :
    /\ IsInjective(fron[a])
    /\ ToSet(fron[a]) =
         {s \in Live : /\ ~(a # s /\ Dominates(a, s))
                       /\ \E j \in 1..n - 1 : s \in Succs(link[j]) /\ Dominates(a, link[j])}

(* No dominators yet, no frontiers yet.                                    *)
Fresh ==
  /\ pc \in {"rpo", "sweep"} => idom = [b \in Blk |-> 0]
  /\ pc \in {"rpo", "sweep", "dom"} => fron = [b \in Blk |-> <<>>]

IInv ==
  /\ Typed /\ Fresh
  /\ pc = "rpo" => RpoInv
  /\ pc = "sweep" => SweepInv
  /\ pc \in {"dom", "fron", "loop", "done"} => Ordered
  /\ pc = "dom" => DomInv
  /\ pc \in {"fron", "loop", "done"} => Tree
  /\ pc = "fron" => /\ x \in 1..Len(link) + 1 /\ FronInv(x)
                    /\ \A b \in Live : ToSet(dom[b]) = {c \in Live \ {1} : idom[c] = b}
  /\ pc \in {"loop", "done"} =>
       stack \in Seq(Blk) /\ x \in 0..nblk - 1 /\ FronInv(Len(link) + 1)

-----------------------------------------------------------------------------
(* The blocks of a set, listed.                                            *)
LEMMA InLinkIs ==
  ASSUME NEW S \in SUBSET Blk
  PROVE  InLink(S) \in Seq(Blk) /\ ToSet(InLink(S)) = S /\ IsInjective(InLink(S))
<1> DEFINE q == [j \in Blk |-> j]
<1>1. q \in Seq(Blk) /\ ToSet(q) = Blk /\ IsInjective(q)
  <2>1. q \in Seq(Blk)
    BY BlkIs DEF Blk
  <2> QED
    BY <2>1 DEF ToSet, IsInjective
<1>2. InLink(S) = Those(q, S)
  BY DEF InLink
<1> HIDE DEF q
<1>3. /\ Those(q, S) \in Seq(Blk) /\ ToSet(Those(q, S)) = ToSet(q) \cap S
      /\ IsInjective(Those(q, S))
  BY <1>1, ThoseIs
<1> QED
  BY <1>1, <1>2, <1>3

(* IInv holds at the start.                                                *)
LEMMA InitInv == Init => IInv
<1> SUFFICES ASSUME Init PROVE IInv
  OBVIOUS
<1>0. NBlk \in Nat /\ NBlk >= 1 /\ NBlk - 1 \in -1..NBlk + 1
  BY CfgAssumption
<1>1. PICK g \in Graphs : /\ s1 = g.s1 /\ s2 = g.s2 /\ loop = g.loop
       /\ pred = [b \in Blk |-> IF g.known THEN InLink(PredsOf(b)) ELSE <<>>]
  BY DEF Init
<1>2. s1 \in [Blk -> (Blk \ {1}) \cup {0}] /\ s2 \in [Blk -> (Blk \ {1}) \cup {0}]
      /\ loop \in [Blk -> Nat]
  BY <1>1, CfgAssumption
<1>3. \A b \in Blk : PredsOf(b) \in SUBSET Blk
  BY DEF PredsOf
<1>4. /\ \A b \in Blk : InLink(PredsOf(b)) \in Seq(Blk)
      /\ \A b \in Blk : ToSet(InLink(PredsOf(b))) = PredsOf(b)
      /\ \A b \in Blk : IsInjective(InLink(PredsOf(b)))
  BY <1>3, InLinkIs
<1>5. <<>> \in Seq(Blk) /\ <<>> \in Seq(Frames) /\ Len(<<>>) = 0
  OBVIOUS
<1>6. Typed
  <2>1. phi \in [Blk -> Seq(Blk)] /\ pred \in [Blk -> Seq(Blk)]
    <3> HIDE DEF Init
    <3>1. phi = [b \in Blk |-> InLink(PredsOf(b))]
      BY DEF Init
    <3> QED
      BY <1>1, <1>4, <1>5, <3>1
  <2>2. dom \in [Blk -> Seq(Blk)] /\ fron \in [Blk -> Seq(Blk)]
    BY <1>5 DEF Init
  <2>3. link \in Seq(Blk)
    BY BlkIs DEF Init, Blk
  <2>4. id \in [Blk -> -1..NBlk] /\ nblk \in 0..NBlk /\ \A j \in DOMAIN rpo : rpo[j] \in Blk \cup {0}
    BY <1>0 DEF Init
  <2>5. idom \in [Blk -> Blk \cup {0}] /\ visit \in [Blk -> -1..NBlk]
    BY <1>0 DEF Init
  <2>6. pc = "rpo" /\ x \in -1..NBlk + 1 /\ ch \in Nat
    BY <1>0 DEF Init
  <2> QED
    BY <1>2, <2>1, <2>2, <2>3, <2>4, <2>5, <2>6 DEF Typed
<1>7. Called = {} /\ Numbered = {} /\ Cardinality(Numbered) = 0 /\ stack = <<>> /\ x = NBlk - 1
  <2>1. Called = {}
    BY DEF Called, Init
  <2>2. Numbered = {}
    BY <2>1 DEF Numbered
  <2> QED
    BY <2>1, <2>2, FS_EmptySet DEF Init
<1>8. CallsOK(stack, 0)
  BY <1>5, <1>7 DEF CallsOK
<1>9. NumberOK
  <2>1. x \in -1..NBlk - 1 /\ Cardinality(Numbered) = NBlk - 1 - x /\ x + 1..NBlk - 1 = {}
    BY <1>0, <1>7
  <2> QED
    BY <2>1, <1>7 DEF NumberOK
<1>10. ListsOK
  <2>1. phi = [b \in Blk |-> InLink(PredsOf(b))]
    BY DEF Init
  <2> QED
    BY <2>1, <1>4 DEF ListsOK
<1>11. RpoInv
  BY <1>8, <1>9, <1>10 DEF RpoInv, Init
<1>12. pc = "rpo" /\ Fresh
  BY DEF Init, Fresh
<1> QED
  BY <1>6, <1>11, <1>12 DEF IInv

(* The call of rporec for c: what it still has to visit.                   *)
LEMMA FrameIs ==
  Typed => \A c \in Blk : /\ RpoFrame(c) \in Frames /\ RpoFrame(c).blk = c
                          /\ Todo(RpoFrame(c)) \subseteq Succs(c) \cup {0}
                          /\ Succs(c) \subseteq Todo(RpoFrame(c))
<1> SUFFICES ASSUME Typed, NEW c \in Blk
             PROVE  /\ RpoFrame(c) \in Frames /\ RpoFrame(c).blk = c
                    /\ Todo(RpoFrame(c)) \subseteq Succs(c) \cup {0}
                    /\ Succs(c) \subseteq Todo(RpoFrame(c))
  OBVIOUS
<1>1. s1[c] \in Blk \cup {0} /\ s2[c] \in Blk \cup {0}
  BY DEF Typed
<1>2. PICK q : /\ RpoFrame(c) = [blk |-> c, todo |-> q]
               /\ q = <<s1[c], s2[c]>> \/ q = <<s2[c], s1[c]>>
  BY DEF RpoFrame
<1>3. q \in Seq(Blk \cup {0}) /\ Len(q) = 2 /\ {q[j] : j \in 1..2} = {s1[c], s2[c]}
  <2>1. CASE q = <<s1[c], s2[c]>>
    <3>1. q[1] = s1[c] /\ q[2] = s2[c] /\ Len(q) = 2 /\ q \in Seq(Blk \cup {0})
      BY <1>1, <2>1
    <3>2. 1..2 = {1, 2}
      OBVIOUS
    <3> QED
      BY <3>1, <3>2
  <2>2. CASE q = <<s2[c], s1[c]>>
    <3>1. q[1] = s2[c] /\ q[2] = s1[c] /\ Len(q) = 2 /\ q \in Seq(Blk \cup {0})
      BY <1>1, <2>2
    <3>2. 1..2 = {1, 2}
      OBVIOUS
    <3> QED
      BY <3>1, <3>2
  <2> QED
    BY <1>2, <2>1, <2>2
<1>4. RpoFrame(c).todo = q /\ RpoFrame(c).blk = c /\ RpoFrame(c) \in Frames
  BY <1>2, <1>3 DEF Frames
<1>5. Todo(RpoFrame(c)) = {s1[c], s2[c]}
  BY <1>3, <1>4 DEF Todo
<1> QED
  BY <1>4, <1>5 DEF Succs

(* Calls whose blocks and successors stay as they are stay a path, and a   *)
(* block that was called is no longer about to be.                         *)
LEMMA CallsStay ==
  ASSUME NEW t, NEW c, CallsOK(t, c), c = 0 \/ c \in Called,
         stack' = t, Called' = Called, \A b \in Blk : Succs(b) = Succs(b)'
  PROVE  CallsOK(stack, 0)'
<1>1. /\ t \in Seq(Frames)
      /\ \A j, k \in 1..Len(t) : t[j].blk = t[k].blk => j = k
  BY DEF CallsOK
<1>2. \A j \in 1..Len(t) : t[j].blk \in Blk /\ (j > 1 => j - 1 \in 1..Len(t))
  BY DEF CallsOK, Called
<1>3. ASSUME NEW j \in 1..Len(t)
      PROVE  /\ t[j].blk \in Called'
             /\ Todo(t[j]) \subseteq Succs(t[j].blk)' \cup {0}
             /\ Succs(t[j].blk)' \subseteq Called' \cup Todo(t[j]) \cup {0}
             /\ j = 1 => t[j].blk = 1
             /\ j > 1 => t[j].blk \in Succs(t[j - 1].blk)'
  <2>1. /\ t[j].blk \in Called
        /\ Todo(t[j]) \subseteq Succs(t[j].blk) \cup {0}
        /\ Succs(t[j].blk) \subseteq Called \cup Todo(t[j]) \cup {0}
        /\ j = 1 => t[j].blk = 1
        /\ j > 1 => t[j].blk \in Succs(t[j - 1].blk)
    BY DEF CallsOK
  <2>2. t[j].blk \in Blk /\ (j > 1 => t[j - 1].blk \in Blk)
    BY <1>2
  <2>3. /\ Succs(t[j].blk)' = Succs(t[j].blk)
        /\ j > 1 => Succs(t[j - 1].blk)' = Succs(t[j - 1].blk)
    BY <2>2
  <2> QED
    BY <2>1, <2>3
<1> QED
  BY <1>1, <1>3 DEF CallsOK

(* The call for c, which the calls t below are about to make.              *)
LEMMA CallKeeps ==
  ASSUME NEW t, NEW c \in Blk \cup {0},
         Typed, NumberOK, CallsOK(t, c), Active = {t[j].blk : j \in 1..Len(t)},
         t = <<>> => c = 1 /\ id[1] = -1,
         t # <<>> => c \in Succs(t[Len(t)].blk) \cup {0},
         RpoCall(c, t), UNCHANGED <<graph, loop, x>>
  PROVE  CallsOK(stack, 0)' /\ NumberOK' /\ id' \in [Blk -> -1..NBlk]
<1>0. NBlk \in Nat /\ 1 \in Blk /\ 1 # 0 /\ 0 \notin Blk /\ 1 \in -1..NBlk
  BY BlkIs, CfgAssumption DEF Blk
<1>e. Edges /\ Edges'
  BY DEF Typed, Edges, graph
<1>u. /\ \A b \in Blk : (Succs(b) = Succs(b)')
      /\ \A s, b \in Blk : (b \in Reach({s}, {})) = (b \in Reach({s}, {}))'
      /\ Live' = Live
  BY DEF graph, Succs, Reach, Live
<1>l. Len(t) \in Nat /\ t \in Seq(Frames) /\ \A j \in 1..Len(t) : t[j] \in Frames
  BY DEF CallsOK
<1>1. CASE c = 0 \/ id[c] # -1
  <2>1. stack' = t /\ id' = id
    BY <1>1 DEF RpoCall
  <2>2. t # <<>>
    BY <1>0, <1>1
  <2>3. c = 0 \/ c \in Called
    BY <1>1 DEF Called
  <2>4. Called' = Called
    BY <2>1 DEF Called
  <2>5. CallsOK(stack, 0)'
    BY <2>1, <2>3, <2>4, <1>u, CallsStay
  <2>6. Active' = Active /\ Numbered' = Numbered
    BY <2>1, <2>4 DEF Active, Numbered
  <2>7. NumberOK'
    <3>1. Numbered \subseteq Blk
      BY DEF Numbered, Called
    <3>2. \A b \in Numbered : Succs(b) \subseteq Blk
      BY <3>1, <1>e, SuccsIs
    <3>3. x' = x /\ Called \subseteq Blk /\ stack' # <<>>
      BY <2>1, <2>2 DEF Called
    <3>4. /\ (Called \subseteq Live)'
          /\ (Called # {} => 1 \in Called)'
          /\ (stack = <<>> /\ 1 \in Called => id[1] = x + 1)'
          /\ (x \in -1..NBlk - 1 /\ Cardinality(Numbered) = NBlk - 1 - x)'
      BY <2>4, <2>6, <3>3, <1>u DEF NumberOK
    <3>5. /\ (\A b \in Numbered : id[b] \in x + 1..NBlk - 1)'
          /\ (\A b, d \in Numbered : id[b] = id[d] => b = d)'
          /\ (\A k \in x + 1..NBlk - 1 : \E b \in Numbered : id[b] = k)'
      BY <2>1, <2>6, <3>3 DEF NumberOK
    <3>6. (\A b \in Numbered : \A s \in Succs(b) :
             s \in Called /\ ((s \in Numbered /\ id[s] > id[b]) \/ b \in Reach({s}, {})))'
      <4>1. \A b \in Numbered : \A s \in Succs(b) :
              s \in Called /\ ((s \in Numbered /\ id[s] > id[b]) \/ b \in Reach({s}, {}))
        BY DEF NumberOK
      <4> QED
        BY <4>1, <2>1, <2>4, <2>6, <3>1, <3>2, <1>u
    <3>7. (\A b \in Numbered \ {1} :
             \E a \in Called : b \in Succs(a) /\ (a \in Active \/ id[a] < id[b]))'
      BY <2>1, <2>4, <2>6, <3>1, <3>3, <1>u DEF NumberOK
    <3> QED
      BY <3>4, <3>5, <3>6, <3>7 DEF NumberOK
  <2> QED
    BY <2>1, <2>5, <2>7 DEF Typed
<1>2. CASE c \in Blk /\ id[c] = -1
  <2> DEFINE n == Len(t) + 1
  <2>1. stack' = Append(t, RpoFrame(c)) /\ id' = [id EXCEPT ![c] = 1]
    BY <1>0, <1>2 DEF RpoCall
  <2>2. /\ RpoFrame(c) \in Frames /\ RpoFrame(c).blk = c
        /\ Todo(RpoFrame(c)) \subseteq Succs(c) \cup {0}
        /\ Succs(c) \subseteq Todo(RpoFrame(c))
    BY <1>2, FrameIs
  <2>3. /\ stack' \in Seq(Frames) /\ Len(stack') = n /\ stack'[n] = RpoFrame(c)
        /\ \A j \in 1..Len(t) : stack'[j] = t[j]
    BY <1>l, <2>1, <2>2
  <2>4. id' \in [Blk -> -1..NBlk] /\ id'[c] = 1 /\ \A b \in Blk \ {c} : id'[b] = id[b]
    BY <2>1, <1>0, <1>2 DEF Typed
  <2>5. Called' = Called \cup {c} /\ c \notin Called
    BY <2>4, <1>2 DEF Called
  <2>6. 1..n = 1..Len(t) \cup {n} /\ n \notin 1..Len(t)
    BY <1>l
  <2>7. c \notin Active /\ \A j \in 1..Len(t) : t[j].blk \in Called
    BY <2>5 DEF CallsOK
  <2>8. Active' = Active \cup {c}
    <3>1. Active' = {stack'[j].blk : j \in 1..n}
      BY <2>3 DEF Active
    <3>2. \A j \in 1..Len(t) : j \in 1..n /\ stack'[j].blk = t[j].blk
      BY <2>3, <2>6
    <3>3. n \in 1..n /\ stack'[n].blk = c
      BY <2>2, <2>3, <2>6
    <3> HIDE DEF n
    <3> QED
      BY <3>1, <3>2, <3>3, <2>6
  <2>9. Numbered' = Numbered
    BY <2>5, <2>7, <2>8 DEF Numbered
  <2>10. ASSUME NEW j \in 1..n
         PROVE  /\ stack'[j].blk \in Called'
                /\ Todo(stack'[j]) \subseteq Succs(stack'[j].blk) \cup {0}
                /\ Succs(stack'[j].blk) \subseteq Called' \cup Todo(stack'[j])
                /\ j = 1 => stack'[j].blk = 1
                /\ j > 1 => stack'[j].blk \in Succs(stack'[j - 1].blk)
    <3>1. CASE j \in 1..Len(t)
      <4>1. stack'[j] = t[j] /\ (j > 1 => j - 1 \in 1..Len(t))
        BY <3>1, <2>3, <1>l
      <4>2. j > 1 => stack'[j - 1] = t[j - 1]
        BY <4>1, <2>3
      <4> QED
        BY <3>1, <4>1, <4>2, <2>5 DEF CallsOK
    <3>2. CASE j = n
      <4>1. stack'[j].blk = c /\ stack'[j] = RpoFrame(c)
        BY <3>2, <2>2, <2>3
      <4>2. CASE t = <<>>
        <5>1. j = 1 /\ c = 1
          BY <4>2, <3>2
        <5> QED
          BY <4>1, <5>1, <2>2, <2>5
      <4>3. CASE t # <<>>
        <5>1. Len(t) \in 1..Len(t) /\ j - 1 = Len(t) /\ j > 1
          BY <4>3, <3>2, <1>l
        <5>2. stack'[j - 1] = t[Len(t)]
          BY <5>1, <2>3
        <5>3. c \in Succs(t[Len(t)].blk)
          BY <4>3, <1>0, <1>2
        <5> QED
          BY <4>1, <5>1, <5>2, <5>3, <2>2, <2>5
      <4> QED
        BY <4>2, <4>3
    <3> QED
      BY <3>1, <3>2, <2>6
  <2>11. ASSUME NEW j \in 1..n, NEW k \in 1..n, stack'[j].blk = stack'[k].blk PROVE j = k
    BY <2>2, <2>3, <2>5, <2>6, <2>7, <2>11 DEF CallsOK
  <2>12. CallsOK(stack, 0)'
    <3>1. \A j \in 1..n : stack'[j].blk \in Blk
      BY <2>10 DEF Called
    <3>2. \A j \in 1..n : j > 1 => j - 1 \in 1..n
      BY <1>l
    <3> HIDE DEF n
    <3> QED
      BY <2>3, <2>10, <2>11, <3>1, <3>2, <1>u DEF CallsOK
  <2>13. c \in Live
    <3>1. CASE t = <<>>
      BY <3>1, <1>e, LiveIs
    <3>2. CASE t # <<>>
      <4>1. Len(t) \in 1..Len(t)
        BY <3>2, <1>l
      <4>2. t[Len(t)].blk \in Live
        BY <4>1, <2>7 DEF NumberOK
      <4>3. c \in Succs(t[Len(t)].blk)
        BY <3>2, <1>0, <1>2
      <4> QED
        BY <4>2, <4>3, <1>e, LiveIs DEF Closed
    <3> QED
      BY <3>1, <3>2
  <2>14. 1 \in Called'
    <3>1. CASE t = <<>>
      BY <3>1, <2>5
    <3>2. CASE t # <<>>
      <4>1. 1 \in 1..Len(t)
        BY <3>2, <1>l
      <4> QED
        BY <4>1, <2>5 DEF CallsOK
    <3> QED
      BY <3>1, <3>2
  <2>15. stack' # <<>>
    BY <2>3, <1>l
  <2>16. \A b \in Numbered : b \in Blk /\ b # c /\ id'[b] = id[b]
    BY <2>4, <2>5 DEF Numbered, Called
  <2>17. \A b \in Numbered : Succs(b) \subseteq Blk
    BY <2>16, <1>e, SuccsIs
  <2>18. \A b \in Numbered : \A s \in Succs(b) :
           s \in Called' /\ ((s \in Numbered /\ id'[s] > id'[b]) \/ b \in Reach({s}, {}))
    BY <2>5, <2>16 DEF NumberOK
  <2>19. \A b \in Numbered \ {1} :
           \E a \in Called' : b \in Succs(a) /\ (a \in Active' \/ id'[a] < id'[b])
    <3> SUFFICES ASSUME NEW b \in Numbered \ {1}
                 PROVE  \E a \in Called' : b \in Succs(a) /\ (a \in Active' \/ id'[a] < id'[b])
      OBVIOUS
    <3>1. PICK a \in Called : b \in Succs(a) /\ (a \in Active \/ id[a] < id[b])
      BY DEF NumberOK
    <3>2. a \in Called' /\ a # c /\ a \in Blk
      BY <2>5 DEF Called
    <3> QED
      BY <3>1, <3>2, <2>4, <2>8, <2>16
  <2>20. NumberOK'
    <3>1. x' = x /\ Numbered \subseteq Blk /\ \A a \in Called' : a \in Blk
      BY <2>16 DEF Called
    <3>2. /\ (Called \subseteq Live)'
          /\ (Called # {} => 1 \in Called)'
          /\ (stack = <<>> /\ 1 \in Called => id[1] = x + 1)'
          /\ (x \in -1..NBlk - 1 /\ Cardinality(Numbered) = NBlk - 1 - x)'
      BY <2>5, <2>9, <2>13, <2>14, <2>15, <3>1, <1>u DEF NumberOK
    <3>3. /\ (\A b \in Numbered : id[b] \in x + 1..NBlk - 1)'
          /\ (\A b, d \in Numbered : id[b] = id[d] => b = d)'
          /\ (\A k \in x + 1..NBlk - 1 : \E b \in Numbered : id[b] = k)'
      BY <2>9, <2>16, <3>1 DEF NumberOK
    <3>4. (\A b \in Numbered : \A s \in Succs(b) :
             s \in Called /\ ((s \in Numbered /\ id[s] > id[b]) \/ b \in Reach({s}, {})))'
      BY <2>9, <2>17, <2>18, <3>1, <1>u
    <3>5. (\A b \in Numbered \ {1} :
             \E a \in Called : b \in Succs(a) /\ (a \in Active \/ id[a] < id[b]))'
      BY <2>9, <2>19, <3>1, <1>u
    <3> QED
      BY <3>2, <3>3, <3>4, <3>5 DEF NumberOK
  <2> QED
    BY <2>4, <2>12, <2>20
<1> QED
  BY <1>1, <1>2

(* The calls on the stack are a path: from each the last is reached.       *)
LEMMA StackPath ==
  ASSUME Typed, CallsOK(stack, 0), stack # <<>>
  PROVE  \A a \in Active : stack[Len(stack)].blk \in Reach({a}, {})
<1> DEFINE n == Len(stack)
<1>0. n \in Nat /\ n \in 1..n
  BY DEF CallsOK
<1>e. Edges
  BY DEF Typed, Edges
<1> SUFFICES ASSUME NEW i \in 1..n PROVE stack[n].blk \in Reach({stack[i].blk}, {})
  BY DEF Active
<1>1. stack[n].blk \in Blk /\ stack[i].blk \in Blk
  BY <1>0 DEF CallsOK, Called
<1> SUFFICES ASSUME NEW C, stack[i].blk \in C, Closed(C, {}) PROVE stack[n].blk \in C
  BY <1>1, <1>e, FromIs
<1> DEFINE W == {k \in 0..n : k >= i => stack[k].blk \in C}
<1>2. 0 \in W
  BY <1>0
<1>3. \A k \in 1..n : k - 1 \in W => k \in W
  <2> SUFFICES ASSUME NEW k \in 1..n, k - 1 \in W, k >= i PROVE stack[k].blk \in C
    BY <1>0
  <2>1. CASE k = i
    BY <2>1
  <2>2. CASE k # i
    <3>1. k - 1 >= i /\ k > 1 /\ k \in 1..n
      BY <2>2, <1>0
    <3>2. stack[k - 1].blk \in C
      BY <3>1
    <3>3. stack[k].blk \in Succs(stack[k - 1].blk)
      BY <3>1 DEF CallsOK
    <3> QED
      BY <3>2, <3>3 DEF Closed
  <2> QED
    BY <2>1, <2>2
<1>4. \A k \in 0..n : k \in W
  <2> HIDE DEF W
  <2> QED
    BY <1>0, <1>2, <1>3, UpTo
<1> QED
  BY <1>0, <1>4

(* The last call on the stack returns, its block gets a number.            *)
LEMMA NumberKeeps ==
  ASSUME Typed, RpoInv, RpoNumber
  PROVE  CallsOK(stack, 0)' /\ NumberOK' /\ id' \in [Blk -> -1..NBlk] /\ x' \in -1..NBlk - 1
<1> DEFINE n == Len(stack)
<1> DEFINE b == stack[n].blk
<1>0. NBlk \in Nat /\ 1 \in Blk
  BY BlkIs
<1>c. CallsOK(stack, 0) /\ NumberOK /\ stack # <<>>
  BY DEF RpoInv, RpoNumber
<1>e. Edges
  BY DEF Typed, Edges
<1>u. /\ \A a \in Blk : (Succs(a) = Succs(a)')
      /\ \A s, a \in Blk : (a \in Reach({s}, {})) = (a \in Reach({s}, {}))'
      /\ Live' = Live
  BY DEF RpoNumber, graph, Succs, Reach, Live
<1>1. /\ n \in Nat /\ n >= 1 /\ n \in 1..n /\ Last(stack) = stack[n]
      /\ stack[n] \in Frames /\ Front(stack) \in Seq(Frames) /\ Len(Front(stack)) = n - 1
      /\ \A k \in 1..(n - 1) : Front(stack)[k] = stack[k]
  <2>1. stack \in Seq(Frames)
    BY <1>c DEF CallsOK
  <2> QED
    BY <2>1, <1>c, LastIs
<1>2. stack' = Front(stack) /\ id' = [id EXCEPT ![b] = x] /\ x' = x - 1
  BY <1>1 DEF RpoNumber
<1>3. b \in Blk /\ b \in Called /\ b \in Active /\ b \notin Numbered
  BY <1>1, <1>c DEF CallsOK, Called, Active, Numbered
<1>4. Succs(b) \subseteq Called
  <2>1. Todo(stack[n]) = {}
    BY <1>1 DEF RpoNumber, Todo
  <2>2. 0 \notin Blk /\ Succs(b) \subseteq Blk
    BY <1>3, <1>e, SuccsIs DEF Blk
  <2>3. Succs(b) \subseteq Called \cup Todo(stack[n]) \cup {0}
    BY <1>1, <1>c DEF CallsOK
  <2> QED
    BY <2>1, <2>2, <2>3
<1>5. x \in 0..NBlk - 1
  <2>1. Numbered \in SUBSET (Blk \ {b})
    BY <1>3 DEF Numbered, Called
  <2>2. IsFiniteSet(Blk \ {b}) /\ Cardinality(Blk \ {b}) = NBlk - 1
    BY <1>3, BlkIs, FS_RemoveElement
  <2>3. Cardinality(Numbered) <= NBlk - 1
    BY <2>1, <2>2, FS_Subset
  <2>4. Cardinality(Numbered) = NBlk - 1 - x /\ x \in -1..NBlk - 1
    BY <1>c DEF NumberOK
  <2> QED
    BY <2>3, <2>4, <1>0
<1>6. id' \in [Blk -> -1..NBlk] /\ id'[b] = x /\ \A a \in Blk \ {b} : id'[a] = id[a]
  <2>1. id \in [Blk -> -1..NBlk] /\ x \in -1..NBlk
    BY <1>5, <1>0 DEF Typed
  <2> HIDE DEF b
  <2> QED
    BY <2>1, <1>2, <1>3
<1>7. Called' = Called /\ Called \subseteq Blk
  <2>1. x # -1
    BY <1>5
  <2> QED
    BY <2>1, <1>6, <1>3 DEF Called
<1>8. Active' = Active \ {b} /\ Active \subseteq Called
  <2>1. Active' = {stack[j].blk : j \in 1..(n - 1)}
    BY <1>1, <1>2 DEF Active
  <2>2. 1..n = 1..(n - 1) \cup {n} /\ n \notin 1..(n - 1)
    BY <1>1
  <2>3. \A j \in 1..(n - 1) : stack[j].blk # b
    BY <2>2, <1>1, <1>c DEF CallsOK
  <2>4. Active \subseteq Called
    BY <1>c DEF CallsOK, Active
  <2> HIDE DEF b
  <2>5. Active = {stack[j].blk : j \in 1..(n - 1)} \cup {b}
    BY <2>2 DEF Active, b
  <2>6. Active' = Active \ {b}
    BY <2>1, <2>3, <2>5
  <2> QED
    BY <2>4, <2>6
<1>9. Numbered' = Numbered \cup {b} /\ Cardinality(Numbered') = NBlk - 1 - x'
  <2>1. Numbered' = Numbered \cup {b}
    BY <1>3, <1>7, <1>8 DEF Numbered
  <2>2. IsFiniteSet(Numbered)
    <3>1. Numbered \in SUBSET Blk
      BY DEF Numbered, Called
    <3> QED
      BY <3>1, BlkIs, FS_Subset
  <2>3. Cardinality(Numbered \cup {b}) = Cardinality(Numbered) + 1
    BY <1>3, <2>2, FS_AddElement
  <2>4. Cardinality(Numbered) = NBlk - 1 - x
    BY <1>c DEF NumberOK
  <2> QED
    BY <2>1, <2>3, <2>4, <1>2, <1>5, <1>0
<1> HIDE DEF b
<1>10. CallsOK(stack, 0)'
  <2>1. \A j \in 1..(n - 1) : j \in 1..n /\ stack'[j] = stack[j] /\ (j > 1 => j - 1 \in 1..(n - 1))
    BY <1>1, <1>2
  <2>2. Len(stack') = n - 1 /\ stack' \in Seq(Frames)
    BY <1>1, <1>2
  <2>3. \A j \in 1..(n - 1) : stack[j].blk \in Blk
    BY <2>1, <1>c DEF CallsOK, Called
  <2>4. ASSUME NEW j \in 1..(n - 1)
        PROVE  /\ stack'[j].blk \in Called'
               /\ Todo(stack'[j]) \subseteq Succs(stack'[j].blk) \cup {0}
               /\ Succs(stack'[j].blk) \subseteq Called' \cup Todo(stack'[j]) \cup {0}
               /\ j = 1 => stack'[j].blk = 1
               /\ j > 1 => stack'[j].blk \in Succs(stack'[j - 1].blk)
    BY <2>1, <2>4, <1>7, <1>c DEF CallsOK
  <2>5. \A j, k \in 1..(n - 1) : stack'[j].blk = stack'[k].blk => j = k
    BY <2>1, <1>c DEF CallsOK
  <2> HIDE DEF n
  <2> QED
    BY <2>1, <2>2, <2>3, <2>4, <2>5, <1>u DEF CallsOK
<1>11. \A a \in Numbered : a \in Blk /\ a # b /\ id'[a] = id[a] /\ id[a] \in x + 1..NBlk - 1
  <2>1. \A a \in Numbered : a \in Blk /\ a # b
    BY <1>3 DEF Numbered, Called
  <2> QED
    BY <2>1, <1>6, <1>c DEF NumberOK
<1>12. Numbered' \subseteq Blk /\ \A a \in Numbered' : Succs(a) \subseteq Blk
  BY <1>3, <1>9, <1>11, <1>e, SuccsIs
<1>13. \A a \in Numbered' : \A s \in Succs(a) :
         s \in Called /\ ((s \in Numbered' /\ id'[s] > id'[a]) \/ a \in Reach({s}, {}))
  <2>1. ASSUME NEW a \in Numbered, NEW s \in Succs(a)
        PROVE  s \in Called /\ ((s \in Numbered' /\ id'[s] > id'[a]) \/ a \in Reach({s}, {}))
    <3>1. s \in Called /\ ((s \in Numbered /\ id[s] > id[a]) \/ a \in Reach({s}, {}))
      BY <1>c DEF NumberOK
    <3> QED
      BY <3>1, <1>9, <1>11
  <2>2. ASSUME NEW s \in Succs(b)
        PROVE  s \in Called /\ ((s \in Numbered' /\ id'[s] > id'[b]) \/ b \in Reach({s}, {}))
    <3>1. s \in Called
      BY <1>4
    <3>2. CASE s \in Active
      <4>1. stack[Len(stack)].blk \in Reach({s}, {})
        BY <3>2, <1>c, StackPath
      <4> QED
        BY <3>1, <4>1 DEF b
    <3>3. CASE s \notin Active
      <4>1. s \in Numbered
        BY <3>1, <3>3 DEF Numbered
      <4>2. id'[s] > id'[b]
        BY <4>1, <1>11, <1>6, <1>5, <1>0
      <4> QED
        BY <3>1, <4>1, <4>2, <1>9
    <3> QED
      BY <3>2, <3>3
  <2> QED
    BY <2>1, <2>2, <1>9
<1>14. \A a \in Numbered' \ {1} :
         \E d \in Called : a \in Succs(d) /\ (d \in Active' \/ id'[d] < id'[a])
  <2>1. ASSUME NEW a \in Numbered, a # 1
        PROVE  \E d \in Called : a \in Succs(d) /\ (d \in Active' \/ id'[d] < id'[a])
    <3>1. PICK d \in Called : a \in Succs(d) /\ (d \in Active \/ id[d] < id[a])
      BY <2>1, <1>c DEF NumberOK
    <3>2. CASE d = b
      BY <3>1, <3>2, <1>6, <1>11, <1>5, <1>0
    <3>3. CASE d # b
      BY <3>1, <3>3, <1>6, <1>7, <1>8, <1>11
    <3> QED
      BY <3>2, <3>3
  <2>2. ASSUME b # 1
        PROVE  \E d \in Called : b \in Succs(d) /\ (d \in Active' \/ id'[d] < id'[b])
    <3>1. n > 1 /\ n - 1 \in 1..n /\ n - 1 # n
      BY <2>2, <1>1, <1>c DEF CallsOK, b
    <3>2. b \in Succs(stack[n - 1].blk)
      BY <3>1, <1>1, <1>c DEF CallsOK, b
    <3>3. stack[n - 1].blk \in Active /\ stack[n - 1].blk # b
      BY <3>1, <1>1, <1>c DEF CallsOK, b, Active
    <3> QED
      BY <3>2, <3>3, <1>8
  <2> QED
    BY <2>1, <2>2, <1>9
<1>15. stack' = <<>> /\ 1 \in Called' => id'[1] = x' + 1
  <2> SUFFICES ASSUME stack' = <<>> PROVE id'[1] = x' + 1
    OBVIOUS
  <2>1. n = 1
    BY <1>1, <1>2
  <2>2. b = 1
    BY <2>1, <1>c, <1>1 DEF CallsOK, b
  <2> QED
    BY <2>2, <1>6, <1>2, <1>5
<1>16. NumberOK'
  <2>1. /\ (Called \subseteq Live)'
        /\ (Called # {} => 1 \in Called)'
        /\ (x \in -1..NBlk - 1 /\ Cardinality(Numbered) = NBlk - 1 - x)'
    BY <1>c, <1>7, <1>9, <1>2, <1>5, <1>0, <1>u DEF NumberOK
  <2>2. (\A a \in Numbered : id[a] \in x + 1..NBlk - 1)'
    BY <1>9, <1>11, <1>6, <1>2, <1>5, <1>0
  <2>3. (\A a, d \in Numbered : id[a] = id[d] => a = d)'
    BY <1>9, <1>11, <1>6, <1>5, <1>0, <1>c DEF NumberOK
  <2>4. (\A k \in x + 1..NBlk - 1 : \E a \in Numbered : id[a] = k)'
    <3> SUFFICES ASSUME NEW k \in x'+ 1..NBlk - 1 PROVE \E a \in Numbered' : id'[a] = k
      OBVIOUS
    <3>1. CASE k = x
      BY <3>1, <1>6, <1>9
    <3>2. CASE k # x
      <4>1. k \in x + 1..NBlk - 1
        BY <3>2, <1>2, <1>5, <1>0
      <4>2. PICK a \in Numbered : id[a] = k
        BY <4>1, <1>c DEF NumberOK
      <4> QED
        BY <4>2, <1>9, <1>11
    <3> QED
      BY <3>1, <3>2
  <2>5. (\A a \in Numbered : \A s \in Succs(a) :
           s \in Called /\ ((s \in Numbered /\ id[s] > id[a]) \/ a \in Reach({s}, {})))'
    BY <1>7, <1>12, <1>13, <1>u
  <2>6. (\A a \in Numbered \ {1} :
           \E d \in Called : a \in Succs(d) /\ (d \in Active \/ id[d] < id[a]))'
    BY <1>7, <1>12, <1>14, <1>u
  <2> QED
    BY <2>1, <2>2, <2>3, <2>4, <2>5, <2>6, <1>15 DEF NumberOK
<1> QED
  BY <1>10, <1>16, <1>6, <1>2, <1>5, <1>0

(* What a step of rporec leaves to check.                                  *)
LEMMA RpoKeeps ==
  ASSUME Typed, Fresh, pc = "rpo", RpoInv,
         CallsOK(stack, 0)', NumberOK', id' \in [Blk -> -1..NBlk],
         UNCHANGED <<graph, nblk, rpo, doms, loop, visit, pc, ch>>
  PROVE  IInv'
<1>0. NBlk \in Nat
  BY BlkIs
<1>1. x' \in -1..NBlk + 1
  <2>1. x' \in -1..NBlk - 1
    BY DEF NumberOK
  <2> QED
    BY <2>1, <1>0
<1>2. Typed'
  BY <1>1 DEF Typed, graph, doms
<1>3. ListsOK'
  <2>1. \A b \in Blk : (PredsOf(b) = PredsOf(b)')
    BY DEF PredsOf, Succs, graph
  <2> QED
    BY <2>1 DEF ListsOK, RpoInv, graph
<1>4. RpoInv'
  BY <1>3 DEF RpoInv, graph
<1>5. pc' = "rpo" /\ Fresh'
  BY DEF Fresh, doms
<1> QED
  BY <1>2, <1>4, <1>5 DEF IInv

(* rporec preserves IInv: the call for the start.                          *)
LEMMA RpoStartKeeps == IInv /\ RpoStart => IInv'
<1> SUFFICES ASSUME IInv, RpoStart PROVE IInv'
  OBVIOUS
<1>1. Typed /\ Fresh /\ pc = "rpo" /\ RpoInv /\ stack = <<>> /\ id[1] = -1 /\ NumberOK
  BY DEF IInv, RpoStart, RpoInv
<1>2. 1 \in Blk
  BY BlkIs
<1>3. Called = {}
  BY <1>1, <1>2 DEF NumberOK, Called
<1>4. Active = {stack[j].blk : j \in 1..Len(stack)} /\ CallsOK(stack, 1)
  <2>1. stack \in Seq(Frames) /\ Len(stack) = 0
    BY <1>1
  <2> QED
    BY <2>1 DEF Active, CallsOK
<1>5. RpoCall(1, stack) /\ UNCHANGED <<graph, loop, x>>
  BY <1>1 DEF RpoStart
<1>6. CallsOK(stack, 0)' /\ NumberOK' /\ id' \in [Blk -> -1..NBlk]
  BY <1>1, <1>2, <1>4, <1>5, CallKeeps
<1>7. UNCHANGED <<graph, nblk, rpo, doms, loop, visit, pc, ch>>
  BY DEF RpoStart
<1> QED
  BY <1>1, <1>6, <1>7, RpoKeeps

(* rporec preserves IInv: the next successor of the call on top.           *)
LEMMA RpoVisitKeeps == IInv /\ RpoVisit => IInv'
<1> SUFFICES ASSUME IInv, RpoVisit PROVE IInv'
  OBVIOUS
<1> DEFINE n == Len(stack)
<1> DEFINE f == stack[n]
<1> DEFINE f1 == [f EXCEPT !.todo = Tail(@)]
<1> DEFINE t == Append(Front(stack), f1)
<1> DEFINE c == Head(f.todo)
<1>1. Typed /\ Fresh /\ pc = "rpo" /\ RpoInv /\ stack # <<>> /\ NumberOK /\ CallsOK(stack, 0)
  BY DEF IInv, RpoVisit, RpoInv
<1>2. /\ n \in Nat /\ n >= 1 /\ Last(stack) = f
      /\ f \in Frames /\ Front(stack) \in Seq(Frames) /\ Len(Front(stack)) = n - 1
      /\ \A k \in 1..(n - 1) : Front(stack)[k] = stack[k]
  <2>1. stack \in Seq(Frames)
    BY <1>1 DEF CallsOK
  <2> QED
    BY <2>1, <1>1, LastIs
<1>3. f.todo # <<>> /\ RpoCall(c, t)
  BY <1>2 DEF RpoVisit
<1>4. /\ f1 \in Frames /\ f1.blk = f.blk /\ c \in Blk \cup {0} /\ c \in Todo(f)
      /\ Todo(f1) \subseteq Todo(f) /\ Todo(f) \subseteq Todo(f1) \cup {c}
  <2> DEFINE q == f.todo
  <2> HIDE DEF f
  <2>1. q \in Seq(Blk \cup {0}) /\ q # <<>>
    BY <1>2, <1>3 DEF Frames
  <2>2. f1.blk = f.blk /\ f1.todo = Tail(q) /\ f.blk \in Blk
    BY <1>2 DEF Frames
  <2>3. Tail(q) \in Seq(Blk \cup {0}) => f1 \in Frames
    BY <1>2 DEF Frames
  <2> HIDE DEF q, f1
  <2>4. /\ Len(q) \in Nat /\ Len(q) >= 1 /\ c = q[1] /\ q[1] \in Blk \cup {0}
        /\ Tail(q) \in Seq(Blk \cup {0}) /\ Len(Tail(q)) = Len(q) - 1
        /\ \A k \in 1..(Len(q) - 1) : Tail(q)[k] = q[k + 1]
    BY <2>1 DEF q
  <2>5. \A k \in 1..Len(q) : k = 1 \/ (k - 1 \in 1..(Len(q) - 1) /\ Tail(q)[k - 1] = q[k])
    BY <2>4
  <2>6. Todo(f) \subseteq Todo(f1) \cup {c}
    <3> SUFFICES ASSUME NEW k \in 1..Len(q), k # 1 PROVE q[k] \in Todo(f1)
      BY <2>4 DEF Todo, q
    <3> QED
      BY <2>2, <2>4, <2>5 DEF Todo
  <2>7. Todo(f1) \subseteq Todo(f) /\ c \in Todo(f)
    <3>1. \A k \in 1..(Len(q) - 1) : k + 1 \in 1..Len(q) /\ Tail(q)[k] = q[k + 1]
      BY <2>4
    <3>2. 1 \in 1..Len(q) /\ Len(f1.todo) = Len(q) - 1
      BY <2>2, <2>4
    <3>3. Todo(f) = {q[k] : k \in 1..Len(q)}
      BY DEF Todo, q
    <3>4. Todo(f1) = {Tail(q)[k] : k \in 1..(Len(q) - 1)}
      BY <2>2, <3>2 DEF Todo
    <3>5. c \in Todo(f)
      BY <2>4, <3>2, <3>3
    <3>6. Todo(f1) \subseteq Todo(f)
      BY <3>1, <3>3, <3>4
    <3> QED
      BY <3>5, <3>6
  <2> QED
    BY <2>2, <2>4, <2>6, <2>7, <2>3
<1> HIDE DEF c, f1
<1>5. /\ t \in Seq(Frames) /\ Len(t) = n /\ t[n] = f1
      /\ \A k \in 1..(n - 1) : t[k] = stack[k]
  BY <1>2, <1>4
<1> HIDE DEF t
<1>6. \A k \in 1..n : /\ t[k].blk = stack[k].blk
                      /\ Todo(t[k]) \subseteq Todo(stack[k])
                      /\ Todo(stack[k]) \subseteq Todo(t[k]) \cup {c}
  <2> SUFFICES ASSUME NEW k \in 1..n
               PROVE  /\ t[k].blk = stack[k].blk /\ Todo(t[k]) \subseteq Todo(stack[k])
                      /\ Todo(stack[k]) \subseteq Todo(t[k]) \cup {c}
    OBVIOUS
  <2>1. CASE k = n
    BY <2>1, <1>4, <1>5
  <2>2. CASE k # n
    <3>1. k \in 1..(n - 1)
      BY <2>2, <1>2
    <3> QED
      BY <3>1, <1>5
  <2> QED
    BY <2>1, <2>2
<1>7. 0 \notin Blk
  BY DEF Blk
<1>8. CallsOK(t, c)
  <2>1. ASSUME NEW j \in 1..n
        PROVE  /\ t[j].blk \in Called
               /\ Todo(t[j]) \subseteq Succs(t[j].blk) \cup {0}
               /\ Succs(t[j].blk) \subseteq Called \cup Todo(t[j]) \cup {c}
               /\ j = 1 => t[j].blk = 1
               /\ j > 1 => t[j].blk \in Succs(t[j - 1].blk)
    <3>1. /\ stack[j].blk \in Called
          /\ Todo(stack[j]) \subseteq Succs(stack[j].blk) \cup {0}
          /\ Succs(stack[j].blk) \subseteq Called \cup Todo(stack[j]) \cup {0}
          /\ j = 1 => stack[j].blk = 1
          /\ j > 1 => stack[j].blk \in Succs(stack[j - 1].blk)
      BY <1>1 DEF CallsOK
    <3>2. j > 1 => j - 1 \in 1..n
      BY <1>2
    <3>3. 0 \notin Succs(t[j].blk)
      BY DEF Succs
    <3> QED
      BY <3>1, <3>2, <3>3, <1>6
  <2>2. \A j, k \in 1..n : t[j].blk = t[k].blk => j = k
    BY <1>1, <1>6 DEF CallsOK
  <2> QED
    BY <1>5, <2>1, <2>2 DEF CallsOK
<1>9. Active = {t[j].blk : j \in 1..Len(t)}
  BY <1>5, <1>6 DEF Active
<1>10. t # <<>> /\ c \in Succs(t[Len(t)].blk) \cup {0}
  <2>1. n \in 1..n /\ t # <<>>
    BY <1>2, <1>5
  <2>2. Todo(f) \subseteq Succs(f.blk) \cup {0}
    BY <2>1, <1>1 DEF CallsOK
  <2> QED
    BY <2>1, <2>2, <1>4, <1>5
<1>11. UNCHANGED <<graph, loop, x>> /\ UNCHANGED <<graph, nblk, rpo, doms, loop, visit, pc, ch>>
  BY DEF RpoVisit
<1>12. CallsOK(stack, 0)' /\ NumberOK' /\ id' \in [Blk -> -1..NBlk]
  BY <1>1, <1>3, <1>4, <1>8, <1>9, <1>10, <1>11, CallKeeps
<1> QED
  BY <1>1, <1>11, <1>12, RpoKeeps

(* rporec preserves IInv: the call on top returns.                         *)
LEMMA RpoNumberKeeps == IInv /\ RpoNumber => IInv'
<1> SUFFICES ASSUME IInv, RpoNumber PROVE IInv'
  OBVIOUS
<1>1. Typed /\ Fresh /\ pc = "rpo" /\ RpoInv
  BY DEF IInv, RpoNumber
<1>2. CallsOK(stack, 0)' /\ NumberOK' /\ id' \in [Blk -> -1..NBlk]
  BY <1>1, NumberKeeps
<1>3. UNCHANGED <<graph, nblk, rpo, doms, loop, visit, pc, ch>>
  BY DEF RpoNumber
<1> QED
  BY <1>1, <1>2, <1>3, RpoKeeps

-----------------------------------------------------------------------------
(* When the last call has returned the called blocks are the live ones,    *)
(* and the sweep begins.                                                   *)
LEMMA RpoDoneKeeps == IInv /\ RpoDone => IInv'
<1> SUFFICES ASSUME IInv, RpoDone PROVE IInv'
  OBVIOUS
<1>0. NBlk \in Nat /\ NBlk >= 1 /\ 1 \in Blk /\ Blk = 1..NBlk
  BY BlkIs, CfgAssumption DEF Blk
<1>1. Typed /\ RpoInv /\ NumberOK /\ stack = <<>> /\ id[1] # -1
  BY DEF IInv, RpoDone, RpoInv
<1>2. /\ UNCHANGED <<graph, id, doms, loop, visit, x, ch>> /\ pc' = "sweep" /\ stack' = link
      /\ nblk' = nblk - FirstId /\ rpo' = [j \in 0..nblk' - 1 |-> 0]
  BY DEF RpoDone
<1>e. Edges
  BY <1>1 DEF Typed, Edges
<1>u. /\ \A a \in Blk : (Succs(a) = Succs(a)') /\ (PredsOf(a) = PredsOf(a)')
      /\ \A s, a \in Blk : (a \in Reach({s}, {})) = (a \in Reach({s}, {}))'
      /\ Live' = Live
  BY <1>2 DEF graph, Succs, PredsOf, Reach, Live
<1>3. Numbered = Called /\ Active = {} /\ 1 \in Called /\ Called \subseteq Blk
  <2>1. Active = {}
    BY <1>1 DEF Active
  <2> QED
    BY <2>1, <1>0, <1>1 DEF Numbered, Called
<1>4. Called = Live
  <2>1. Closed(Called, {})
    BY <1>1, <1>3 DEF NumberOK, Closed
  <2>2. Live \subseteq Called
    BY <2>1, <1>3, <1>e, LiveIs
  <2> QED
    BY <2>2, <1>1 DEF NumberOK
<1>5. /\ x \in -1..NBlk - 1 /\ nblk' = NBlk - 1 - x /\ FirstId = 1 + x
      /\ Cardinality(Live) = NBlk - 1 - x
  <2>1. nblk = NBlk
    BY <1>1 DEF RpoInv
  <2>2. x \in -1..NBlk - 1 /\ Cardinality(Live) = NBlk - 1 - x
    BY <1>1, <1>3, <1>4 DEF NumberOK
  <2> QED
    BY <2>1, <2>2, <1>2, <1>0 DEF FirstId
<1>6. /\ stack' \in Seq(Blk) /\ Len(stack') = NBlk /\ \A j \in 1..NBlk : stack'[j] = j
      /\ IsInjective(link) /\ ToSet(link) = Blk
  <2>1. link = [j \in Blk |-> j] /\ link \in Seq(Blk)
    BY <1>1 DEF RpoInv, Typed
  <2>2. DOMAIN link = Blk /\ Len(link) \in Nat /\ DOMAIN link = 1..Len(link)
    BY <2>1
  <2>3. Len(link) = NBlk
    <3> DEFINE m == Len(link)
    <3>1. m \in Nat /\ 1..m = 1..NBlk
      BY <2>2, <1>0
    <3> HIDE DEF m
    <3>2. m = NBlk
      BY <3>1, <1>0
    <3> QED
      BY <3>2 DEF m
  <2> QED
    BY <2>1, <2>2, <2>3, <1>0, <1>2 DEF ToSet, IsInjective
<1>7. Seen' = {} /\ \A b \in Blk : Shifted'[b] = id[b] - (1 + x)
  <2>1. Seen' = {}
    BY <1>6, <1>0 DEF Seen
  <2> QED
    BY <2>1, <1>2 DEF Shifted, FirstId
<1>8. Typed'
  <2>1. nblk' \in 0..NBlk
    BY <1>5, <1>0
  <2>2. \A j \in DOMAIN rpo' : rpo'[j] \in Blk \cup {0}
    BY <1>2
  <2> QED
    BY <1>1, <1>2, <2>1, <2>2 DEF Typed, graph, doms
<1>9. Live \subseteq Blk /\ id \in [Blk -> -1..NBlk]
  BY <1>1, <1>3, <1>4 DEF Typed
<1>10. Numbering(Shifted)'
  <2>1. \A b \in Live : id[b] \in x + 1..NBlk - 1 /\ Shifted'[b] = id[b] - (1 + x)
    BY <1>1, <1>3, <1>4, <1>7, <1>9 DEF NumberOK
  <2>2. (\A b \in Live : Shifted[b] \in 0..nblk - 1)'
    <3>1. \A v \in x + 1..NBlk - 1 : v - (1 + x) \in 0..NBlk - 1 - x - 1
      BY <1>5, <1>0
    <3>2. \A b \in Live : Shifted'[b] \in 0..nblk' - 1
      BY <3>1, <2>1, <1>5
    <3> QED
      BY <3>2, <1>u
  <2>3. (\A b, c \in Live : Shifted[b] = Shifted[c] => b = c)'
    <3>1. \A b, c \in Live : id[b] = id[c] => b = c
      BY <1>1, <1>3, <1>4 DEF NumberOK
    <3> QED
      BY <3>1, <2>1, <1>u, <1>5, <1>0
  <2>4. (\A k \in 0..nblk - 1 : \E b \in Live : Shifted[b] = k)'
    <3> SUFFICES ASSUME NEW k \in 0..nblk' - 1 PROVE \E b \in Live : Shifted'[b] = k
      BY <1>u
    <3>1. k + (1 + x) \in x + 1..NBlk - 1
      BY <1>5, <1>0
    <3>2. PICK b \in Live : id[b] = k + (1 + x)
      BY <3>1, <1>1, <1>3, <1>4 DEF NumberOK
    <3> QED
      BY <3>2, <2>1, <1>5, <1>0
  <2>5. (Shifted[1] = 0)'
    <3>1. id[1] = x + 1
      BY <1>1, <1>3 DEF NumberOK
    <3> QED
      BY <3>1, <1>7, <1>0, <1>5
  <2>6. (\A b \in Live : \A s \in Succs(b) : Shifted[s] > Shifted[b] \/ b \in Reach({s}, {}))'
    <3>1. \A b \in Live : \A s \in Succs(b) :
            s \in Live /\ (id[s] > id[b] \/ b \in Reach({s}, {}))
      BY <1>1, <1>3, <1>4 DEF NumberOK
    <3>2. \A b \in Live : \A s \in Succs(b) :
            s \in Live /\ (Shifted'[s] > Shifted'[b] \/ b \in Reach({s}, {}))
      <4> SUFFICES ASSUME NEW b \in Live, NEW s \in Succs(b), b \notin Reach({s}, {})
                   PROVE  s \in Live /\ Shifted'[s] > Shifted'[b]
        BY <3>1
      <4>1. s \in Live /\ id[s] > id[b]
        BY <3>1
      <4> QED
        BY <4>1, <2>1, <1>5, <1>0
    <3>3. \A b \in Live : \A s \in Succs(b) : s \in Blk
      BY <3>1, <1>9
    <3> QED
      BY <3>2, <3>3, <1>9, <1>u
  <2>7. (\A b \in Live \ {1} : \E a \in Live : b \in Succs(a) /\ Shifted[a] < Shifted[b])'
    <3>1. \A b \in Live \ {1} : \E a \in Live : b \in Succs(a) /\ id[a] < id[b]
      BY <1>1, <1>3, <1>4 DEF NumberOK
    <3>2. \A b \in Live \ {1} : \E a \in Live : b \in Succs(a) /\ Shifted'[a] < Shifted'[b]
      BY <3>1, <2>1, <1>5, <1>0
    <3> QED
      BY <3>2, <1>9, <1>u
  <2> QED
    BY <2>2, <2>3, <2>4, <2>5, <2>6, <2>7 DEF Numbering
<1>11. SweepInv'
  <2>1. (stack \in Seq(Blk) /\ Len(stack) <= NBlk
         /\ \A j \in 1..Len(stack) : stack[j] = NBlk - Len(stack) + j)'
    BY <1>6, <1>0
  <2>2. (x \in -1..NBlk - 1 /\ nblk = NBlk - 1 - x /\ nblk = Cardinality(Live))'
    BY <1>2, <1>5, <1>u
  <2>3. (DOMAIN rpo = 0..nblk - 1)'
    BY <1>2
  <2>4. (ToSet(link) = Live \cup (Blk \ Seen) /\ IsInjective(link))'
    BY <1>2, <1>6, <1>7, <1>9, <1>u DEF graph
  <2>5. ListsOK'
    BY <1>1, <1>2, <1>u DEF RpoInv, ListsOK, graph
  <2>6. (\A b \in Blk \ Live : id[b] = -1 /\ (b \in Seen => Succs(b) = {}))'
    BY <1>2, <1>4, <1>7, <1>u DEF Called
  <2>7. (\A b \in Live \cap Seen : rpo[id[b]] = b)'
    BY <1>7
  <2> QED
    BY <2>1, <2>2, <2>3, <2>4, <2>5, <2>6, <2>7, <1>10 DEF SweepInv
<1>12. Fresh'
  BY <1>2 DEF IInv, Fresh, RpoDone, doms
<1> QED
  BY <1>2, <1>8, <1>11, <1>12 DEF IInv

(* Without some edges of other blocks the live blocks stay live, and reach *)
(* what they reached.                                                      *)
LEMMA LessEdges ==
  ASSUME Edges, Edges',
         \A a \in Live : Succs(a)' = Succs(a),
         \A a \in Blk : Succs(a)' \subseteq Succs(a)
  PROVE  /\ Live' = Live
         /\ \A s, a \in Live : a \in Reach({s}, {}) => (a \in Reach({s}, {}))'
<1>1. /\ Live' \subseteq Blk /\ 1 \in Live' /\ \A a \in Live' : Succs(a)' \subseteq Live'
      /\ \A C : 1 \in C /\ (\A a \in C : Succs(a)' \subseteq C) => Live' \subseteq C
  <2>1. /\ Live' \subseteq Blk /\ 1 \in Live' /\ Closed(Live, {})'
        /\ \A C : 1 \in C /\ Closed(C, {})' => Live' \subseteq C
    <3>1. (Edges => /\ Live \subseteq Blk /\ 1 \in Live /\ Closed(Live, {})
                    /\ \A C : 1 \in C /\ Closed(C, {}) => Live \subseteq C)'
      BY LiveIs, PTL
    <3> QED
      BY <3>1
  <2> QED
    BY <2>1 DEF Closed
<1>2. /\ Live \subseteq Blk /\ 1 \in Live /\ \A a \in Live : Succs(a) \subseteq Live
      /\ \A C : 1 \in C /\ (\A a \in C : Succs(a) \subseteq C) => Live \subseteq C
  BY LiveIs DEF Closed
<1>3. Live' = Live
  <2>1. Live' \subseteq Live
    BY <1>1, <1>2
  <2>2. \A a \in Live' : Succs(a) \subseteq Live'
    BY <1>1, <2>1
  <2>3. Live \subseteq Live'
    BY <1>1, <1>2, <2>2
  <2> QED
    BY <2>1, <2>3
<1>4. (Edges => \A s, b \in Blk :
         b \in Reach({s}, {}) <=> \A C : s \in C /\ Closed(C, {}) => b \in C)'
  BY FromIs, PTL
<1>5. ASSUME NEW s \in Live, NEW a \in Live, a \in Reach({s}, {})
      PROVE  (a \in Reach({s}, {}))'
  <2>1. s \in Blk /\ a \in Blk
    BY <1>2
  <2> SUFFICES ASSUME NEW C, s \in C, Closed(C, {})' PROVE a \in C
    BY <2>1, <1>4
  <2>2. \A c \in C : Succs(c)' \subseteq C
    BY DEF Closed
  <2>3. Closed(C \cap Live, {})
    BY <2>2, <1>2 DEF Closed
  <2>4. a \in C \cap Live
    BY <2>1, <2>3, <1>5, FromIs
  <2> QED
    BY <2>4
<1> QED
  BY <1>3, <1>5

(* What edgedel takes from the lists, for both edges of a block.           *)
LEMMA DeletedIs ==
  ASSUME Typed, NEW b \in Blk
  PROVE  /\ EdgesDeleted(b).phi =
              [d \in Blk |-> IF d \in Succs(b) THEN RemoveFirst(phi[d], b) ELSE phi[d]]
         /\ EdgesDeleted(b).pred =
              [d \in Blk |-> IF d \in Succs(b) THEN RemoveFirst(pred[d], b) ELSE pred[d]]
<1>0. /\ s1[b] \in Blk \cup {0} /\ s2[b] \in Blk \cup {0} /\ 0 \notin Blk
      /\ phi \in [Blk -> Seq(Blk)] /\ pred \in [Blk -> Seq(Blk)]
  <2>1. 0 \notin Blk
    BY DEF Blk
  <2> QED
    BY <2>1 DEF Typed
<1> DEFINE Cut(h, c) == [h EXCEPT ![c] = RemoveFirst(h[c], b)]
<1> DEFINE g == [phi |-> phi, pred |-> pred]
<1>1. /\ \A h : \A c : Deleted(h, b, c).phi = Cut(h.phi, c) /\ Deleted(h, b, c).pred = Cut(h.pred, c)
      /\ g.phi = phi /\ g.pred = pred
  BY DEF Deleted
<1> HIDE DEF g
<1>2. CASE s1[b] = 0 \/ s1[b] = s2[b]
  <2>1. EdgesDeleted(b) = IF s2[b] = 0 THEN g ELSE Deleted(g, b, s2[b])
    BY <1>2 DEF EdgesDeleted, g
  <2>2. CASE s2[b] = 0
    <3>1. EdgesDeleted(b).phi = phi /\ EdgesDeleted(b).pred = pred /\ Succs(b) = {}
      BY <1>1, <1>2, <2>1, <2>2 DEF Succs
    <3> QED
      BY <3>1, <1>0
  <2>3. CASE s2[b] # 0
    <3>1. EdgesDeleted(b).phi = Cut(phi, s2[b]) /\ EdgesDeleted(b).pred = Cut(pred, s2[b])
          /\ Succs(b) = {s2[b]}
      <4>1. Succs(b) = {s2[b]}
        BY <1>2, <2>3 DEF Succs
      <4>2. EdgesDeleted(b) = Deleted(g, b, s2[b])
        BY <2>1, <2>3
      <4> HIDE DEF Cut
      <4> QED
        BY <1>1, <4>1, <4>2
    <3> QED
      BY <3>1, <1>0, <2>3
  <2> QED
    BY <2>2, <2>3
<1>3. CASE s1[b] # 0 /\ s1[b] # s2[b]
  <2> DEFINE g1 == Deleted(g, b, s1[b])
  <2>1. EdgesDeleted(b) = IF s2[b] = 0 THEN g1 ELSE Deleted(g1, b, s2[b])
    BY <1>3 DEF EdgesDeleted, g
  <2>2. g1.phi = Cut(phi, s1[b]) /\ g1.pred = Cut(pred, s1[b])
    <3> HIDE DEF Cut
    <3> QED
      BY <1>1
  <2> HIDE DEF g1
  <2>3. CASE s2[b] = 0
    <3>1. EdgesDeleted(b).phi = Cut(phi, s1[b]) /\ EdgesDeleted(b).pred = Cut(pred, s1[b])
          /\ Succs(b) = {s1[b]}
      BY <1>3, <2>1, <2>2, <2>3 DEF Succs
    <3> QED
      BY <3>1, <1>0, <1>3
  <2>4. CASE s2[b] # 0
    <3>1. /\ EdgesDeleted(b).phi = Cut(Cut(phi, s1[b]), s2[b])
          /\ EdgesDeleted(b).pred = Cut(Cut(pred, s1[b]), s2[b])
      <4> HIDE DEF Cut
      <4> QED
        BY <1>1, <2>1, <2>2, <2>4
    <3>2. Succs(b) = {s1[b], s2[b]} /\ s1[b] \in Blk /\ s2[b] \in Blk
      BY <1>0, <1>3, <2>4 DEF Succs
    <3>3. ASSUME NEW h \in [Blk -> Seq(Blk)]
          PROVE  Cut(Cut(h, s1[b]), s2[b]) =
                   [d \in Blk |-> IF d \in Succs(b) THEN RemoveFirst(h[d], b) ELSE h[d]]
      BY <3>2, <1>3
    <3> QED
      BY <3>1, <3>3, <1>0
  <2> QED
    BY <2>3, <2>4
<1> QED
  BY <1>2, <1>3

(* One more block is seen.                                                 *)
LEMMA SeenIs ==
  ASSUME SweepInv, stack # <<>>, stack' = Tail(stack)
  PROVE  /\ Head(stack) \in Blk \ Seen /\ Seen' = Seen \cup {Head(stack)}
         /\ (/\ stack \in Seq(Blk) /\ Len(stack) <= NBlk
             /\ \A j \in 1..Len(stack) : stack[j] = NBlk - Len(stack) + j)'
<1> DEFINE n == Len(stack)
<1>0. NBlk \in Nat /\ Blk = 1..NBlk
  BY BlkIs DEF Blk
<1>1. stack \in Seq(Blk) /\ n <= NBlk /\ \A j \in 1..n : stack[j] = NBlk - n + j
  BY DEF SweepInv
<1>2. n \in Nat /\ n >= 1 /\ Head(stack) = stack[1]
  BY <1>1
<1>3. Tail(stack) \in Seq(Blk) /\ Len(Tail(stack)) = n - 1
      /\ \A j \in 1..(n - 1) : Tail(stack)[j] = stack[j + 1]
  BY <1>1
<1>4. Head(stack) = NBlk - n + 1
  BY <1>1, <1>2
<1>5. \A j \in 1..(n - 1) : Tail(stack)[j] = NBlk - (n - 1) + j
  <2> SUFFICES ASSUME NEW j \in 1..(n - 1) PROVE Tail(stack)[j] = NBlk - (n - 1) + j
    OBVIOUS
  <2>1. j + 1 \in 1..n /\ Tail(stack)[j] = stack[j + 1]
    BY <1>2, <1>3
  <2>2. stack[j + 1] = NBlk - n + (j + 1)
    BY <1>1, <2>1
  <2> QED
    BY <2>1, <2>2, <1>0, <1>2
<1>6. Seen = 1..(NBlk - n) /\ Seen' = 1..(NBlk - (n - 1))
  BY <1>3 DEF Seen
<1> HIDE DEF n
<1>7. 1..(NBlk - (n - 1)) = 1..(NBlk - n) \cup {NBlk - n + 1}
  BY <1>0, <1>1, <1>2
<1>8. Head(stack) \in Blk \ Seen
  BY <1>0, <1>1, <1>2, <1>4, <1>6
<1>9. Seen' = Seen \cup {Head(stack)}
  BY <1>4, <1>6, <1>7
<1>10. stack' \in Seq(Blk) /\ Len(stack') = n - 1 /\ n - 1 <= NBlk
       /\ \A j \in 1..(n - 1) : stack'[j] = NBlk - (n - 1) + j
  BY <1>0, <1>1, <1>2, <1>3, <1>5 DEF n
<1> QED
  BY <1>8, <1>9, <1>10

(* The numbers stay while the live blocks keep them and their edges.       *)
LEMMA SameNumbering ==
  ASSUME Edges, Numbering(Shifted), nblk' = nblk, Live' = Live,
         \A a \in Live : Succs(a)' = Succs(a) /\ Shifted'[a] = Shifted[a],
         \A s, a \in Live : a \in Reach({s}, {}) => (a \in Reach({s}, {}))'
  PROVE  Numbering(Shifted)'
<1>1. 1 \in Live /\ \A a \in Live : Succs(a) \subseteq Live
  BY LiveIs DEF Closed
<1>2. (\A b \in Live : Shifted[b] \in 0..nblk - 1)'
  BY DEF Numbering
<1>3. (\A b, c \in Live : Shifted[b] = Shifted[c] => b = c)'
  BY DEF Numbering
<1>4. (\A k \in 0..nblk - 1 : \E b \in Live : Shifted[b] = k)'
  BY DEF Numbering
<1>5. (Shifted[1] = 0)'
  BY <1>1 DEF Numbering
<1>6. (\A b \in Live : \A s \in Succs(b) : Shifted[s] > Shifted[b] \/ b \in Reach({s}, {}))'
  <2> SUFFICES ASSUME NEW b \in Live, NEW s \in Succs(b)
               PROVE  Shifted'[s] > Shifted'[b] \/ (b \in Reach({s}, {}))'
    OBVIOUS
  <2>1. s \in Live
    BY <1>1
  <2>2. Shifted[s] > Shifted[b] \/ b \in Reach({s}, {})
    BY DEF Numbering
  <2> QED
    BY <2>1, <2>2
<1>7. (\A b \in Live \ {1} : \E a \in Live : b \in Succs(a) /\ Shifted[a] < Shifted[b])'
  <2> SUFFICES ASSUME NEW b \in Live \ {1}
               PROVE  \E a \in Live : b \in Succs(a)' /\ Shifted'[a] < Shifted'[b]
    OBVIOUS
  <2>1. PICK a \in Live : b \in Succs(a) /\ Shifted[a] < Shifted[b]
    BY DEF Numbering
  <2> QED
    BY <2>1
<1> QED
  BY <1>2, <1>3, <1>4, <1>5, <1>6, <1>7 DEF Numbering

(* The sweep deletes the edges of a block that was not reached.            *)
LEMMA SweepDeadKeeps == IInv /\ SweepDead => IInv'
<1> SUFFICES ASSUME IInv, SweepDead PROVE IInv'
  OBVIOUS
<1>b. PICK b : b = Head(stack)
  OBVIOUS
<1>0. NBlk \in Nat /\ 1 \in Blk /\ 0 \notin Blk
  BY BlkIs DEF Blk
<1>1. /\ Typed /\ SweepInv /\ stack # <<>> /\ stack' = Tail(stack) /\ pc' = "sweep"
      /\ UNCHANGED <<order, doms, loop, visit, x, ch>>
  BY DEF IInv, SweepDead
<1>2. /\ id[b] = -1
      /\ phi' = EdgesDeleted(b).phi /\ pred' = EdgesDeleted(b).pred
      /\ s1' = [s1 EXCEPT ![b] = 0] /\ s2' = [s2 EXCEPT ![b] = 0]
      /\ link' = RemoveFirst(link, b)
  BY <1>b DEF SweepDead
<1>3. /\ b \in Blk \ Seen /\ Seen' = Seen \cup {b}
      /\ (/\ stack \in Seq(Blk) /\ Len(stack) <= NBlk
          /\ \A j \in 1..Len(stack) : stack[j] = NBlk - Len(stack) + j)'
  BY <1>b, <1>1, SeenIs
<1>4. b \notin Live
  <2> SUFFICES ASSUME b \in Live PROVE FALSE
    OBVIOUS
  <2>1. Shifted[b] = id[b] - (1 + x) /\ Shifted[b] \in 0..nblk - 1
    BY <1>1, <1>3 DEF SweepInv, Numbering, Shifted, FirstId
  <2>2. x \in -1..NBlk - 1 /\ nblk \in Nat
    BY <1>1 DEF SweepInv, Typed
  <2> QED
    BY <2>1, <2>2, <1>2, <1>0
<1>5. Edges /\ Edges' /\ s1' \in [Blk -> (Blk \ {1}) \cup {0}] /\ s2' \in [Blk -> (Blk \ {1}) \cup {0}]
  <2>1. s1 \in [Blk -> (Blk \ {1}) \cup {0}] /\ s2 \in [Blk -> (Blk \ {1}) \cup {0}]
    BY <1>1 DEF Typed
  <2>2. s1' \in [Blk -> (Blk \ {1}) \cup {0}] /\ s2' \in [Blk -> (Blk \ {1}) \cup {0}]
    BY <2>1, <1>2
  <2> QED
    BY <2>1, <2>2 DEF Edges
<1>6. Succs(b)' = {} /\ \A a \in Blk \ {b} : Succs(a)' = Succs(a)
  <2>1. s1'[b] = 0 /\ s2'[b] = 0 /\ \A a \in Blk \ {b} : s1'[a] = s1[a] /\ s2'[a] = s2[a]
    BY <1>2, <1>3, <1>5 DEF Edges
  <2> QED
    BY <2>1, <1>3 DEF Succs
<1>7. Live \subseteq Blk /\ \A a \in Live : a # b
  BY <1>4, <1>5, LiveIs
<1>8. /\ Live' = Live
      /\ \A s, a \in Live : a \in Reach({s}, {}) => (a \in Reach({s}, {}))'
  <2>1. \A a \in Live : Succs(a)' = Succs(a)
    BY <1>6, <1>7
  <2>2. \A a \in Blk : Succs(a)' \subseteq Succs(a)
    BY <1>6
  <2> QED
    BY <2>1, <2>2, <1>5, LessEdges
<1>9. /\ phi' = [d \in Blk |-> IF d \in Succs(b) THEN RemoveFirst(phi[d], b) ELSE phi[d]]
      /\ pred' = [d \in Blk |-> IF d \in Succs(b) THEN RemoveFirst(pred[d], b) ELSE pred[d]]
  BY <1>1, <1>2, <1>3, DeletedIs
<1>10. phi' \in [Blk -> Seq(Blk)] /\ pred' \in [Blk -> Seq(Blk)]
  <2>1. \A d \in Blk : phi[d] \in Seq(Blk) /\ pred[d] \in Seq(Blk)
    BY <1>1 DEF Typed
  <2>2. \A d \in Blk : RemoveFirst(phi[d], b) \in Seq(Blk) /\ RemoveFirst(pred[d], b) \in Seq(Blk)
    BY <2>1, RemovedIs
  <2> QED
    BY <2>1, <2>2, <1>9
<1>11. ListsOK'
  <2> SUFFICES ASSUME NEW d \in Blk
               PROVE  ToSet(phi'[d]) = PredsOf(d)' /\ IsInjective(phi'[d])
    BY DEF ListsOK
  <2>1. ToSet(phi[d]) = PredsOf(d) /\ IsInjective(phi[d]) /\ phi[d] \in Seq(Blk)
    BY <1>1 DEF SweepInv, ListsOK, Typed
  <2>2. PredsOf(d)' = PredsOf(d) \ {b}
    BY <1>6 DEF PredsOf
  <2>3. CASE d \in Succs(b)
    <3>1. phi'[d] = RemoveFirst(phi[d], b)
      BY <1>9, <2>3
    <3>2. /\ IsInjective(RemoveFirst(phi[d], b))
          /\ ToSet(RemoveFirst(phi[d], b)) = ToSet(phi[d]) \ {b}
      BY <2>1, RemovedIs
    <3> QED
      BY <3>1, <3>2, <2>1, <2>2
  <2>4. CASE d \notin Succs(b)
    <3>1. phi'[d] = phi[d] /\ b \notin PredsOf(d)
      BY <1>9, <2>4 DEF PredsOf
    <3> QED
      BY <3>1, <2>1, <2>2
  <2> QED
    BY <2>3, <2>4
<1>12. link' \in Seq(Blk) /\ IsInjective(link') /\ ToSet(link') = ToSet(link) \ {b}
  <2>1. link \in Seq(Blk) /\ IsInjective(link)
    BY <1>1 DEF SweepInv, Typed
  <2> QED
    BY <2>1, <1>2, RemovedIs
<1>13. id' = id /\ nblk' = nblk /\ rpo' = rpo /\ x' = x
  BY <1>1 DEF order
<1>14. Typed'
  BY <1>1, <1>5, <1>10, <1>12, <1>13 DEF Typed, doms
<1>15. Numbering(Shifted)'
  <2>1. \A a \in Blk \ {b} : Shifted'[a] = Shifted[a]
    BY <1>3, <1>13 DEF Shifted, FirstId
  <2>2. \A a \in Live : Succs(a)' = Succs(a) /\ Shifted'[a] = Shifted[a]
    BY <2>1, <1>6, <1>7
  <2>3. Numbering(Shifted)
    BY <1>1 DEF SweepInv
  <2> QED
    BY <2>2, <2>3, <1>5, <1>8, <1>13, SameNumbering
<1>16. SweepInv'
  <2>1. (x \in -1..NBlk - 1 /\ nblk = NBlk - 1 - x /\ nblk = Cardinality(Live)
         /\ DOMAIN rpo = 0..nblk - 1)'
    BY <1>1, <1>8, <1>13 DEF SweepInv
  <2>2. (ToSet(link) = Live \cup (Blk \ Seen) /\ IsInjective(link))'
    BY <1>1, <1>3, <1>4, <1>8, <1>12 DEF SweepInv
  <2>3. (\A a \in Blk \ Live : id[a] = -1 /\ (a \in Seen => Succs(a) = {}))'
    BY <1>1, <1>3, <1>6, <1>8, <1>13 DEF SweepInv
  <2>4. (\A a \in Live \cap Seen : rpo[id[a]] = a)'
    BY <1>1, <1>3, <1>4, <1>8, <1>13 DEF SweepInv
  <2> QED
    BY <2>1, <2>2, <2>3, <2>4, <1>3, <1>11, <1>15 DEF SweepInv
<1>17. Fresh'
  BY <1>1 DEF IInv, Fresh, SweepDead, doms
<1> QED
  BY <1>1, <1>14, <1>16, <1>17 DEF IInv

(* The sweep shifts the number of a block that was reached.                *)
LEMMA SweepLiveKeeps == IInv /\ SweepLive => IInv'
<1> SUFFICES ASSUME IInv, SweepLive PROVE IInv'
  OBVIOUS
<1> DEFINE b == Head(stack)
<1>0. NBlk \in Nat /\ 1 \in Blk /\ 0 \notin Blk
  BY BlkIs DEF Blk
<1>1. /\ Typed /\ SweepInv /\ stack # <<>> /\ stack' = Tail(stack) /\ pc' = "sweep"
      /\ UNCHANGED <<graph, nblk, doms, loop, visit, x, ch>>
  BY DEF IInv, SweepLive
<1>2. /\ id[b] # -1 /\ id' = [id EXCEPT ![b] = id[b] - (1 + x)]
      /\ rpo' = [rpo EXCEPT ![id'[b]] = b]
  BY DEF SweepLive, FirstId
<1>3. /\ b \in Blk \ Seen /\ Seen' = Seen \cup {b}
      /\ (/\ stack \in Seq(Blk) /\ Len(stack) <= NBlk
          /\ \A j \in 1..Len(stack) : stack[j] = NBlk - Len(stack) + j)'
  BY <1>1, SeenIs
<1> HIDE DEF b
<1>4. b \in Live /\ Live \subseteq Blk /\ Edges
  <2>1. Edges
    BY <1>1 DEF Typed, Edges
  <2> QED
    BY <2>1, <1>1, <1>2, <1>3, LiveIs DEF SweepInv
<1>5. x \in -1..NBlk - 1 /\ nblk \in 0..NBlk /\ id \in [Blk -> -1..NBlk]
  BY <1>1 DEF SweepInv, Typed
<1>6. /\ id' \in [Blk -> -1..NBlk] /\ id'[b] = Shifted[b] /\ id'[b] \in 0..nblk - 1
      /\ \A a \in Blk \ {b} : id'[a] = id[a]
  <2>1. Shifted[b] = id[b] - (1 + x) /\ Shifted[b] \in 0..nblk - 1
    BY <1>1, <1>3, <1>4 DEF SweepInv, Numbering, Shifted, FirstId
  <2>2. id[b] - (1 + x) \in -1..NBlk
    BY <2>1, <1>5, <1>0
  <2> QED
    BY <2>1, <2>2, <1>2, <1>3, <1>5
<1>7. \A a \in Blk : Shifted'[a] = Shifted[a]
  <2>1. \A a \in Blk \ {b} : Shifted'[a] = Shifted[a]
    BY <1>1, <1>3, <1>6 DEF Shifted, FirstId
  <2>2. Shifted'[b] = Shifted[b]
    BY <1>3, <1>6 DEF Shifted
  <2> QED
    BY <2>1, <2>2
<1>8. /\ \A a \in Blk : (Succs(a)' = Succs(a)) /\ (PredsOf(a)' = PredsOf(a))
      /\ \A s, a \in Blk : (a \in Reach({s}, {})) = (a \in Reach({s}, {}))'
      /\ Live' = Live
  BY <1>1 DEF graph, Succs, PredsOf, Reach, Live
<1>9. DOMAIN rpo = 0..nblk - 1 /\ DOMAIN rpo' = 0..nblk - 1 /\ rpo'[id'[b]] = b
      /\ \A j \in 0..nblk - 1 : j # id'[b] => rpo'[j] = rpo[j]
  <2>1. DOMAIN rpo = 0..nblk - 1
    BY <1>1 DEF SweepInv
  <2> QED
    BY <2>1, <1>2, <1>6
<1>10. Typed'
  <2>1. \A j \in DOMAIN rpo' : rpo'[j] \in Blk \cup {0}
    BY <1>1, <1>3, <1>9 DEF Typed
  <2> QED
    BY <2>1, <1>1, <1>6 DEF Typed, graph, doms
<1>11. Numbering(Shifted)'
  <2>1. Numbering(Shifted) /\ nblk' = nblk
    BY <1>1 DEF SweepInv
  <2>2. \A a \in Live : Succs(a)' = Succs(a) /\ Shifted'[a] = Shifted[a]
    BY <1>4, <1>7, <1>8
  <2>3. \A s, a \in Live : a \in Reach({s}, {}) => (a \in Reach({s}, {}))'
    BY <1>4, <1>8
  <2> QED
    BY <2>1, <2>2, <2>3, <1>4, <1>8, SameNumbering
<1>12. (\A a \in Live \cap Seen : rpo[id[a]] = a)'
  <2> SUFFICES ASSUME NEW a \in Live, a \in Seen \cup {b} PROVE rpo'[id'[a]] = a
    BY <1>3, <1>8
  <2>1. CASE a = b
    BY <2>1, <1>9
  <2>2. CASE a # b
    <3>1. a \in Seen /\ id'[a] = id[a] /\ rpo[id[a]] = a
      BY <2>2, <1>1, <1>4, <1>6 DEF SweepInv
    <3>2. Shifted[a] = id[a] /\ Shifted[a] \in 0..nblk - 1 /\ Shifted[a] # Shifted[b]
      BY <2>2, <3>1, <1>1, <1>4 DEF SweepInv, Numbering, Shifted
    <3> QED
      BY <3>1, <3>2, <1>6, <1>9
  <2> QED
    BY <2>1, <2>2
<1>13. SweepInv'
  <2>1. (x \in -1..NBlk - 1 /\ nblk = NBlk - 1 - x /\ nblk = Cardinality(Live)
         /\ DOMAIN rpo = 0..nblk - 1)'
    BY <1>1, <1>8, <1>9 DEF SweepInv
  <2>2. (ToSet(link) = Live \cup (Blk \ Seen) /\ IsInjective(link))'
    BY <1>1, <1>3, <1>4, <1>8 DEF SweepInv, graph
  <2>3. (\A a \in Blk \ Live : id[a] = -1 /\ (a \in Seen => Succs(a) = {}))'
    BY <1>1, <1>3, <1>4, <1>6, <1>8 DEF SweepInv
  <2>4. ListsOK'
    BY <1>1, <1>8 DEF SweepInv, ListsOK, graph
  <2> QED
    BY <2>1, <2>2, <2>3, <2>4, <1>3, <1>11, <1>12 DEF SweepInv
<1>14. Fresh'
  BY <1>1 DEF IInv, Fresh, SweepLive, doms
<1> QED
  BY <1>1, <1>10, <1>13, <1>14 DEF IInv

(* From fillpreds on the numbers stay.                                     *)
LEMMA NumberingSame ==
  ASSUME Edges, Numbering(id), UNCHANGED <<s1, s2, id, nblk>>
  PROVE  Numbering(id)'
<1>1. Live' = Live
  BY DEF Live, Reach, Succs
<1>2. Live \subseteq Blk /\ \A a \in Live : Succs(a) \subseteq Live
  BY LiveIs DEF Closed
<1>3. \A a \in Blk : (Succs(a)' = Succs(a))
  BY DEF Succs
<1>4. \A s, a \in Blk : (a \in Reach({s}, {})) = (a \in Reach({s}, {}))'
  BY DEF Reach, Succs
<1>5. (/\ \A b \in Live : id[b] \in 0..nblk - 1
       /\ \A b, c \in Live : id[b] = id[c] => b = c
       /\ \A k \in 0..nblk - 1 : \E b \in Live : id[b] = k
       /\ id[1] = 0)'
  BY <1>1 DEF Numbering
<1>6. (\A b \in Live : \A s \in Succs(b) : id[s] > id[b] \/ b \in Reach({s}, {}))'
  <2> SUFFICES ASSUME NEW b \in Live, NEW s \in Succs(b)
               PROVE  id[s] > id[b] \/ (b \in Reach({s}, {}))'
    BY <1>1, <1>2, <1>3
  <2>1. s \in Blk /\ b \in Blk
    BY <1>2
  <2>2. id[s] > id[b] \/ b \in Reach({s}, {})
    BY DEF Numbering
  <2> QED
    BY <2>1, <2>2, <1>4
<1>7. (\A b \in Live \ {1} : \E a \in Live : b \in Succs(a) /\ id[a] < id[b])'
  <2> SUFFICES ASSUME NEW b \in Live \ {1}
               PROVE  \E a \in Live : b \in Succs(a)' /\ id[a] < id[b]
    BY <1>1
  <2>1. PICK a \in Live : b \in Succs(a) /\ id[a] < id[b]
    BY DEF Numbering
  <2> QED
    BY <2>1, <1>2, <1>3
<1> QED
  BY <1>5, <1>6, <1>7 DEF Numbering

(* fillpreds: what is left is numbered and listed.                         *)
LEMMA FillPredsKeeps == IInv /\ FillPreds => IInv'
<1> SUFFICES ASSUME IInv, FillPreds PROVE IInv'
  OBVIOUS
<1>0. NBlk \in Nat /\ NBlk >= 1 /\ 1 \in Blk /\ Blk = 1..NBlk
  BY BlkIs, CfgAssumption DEF Blk
<1>1. /\ Typed /\ SweepInv /\ stack = <<>> /\ Fresh /\ pc = "sweep"
      /\ UNCHANGED <<s1, s2, link, phi, order, doms, loop, stack, ch>>
      /\ pc' = "dom" /\ x' = 1
  BY DEF IInv, FillPreds
<1>2. /\ pred' = [b \in Blk |-> Those(link, PredsOf(b))]
      /\ visit' = [b \in Blk |-> IF pred'[b] = <<>> THEN visit[b] ELSE Len(pred'[b])]
  BY DEF FillPreds
<1>e. Edges /\ Live \subseteq Blk /\ 1 \in Live /\ \A b \in Live : Succs(b) \subseteq Live
  <2>1. Edges
    BY <1>1 DEF Typed, Edges
  <2> QED
    BY <2>1, LiveIs DEF Closed
<1>u. /\ \A a \in Blk : (Succs(a)' = Succs(a)) /\ (PredsOf(a)' = PredsOf(a))
      /\ \A s, a \in Blk : (a \in Reach({s}, {})) = (a \in Reach({s}, {}))'
      /\ Live' = Live
  BY <1>1 DEF Succs, PredsOf, Reach, Live
<1>3. Seen = Blk
  <2>1. Len(stack) = 0
    BY <1>1
  <2> QED
    BY <2>1, <1>0 DEF Seen
<1>4. link \in Seq(Blk) /\ ToSet(link) = Live /\ IsInjective(link)
  BY <1>1, <1>3, <1>e DEF SweepInv, Typed
<1>5. \A b \in Blk : PredsOf(b) \subseteq Live
  BY <1>1, <1>3 DEF SweepInv, PredsOf
<1>6. \A b \in Blk : pred'[b] \in Seq(Blk) /\ ToSet(pred'[b]) = PredsOf(b) /\ Len(pred'[b]) \in 0..NBlk
  <2> SUFFICES ASSUME NEW b \in Blk
               PROVE  /\ pred'[b] \in Seq(Blk) /\ ToSet(pred'[b]) = PredsOf(b)
                      /\ Len(pred'[b]) \in 0..NBlk
    OBVIOUS
  <2>1. pred'[b] = Those(link, PredsOf(b))
    BY <1>2
  <2>2. /\ Those(link, PredsOf(b)) \in Seq(Blk)
        /\ Len(Those(link, PredsOf(b))) <= Len(link)
        /\ ToSet(Those(link, PredsOf(b))) = ToSet(link) \cap PredsOf(b)
    BY <1>4, ThoseIs
  <2>3. Len(link) <= NBlk /\ Len(link) \in Nat
    BY <1>4, CountIs
  <2>4. Len(Those(link, PredsOf(b))) \in Nat
    BY <2>2
  <2>5. ToSet(pred'[b]) = PredsOf(b)
    BY <2>1, <2>2, <1>4, <1>5
  <2>6. Len(pred'[b]) \in 0..NBlk
    BY <2>1, <2>2, <2>3, <2>4, <1>0
  <2> QED
    BY <2>1, <2>2, <2>5, <2>6
<1>7. Typed'
  <2>1. pred' \in [Blk -> Seq(Blk)]
    BY <1>2, <1>6
  <2>2. visit' \in [Blk -> -1..NBlk]
    <3>1. visit \in [Blk -> -1..NBlk]
      BY <1>1 DEF Typed
    <3>2. \A b \in Blk : Len(pred'[b]) \in -1..NBlk
      BY <1>6, <1>0
    <3> QED
      BY <3>1, <3>2, <1>2
  <2>3. x' \in -1..NBlk + 1
    BY <1>1, <1>0
  <2> QED
    BY <1>1, <2>1, <2>2, <2>3 DEF Typed, order, doms
<1>8. nblk = Len(link) /\ nblk \in Nat /\ nblk >= 1
  <2>1. nblk = Cardinality(Live) /\ Cardinality(Live) = Len(link) /\ nblk \in Nat
    BY <1>1, <1>4, CountIs DEF SweepInv, Typed
  <2>2. Len(link) # 0
    BY <1>4, <1>e, ListIs
  <2> QED
    BY <2>1, <2>2
<1>9. \A b \in Live : Shifted[b] = id[b]
  BY <1>3, <1>e DEF Shifted
<1>10. Numbering(id)
  <2>1. Numbering(Shifted)
    BY <1>1 DEF SweepInv
  <2>2. \A b \in Live : \A s \in Succs(b) : id[s] > id[b] \/ b \in Reach({s}, {})
    BY <2>1, <1>9, <1>e DEF Numbering
  <2> QED
    BY <2>1, <2>2, <1>9, <1>e DEF Numbering
<1>11. Numbering(id)'
  BY <1>1, <1>e, <1>10, NumberingSame DEF order
<1>12. Ordered'
  <2>1. (ToSet(link) = Live /\ IsInjective(link) /\ nblk = Len(link) /\ nblk >= 1)'
    BY <1>1, <1>4, <1>8, <1>u DEF order
  <2>2. (DOMAIN rpo = 0..nblk - 1 /\ \A b \in Live : id[b] \in DOMAIN rpo /\ rpo[id[b]] = b)'
    BY <1>1, <1>3, <1>10, <1>e, <1>u DEF SweepInv, Numbering, order
  <2>3. (\A b \in Blk \ Live : Succs(b) = {})'
    BY <1>1, <1>3, <1>u DEF SweepInv
  <2>4. (\A b \in Blk : ToSet(phi[b]) = PredsOf(b) /\ ToSet(pred[b]) = PredsOf(b))'
    BY <1>1, <1>6, <1>u DEF SweepInv, ListsOK
  <2> QED
    BY <2>1, <2>2, <2>3, <2>4, <1>11 DEF Ordered
<1>13. DomInv'
  <2>1. idom' = [b \in Blk |-> 0] /\ x' = 1 /\ nblk' = nblk /\ 1..0 = {} /\ x' - 1 = 0
    BY <1>1 DEF Fresh, doms, order
  <2>2. Kept'
    BY <2>1, <1>0, <1>e, <1>u DEF Kept
  <2>3. (x \in 1..nblk)'
    BY <2>1, <1>8
  <2>4. 1..x' - 1 = {}
    BY <2>1
  <2> QED
    BY <2>2, <2>3, <2>4 DEF DomInv
<1>14. Fresh'
  BY <1>1 DEF Fresh, doms
<1> QED
  BY <1>1, <1>7, <1>12, <1>13, <1>14 DEF IInv

-----------------------------------------------------------------------------
(* What the passes after fillpreds know of the live blocks.                *)
LEMMA OrderedIs ==
  ASSUME Typed, Ordered
  PROVE  /\ Edges /\ Live \subseteq Blk /\ 1 \in Live /\ nblk \in Nat /\ nblk >= 1
         /\ \A b \in Live : Succs(b) \subseteq Live
         /\ \A b \in Blk : PredsOf(b) \subseteq Live
         /\ \A b \in Live : id[b] \in 0..nblk - 1 /\ rpo[id[b]] = b
         /\ \A b, c \in Live : id[b] = id[c] => b = c
         /\ \A j \in 0..nblk - 1 : rpo[j] \in Live /\ id[rpo[j]] = j
         /\ id[1] = 0 /\ rpo[0] = 1
         /\ \A b \in Blk : 1 \notin Succs(b)
<1>1. Edges
  BY DEF Typed, Edges
<1>2. Live \subseteq Blk /\ 1 \in Live /\ \A b \in Live : Succs(b) \subseteq Live
  BY <1>1, LiveIs DEF Closed
<1>3. nblk \in Nat /\ nblk >= 1
  BY DEF Typed, Ordered
<1>4. \A b \in Blk : PredsOf(b) \subseteq Live
  BY DEF Ordered, PredsOf
<1>5. /\ \A b \in Live : id[b] \in 0..nblk - 1 /\ rpo[id[b]] = b
      /\ \A b, c \in Live : id[b] = id[c] => b = c
      /\ \A j \in 0..nblk - 1 : \E b \in Live : id[b] = j
      /\ id[1] = 0
  BY DEF Ordered, Numbering
<1>6. \A j \in 0..nblk - 1 : rpo[j] \in Live /\ id[rpo[j]] = j
  BY <1>5
<1>7. rpo[0] = 1
  BY <1>2, <1>5
<1>8. \A b \in Blk : 1 \notin Succs(b)
  <2>1. \A b \in Blk : s1[b] # 1 /\ s2[b] # 1
    <3>1. 1 # 0
      OBVIOUS
    <3> QED
      BY <3>1 DEF Typed
  <2> QED
    BY <2>1 DEF Succs
<1> QED
  BY <1>1, <1>2, <1>3, <1>4, <1>5, <1>6, <1>7, <1>8

(* A strict dominator has the smaller number: the predecessors before a    *)
(* block lead back to the start through smaller numbers only.              *)
LEMMA DominatorLess ==
  ASSUME Typed, Ordered
  PROVE  \A d, b \in Live : Dominates(d, b) /\ d # b => id[d] < id[b]
<1> SUFFICES ASSUME NEW d \in Live, NEW b \in Live, Dominates(d, b), d # b, ~(id[d] < id[b])
             PROVE  FALSE
  OBVIOUS
<1>1. /\ Edges /\ Live \subseteq Blk /\ nblk \in Nat /\ nblk >= 1
      /\ \A c \in Live : id[c] \in 0..nblk - 1
      /\ \A c \in Live \ {1} : \E a \in Live : c \in Succs(a) /\ id[a] < id[c]
  BY OrderedIs DEF Ordered, Numbering
<1> DEFINE C == {c \in Live : c # d /\ id[c] <= id[d] /\ Dominates(d, c)}
<1> DEFINE S == {id[c] : c \in C}
<1>2. b \in C
  BY <1>1
<1>3. PICK m \in S : \A q \in S : m <= q
  <2>1. S \in SUBSET (0..nblk) /\ S # {}
    BY <1>1, <1>2
  <2> HIDE DEF S
  <2> QED
    BY <2>1, <1>1, Least
<1>4. PICK c \in C : m = id[c]
  OBVIOUS
<1>5. c # 1
  BY <1>1, DomOrder
<1>6. PICK a \in Live : c \in Succs(a) /\ id[a] < id[c]
  BY <1>1, <1>5
<1>7. a # d /\ id[a] <= id[d]
  BY <1>1, <1>6
<1>8. Dominates(d, a)
  BY <1>1, <1>6, DomPred
<1>9. id[a] \in S
  BY <1>7, <1>8
<1>10. id[c] <= id[a] /\ c \in Live
  <2> HIDE DEF S
  <2> QED
    BY <1>3, <1>4, <1>9
<1> QED
  BY <1>1, <1>6, <1>10

(* v is found climbing from c.                                             *)
Anc(v, c) ==
  \A U : c \in U /\ (\A u \in U : u \in Live /\ idom[u] # 0 => idom[u] \in U) => v \in U

(* Climbing goes on from where it came.                                    *)
LEMMA AncIs ==
  /\ \A c : Anc(c, c)
  /\ \A v, c : c \in Live /\ idom[c] # 0 /\ Anc(v, idom[c]) => Anc(v, c)
  /\ \A v, m, c : Anc(v, m) /\ Anc(m, c) => Anc(v, c)
  /\ \A v, c : Anc(v, c) => v = c \/ (c \in Live /\ idom[c] # 0 /\ Anc(v, idom[c]))
<1>1. \A c : Anc(c, c)
  BY DEF Anc
<1>2. \A v, c : c \in Live /\ idom[c] # 0 /\ Anc(v, idom[c]) => Anc(v, c)
  BY DEF Anc
<1>3. \A v, m, c : Anc(v, m) /\ Anc(m, c) => Anc(v, c)
  BY DEF Anc
<1>4. ASSUME NEW v, NEW c, Anc(v, c), v # c
      PROVE  c \in Live /\ idom[c] # 0 /\ Anc(v, idom[c])
  <2> DEFINE U == {c} \cup {u \in Live \cup {idom[z] : z \in Live} :
                              c \in Live /\ idom[c] # 0 /\ Anc(u, idom[c])}
  <2>1. \A u \in U : u \in Live /\ idom[u] # 0 => idom[u] \in U
    <3> SUFFICES ASSUME NEW u \in U, u \in Live, idom[u] # 0 PROVE idom[u] \in U
      OBVIOUS
    <3>1. CASE u = c
      BY <3>1, <1>1
    <3>2. CASE u # c
      <4>1. c \in Live /\ idom[c] # 0 /\ Anc(u, idom[c])
        BY <3>2
      <4>2. Anc(idom[u], u)
        BY <1>1, <1>2
      <4>3. Anc(idom[u], idom[c])
        BY <4>1, <4>2, <1>3
      <4> QED
        BY <4>1, <4>3
    <3> QED
      BY <3>1, <3>2
  <2>2. c \in U
    OBVIOUS
  <2>3. v \in U
    <3> HIDE DEF U
    <3> QED
      BY <2>1, <2>2, <1>4 DEF Anc
  <2> QED
    BY <2>3, <1>4
<1> QED
  BY <1>1, <1>2, <1>3, <1>4

(* Climbing from a block of known dominator stays among those.             *)
LEMMA AncLess ==
  ASSUME Typed, Ordered, Kept
  PROVE  \A c \in Known : \A v : Anc(v, c) => v \in Known /\ id[v] <= id[c]
<1> SUFFICES ASSUME NEW c \in Known, NEW v, Anc(v, c) PROVE v \in Known /\ id[v] <= id[c]
  OBVIOUS
<1>1. Known \subseteq Live /\ \A b \in Live : id[b] \in Int
  BY OrderedIs DEF Known, Ordered
<1> DEFINE U == {u \in Known : id[u] <= id[c]}
<1>2. c \in U
  BY <1>1
<1>3. ASSUME NEW u \in U, u \in Live, idom[u] # 0 PROVE idom[u] \in U
  <2>1. u \in Live \ {1}
    BY <1>3 DEF Kept
  <2>2. idom[u] \in Known /\ id[idom[u]] < id[u]
    BY <2>1, <1>3 DEF Kept
  <2> QED
    BY <2>2, <1>1
<1>4. v \in U
  <2> HIDE DEF U
  <2> QED
    BY <1>2, <1>3 DEF Anc
<1> QED
  BY <1>4

(* v is above both blocks, and what dominates both dominates it.           *)
MeetAt(v, c1, c2) ==
  /\ v \in Known /\ Anc(v, c1) /\ Anc(v, c2)
  /\ \A d \in Live : Dominates(d, c1) /\ Dominates(d, c2) => Dominates(d, v)

(* inter finds such a block.                                               *)
LEMMA InterIs ==
  ASSUME Typed, Ordered, Kept, NEW c1 \in Known, NEW c2 \in Known
  PROVE  MeetAt(Inter(c1, c2), c1, c2)
<1> DEFINE A == Known \X Known
<1> DEFINE stop == {p \in A : p[1] = p[2]}
<1> DEFINE up == [p \in A |-> IF id[p[1]] < id[p[2]] THEN <<p[2], p[1]>> ELSE <<idom[p[1]], p[2]>>]
<1> DEFINE base == [p \in A |-> p[1]]
<1> DEFINE step == [p \in A |-> [v \in Known |-> v]]
<1> DEFINE Rec(f) == [p \in Known \X Known |->
               IF p[1] = p[2] THEN p[1]
               ELSE IF id[p[1]] < id[p[2]] THEN f[<<p[2], p[1]>>]
               ELSE f[<<idom[p[1]], p[2]>>]]
<1>1. /\ Known \subseteq Live /\ nblk \in Nat /\ nblk >= 1 /\ id[1] = 0
      /\ \A b \in Known : id[b] \in 0..nblk - 1
      /\ \A b, c \in Known : id[b] = id[c] => b = c
  <2>1. Known \subseteq Live
    BY DEF Known, Ordered
  <2> QED
    BY <2>1, OrderedIs
<1>2. ASSUME NEW p1 \in Known, NEW p2 \in Known, p1 # p2, ~(id[p1] < id[p2])
      PROVE  p1 \in Live \ {1} /\ idom[p1] # 0 /\ idom[p1] \in Known /\ id[idom[p1]] < id[p1]
             /\ id[p1] > id[p2]
  <2>1. id[p1] > id[p2]
    BY <1>1, <1>2
  <2>2. p1 # 1
    BY <2>1, <1>1
  <2>3. p1 \in Live \ {1} /\ idom[p1] # 0
    BY <1>1, <2>2 DEF Known
  <2> QED
    BY <2>1, <2>3 DEF Kept
<1>3. Climbs(A, stop, up)
  <2> DEFINE high == [p \in A |-> 2 * (id[p[1]] + id[p[2]]) + IF id[p[1]] < id[p[2]] THEN 1 ELSE 0]
  <2>1. high \in [A -> 0..(4 * nblk + 1)]
    <3> SUFFICES ASSUME NEW p1 \in Known, NEW p2 \in Known
                 PROVE  2 * (id[p1] + id[p2]) + (IF id[p1] < id[p2] THEN 1 ELSE 0) \in 0..(4 * nblk + 1)
      OBVIOUS
    <3>1. id[p1] \in 0..nblk - 1 /\ id[p2] \in 0..nblk - 1
      BY <1>1
    <3> QED
      BY <3>1, <1>1
  <2>2. ASSUME NEW p1 \in Known, NEW p2 \in Known, p1 # p2
        PROVE  up[<<p1, p2>>] \in A /\ high[up[<<p1, p2>>]] < high[<<p1, p2>>]
    <3>1. id[p1] \in 0..nblk - 1 /\ id[p2] \in 0..nblk - 1
      BY <1>1
    <3>2. CASE id[p1] < id[p2]
      <4>1. up[<<p1, p2>>] = <<p2, p1>>
        BY <3>2
      <4>2. high[<<p2, p1>>] = 2 * (id[p2] + id[p1]) /\ high[<<p1, p2>>] = 2 * (id[p1] + id[p2]) + 1
        BY <3>1, <3>2
      <4> QED
        BY <4>1, <4>2, <3>1
    <3>3. CASE ~(id[p1] < id[p2])
      <4>1. idom[p1] \in Known /\ id[idom[p1]] < id[p1]
        BY <3>3, <2>2, <1>2
      <4>2. up[<<p1, p2>>] = <<idom[p1], p2>>
        BY <3>3
      <4>3. high[<<p1, p2>>] = 2 * (id[p1] + id[p2])
        BY <3>1, <3>3
      <4>4. id[idom[p1]] \in 0..nblk - 1
        BY <4>1, <1>1
      <4>5. high[<<idom[p1], p2>>] <= 2 * (id[idom[p1]] + id[p2]) + 1
        BY <4>1, <4>4, <3>1
      <4>6. high[<<idom[p1], p2>>] \in Int
        BY <4>1, <2>1
      <4> QED
        BY <4>1, <4>2, <4>3, <4>4, <4>5, <4>6, <3>1
    <3> QED
      BY <3>2, <3>3
  <2>3. Falls(A, stop, up, high)
    <3> SUFFICES ASSUME NEW p \in A \ stop PROVE up[p] \in A /\ high[up[p]] < high[p]
      BY DEF Falls
    <3>1. PICK p1 \in Known, p2 \in Known : p = <<p1, p2>> /\ p1 # p2
      OBVIOUS
    <3> HIDE DEF up, high
    <3> QED
      BY <3>1, <2>2
  <2>4. 4 * nblk + 1 \in Nat
    BY <1>1
  <2> HIDE DEF A, stop, up, high
  <2> QED
    BY <2>1, <2>3, <2>4 DEF Climbs
<1>4. base \in [A -> Known] /\ step \in [A -> [Known -> Known]]
  OBVIOUS
<1>5. PICK f \in [A -> Known] : Solves(A, stop, up, base, step, f)
  <2> HIDE DEF A, stop, up, base, step
  <2> QED
    BY <1>3, <1>4, ClimbRecursion
<1>6. f = Rec(f)
  <2>1. ASSUME NEW p1 \in Known, NEW p2 \in Known PROVE f[<<p1, p2>>] = Rec(f)[<<p1, p2>>]
    <3> DEFINE p == <<p1, p2>>
    <3>0. p \in A
      OBVIOUS
    <3>1. CASE p1 = p2
      <4>1. f[p] = base[p]
        BY <3>0, <3>1, <1>5 DEF Solves
      <4> QED
        BY <3>1, <4>1
    <3>2. CASE p1 # p2
      <4>1. f[p] = step[p][f[up[p]]] /\ up[p] \in A
        <5>1. p \notin stop
          BY <3>2
        <5>2. up[p] \in A
          <6>1. CASE id[p1] < id[p2]
            BY <6>1
          <6>2. CASE ~(id[p1] < id[p2])
            BY <6>2, <3>2, <1>2
          <6> QED
            BY <6>1, <6>2
        <5> HIDE DEF A, stop, up, step, base, p
        <5> QED
          BY <5>1, <5>2, <3>0, <1>5 DEF Solves
      <4>2. f[p] = f[up[p]]
        <5>1. f[up[p]] \in Known
          BY <4>1
        <5> HIDE DEF up
        <5> QED
          BY <4>1, <5>1, <3>0
      <4> QED
        BY <3>2, <4>2
    <3> QED
      BY <3>1, <3>2
  <2>2. \A p \in A : f[p] = Rec(f)[p]
    <3> HIDE DEF Rec
    <3> QED
      BY <2>1
  <2> QED
    BY <2>2
<1> DEFINE g == CHOOSE g : g = Rec(g)
<1>7. g = Rec(g)
  BY <1>6
<1>8. c1 # 0 /\ Inter(c1, c2) = g[<<c1, c2>>]
  <2>1. c1 # 0
    BY <1>1, OrderedIs DEF Blk
  <2> QED
    BY <2>1 DEF Inter
<1> HIDE DEF g
<1>9. \A p1, p2 \in Known : /\ p1 = p2 => g[<<p1, p2>>] = p1
                            /\ p1 # p2 /\ id[p1] < id[p2] => g[<<p1, p2>>] = g[<<p2, p1>>]
                            /\ p1 # p2 /\ ~(id[p1] < id[p2]) => g[<<p1, p2>>] = g[<<idom[p1], p2>>]
  <2> SUFFICES ASSUME NEW p1 \in Known, NEW p2 \in Known
               PROVE  /\ p1 = p2 => g[<<p1, p2>>] = p1
                      /\ p1 # p2 /\ id[p1] < id[p2] => g[<<p1, p2>>] = g[<<p2, p1>>]
                      /\ p1 # p2 /\ ~(id[p1] < id[p2]) => g[<<p1, p2>>] = g[<<idom[p1], p2>>]
    OBVIOUS
  <2>1. g[<<p1, p2>>] = Rec(g)[<<p1, p2>>]
    BY <1>7
  <2> QED
    BY <2>1
<1> DEFINE T == {p \in A : MeetAt(g[p], p[1], p[2])}
<1>10. ASSUME NEW p1 \in Known, NEW p2 \in Known, p1 = p2 \/ up[<<p1, p2>>] \in T
       PROVE  MeetAt(g[<<p1, p2>>], p1, p2)
  <2>1. CASE p1 = p2
    <3>1. g[<<p1, p2>>] = p1 /\ Anc(p1, p1)
      BY <2>1, <1>9, AncIs
    <3> QED
      BY <2>1, <3>1 DEF MeetAt
  <2>2. CASE p1 # p2 /\ id[p1] < id[p2]
    <3>1. up[<<p1, p2>>] = <<p2, p1>>
      BY <2>2
    <3>2. MeetAt(g[<<p2, p1>>], p2, p1)
      BY <2>2, <3>1, <1>10
    <3> QED
      BY <2>2, <3>2, <1>9 DEF MeetAt
  <2>3. CASE p1 # p2 /\ ~(id[p1] < id[p2])
    <3>1. up[<<p1, p2>>] = <<idom[p1], p2>>
      BY <2>3
    <3>2. MeetAt(g[<<idom[p1], p2>>], idom[p1], p2)
      BY <2>3, <3>1, <1>10
    <3>3. p1 \in Live \ {1} /\ idom[p1] # 0 /\ id[p1] > id[p2]
      BY <2>3, <1>2
    <3>4. \A d \in Live : Dominates(d, p1) /\ Dominates(d, p2) => Dominates(d, idom[p1])
      <4> SUFFICES ASSUME NEW d \in Live, Dominates(d, p1), Dominates(d, p2)
                   PROVE  Dominates(d, idom[p1])
        OBVIOUS
      <4>1. d # p1
        <5> SUFFICES ASSUME d = p1 PROVE FALSE
          OBVIOUS
        <5>1. id[p1] < id[p2]
          BY <2>3, <1>1, DominatorLess
        <5> QED
          BY <5>1, <2>3
      <4> QED
        BY <4>1, <3>3 DEF Kept
    <3>5. g[<<p1, p2>>] = g[<<idom[p1], p2>>]
      BY <2>3, <1>9
    <3> QED
      BY <3>2, <3>3, <3>4, <3>5, AncIs DEF MeetAt
  <2> QED
    BY <2>1, <2>2, <2>3
<1>11. \A p \in A : (p \in stop \/ up[p] \in T) => p \in T
  <2> SUFFICES ASSUME NEW p \in A, p \in stop \/ up[p] \in T PROVE p \in T
    OBVIOUS
  <2>1. PICK p1 \in Known, p2 \in Known : p = <<p1, p2>>
    OBVIOUS
  <2>2. p \in stop => p1 = p2
    BY <2>1
  <2>3. MeetAt(g[<<p1, p2>>], p1, p2)
    <3> HIDE DEF up, T, stop
    <3> QED
      BY <2>1, <2>2, <1>10
  <2> QED
    BY <2>1, <2>3
<1>12. \A p \in A : p \in T
  <2> HIDE DEF A, stop, up, T
  <2> QED
    BY <1>3, <1>11, ClimbInduction
<1>13. <<c1, c2>> \in T
  <2> HIDE DEF T
  <2> QED
    BY <1>12
<1> QED
  BY <1>8, <1>13

(* v meets the predecessors of b that have a dominator.                    *)
MeetsPreds(v, b) ==
  /\ v \in Known
  /\ \A a \in PredsOf(b) \cap Known : Anc(v, a)
  /\ \A d \in Live : (\A a \in PredsOf(b) \cap Known : Dominates(d, a)) => Dominates(d, v)

(* The body of the loop of filldom finds it, when there is one.            *)
LEMMA NewIdomIs ==
  ASSUME Typed, Ordered, Kept, NEW b \in Live, PredsOf(b) \cap Known # {}
  PROVE  MeetsPreds(NewIdom(b), b)
<1> DEFINE from == Those(pred[b], Known)
<1> DEFINE n == Len(from)
<1>0. Known \subseteq Live /\ Live \subseteq Blk /\ 0 \notin Known
  <2>1. Known \subseteq Live
    BY DEF Known, Ordered
  <2> QED
    BY <2>1, OrderedIs DEF Blk
<1>1. /\ from \in Seq(Blk) /\ n \in Nat /\ n >= 1
      /\ PredsOf(b) \cap Known = {from[j] : j \in 1..n}
  <2>1. pred[b] \in Seq(Blk) /\ ToSet(pred[b]) = PredsOf(b)
    BY <1>0 DEF Typed, Ordered
  <2>2. from \in Seq(Blk) /\ ToSet(from) = PredsOf(b) \cap Known
    BY <2>1, ThoseIs
  <2> HIDE DEF from
  <2>3. n \in Nat /\ ToSet(from) = {from[j] : j \in 1..n}
    BY <2>2, ListIs
  <2>4. n # 0
    BY <2>2, <2>3
  <2> QED
    BY <2>2, <2>3, <2>4
<1> DEFINE Rec(f) == [j \in 0..n |-> IF j = 0 THEN 0 ELSE Inter(f[j - 1], from[j])]
<1> DEFINE V == Known \cup {0}
<1>2. NewIdom(b) = (CHOOSE f : f = Rec(f))[n]
  BY DEF NewIdom
<1> HIDE DEF from
<1>3. \A j \in 1..n : from[j] \in Known
  BY <1>1
<1>4. \A c \in Known : Inter(0, c) = c
  BY DEF Inter
<1>5. \A a, c \in Known : MeetAt(Inter(a, c), a, c)
  BY InterIs
<1>6. \A a \in V, c \in Known : Inter(a, c) \in Known
  BY <1>4, <1>5 DEF MeetAt
<1>7. \E f : f = Rec(f)
  <2> DEFINE N == 0..n
  <2> DEFINE down == [j \in N |-> j - 1]
  <2> DEFINE base == [j \in N |-> 0]
  <2> DEFINE step == [j \in N |-> [v \in V |-> IF j = 0 THEN 0 ELSE Inter(v, from[j])]]
  <2>1. Climbs(N, {0}, down)
    <3>1. Falls(N, {0}, down, [j \in N |-> j])
      BY <1>1 DEF Falls
    <3>2. [j \in N |-> j] \in [N -> 0..n]
      OBVIOUS
    <3>3. \E h \in [N -> 0..n] : Falls(N, {0}, down, h)
      <4> HIDE DEF N, down
      <4> QED
        BY <3>1, <3>2
    <3> HIDE DEF N, down, n
    <3> QED
      BY <1>1, <3>3 DEF Climbs
  <2>2. base \in [N -> V]
    OBVIOUS
  <2>3. step \in [N -> [V -> V]]
    <3>1. ASSUME NEW j \in N, NEW v \in V
          PROVE  (IF j = 0 THEN 0 ELSE Inter(v, from[j])) \in V
      <4>1. CASE j = 0
        BY <4>1
      <4>2. CASE j # 0
        <5>1. from[j] \in Known
          BY <4>2, <1>1, <1>3
        <5> HIDE DEF V
        <5>2. Inter(v, from[j]) \in Known
          BY <5>1, <1>6
        <5> QED
          BY <4>2, <5>2 DEF V
      <4> QED
        BY <4>1, <4>2
    <3> HIDE DEF V
    <3> QED
      BY <3>1
  <2>4. PICK f \in [N -> V] : Solves(N, {0}, down, base, step, f)
    <3> HIDE DEF N, down, base, step, V
    <3> QED
      BY <2>1, <2>2, <2>3, ClimbRecursion
  <2>5. ASSUME NEW j \in 0..n PROVE f[j] = Rec(f)[j]
    <3>1. CASE j = 0
      <4>1. f[j] = base[j]
        BY <3>1, <2>4 DEF Solves
      <4> QED
        BY <3>1, <4>1
    <3>2. CASE j # 0
      <4>1. j - 1 \in N
        BY <3>2, <1>1
      <4>2. f[j] = step[j][f[down[j]]]
        BY <3>2, <2>4 DEF Solves
      <4>3. f[j - 1] \in V
        BY <4>1
      <4>4. down[j] = j - 1
        OBVIOUS
      <4> QED
        BY <3>2, <4>1, <4>2, <4>3, <4>4
    <3> QED
      BY <3>1, <3>2
  <2>6. f = Rec(f)
    <3> HIDE DEF V
    <3> QED
      BY <2>5
  <2> QED
    BY <2>6
<1> DEFINE g == CHOOSE f : f = Rec(f)
<1>8. g = Rec(g)
  BY <1>7
<1> HIDE DEF g
<1>9. g[0] = 0 /\ \A j \in 1..n : g[j] = Inter(g[j - 1], from[j])
  <2>1. \A j \in 0..n : g[j] = Rec(g)[j]
    BY <1>8
  <2>2. g[0] = 0
    <3>1. 0 \in 0..n
      BY <1>1
    <3>2. g[0] = Rec(g)[0]
      BY <2>1, <3>1
    <3> QED
      BY <3>1, <3>2
  <2>3. ASSUME NEW j \in 1..n PROVE g[j] = Inter(g[j - 1], from[j])
    <3>1. j \in 0..n /\ j # 0
      BY <1>1
    <3>2. g[j] = Rec(g)[j]
      BY <2>1, <3>1
    <3> QED
      BY <3>1, <3>2
  <2> QED
    BY <2>2, <2>3
<1> HIDE DEF n
<1> DEFINE OK(j) ==
      /\ g[j] \in Known /\ \A k \in 1..j : Anc(g[j], from[k])
      /\ \A d \in Live : (\A k \in 1..j : Dominates(d, from[k])) => Dominates(d, g[j])
<1> DEFINE W == {j \in 0..n : j = 0 \/ OK(j)}
<1>10. \A j \in 1..n : j - 1 \in W => j \in W
  <2> SUFFICES ASSUME NEW j \in 1..n, j - 1 \in W PROVE OK(j)
    BY <1>1
  <2>1. CASE j = 1
    <3>1. g[j] = from[j] /\ from[j] \in Known
      BY <2>1, <1>3, <1>4, <1>9
    <3>2. \A k \in 1..j : k = j
      BY <2>1
    <3> QED
      BY <3>1, <3>2, <2>1, AncIs
  <2>2. CASE j # 1
    <3>1. j - 1 # 0 /\ OK(j - 1) /\ \A k \in 1..j : k = j \/ k \in 1..(j - 1)
      BY <2>2, <1>1
    <3>2. g[j] = Inter(g[j - 1], from[j]) /\ from[j] \in Known /\ g[j - 1] \in Known
      BY <3>1, <1>3, <1>9
    <3>3. MeetAt(g[j], g[j - 1], from[j])
      BY <3>2, <1>5
    <3>4. \A k \in 1..(j - 1) : k \in 1..j
      BY <1>1
    <3>5. j \in 1..j
      BY <1>1
    <3>6. \A k \in 1..j : Anc(g[j], from[k])
      BY <3>1, <3>3, AncIs DEF MeetAt
    <3>7. ASSUME NEW d \in Live, \A k \in 1..j : Dominates(d, from[k]) PROVE Dominates(d, g[j])
      BY <3>1, <3>3, <3>4, <3>5, <3>7 DEF MeetAt
    <3> QED
      BY <3>3, <3>6, <3>7 DEF MeetAt
  <2> QED
    BY <2>1, <2>2
<1>11. \A j \in 0..n : j \in W
  <2>1. 0 \in W
    BY <1>1
  <2> HIDE DEF W
  <2> QED
    BY <2>1, <1>1, <1>10, UpTo
<1>12. OK(n)
  BY <1>1, <1>11
<1>13. g[n] = NewIdom(b)
  BY <1>2 DEF g
<1> QED
  BY <1>1, <1>12, <1>13 DEF MeetsPreds

(* What the passes after fillpreds leave alone.                            *)
LEMMA OrderedSame ==
  ASSUME Typed, Ordered, UNCHANGED <<graph, order>>
  PROVE  /\ Ordered' /\ Live' = Live
         /\ \A b \in Blk : (Succs(b) = Succs(b)')
         /\ \A b \in Blk : (PredsOf(b) = PredsOf(b)')
         /\ \A d, b \in Blk : (Dominates(d, b) = Dominates(d, b)')
<1>u. /\ Live' = Live
      /\ \A b \in Blk : (Succs(b) = Succs(b)')
      /\ \A b \in Blk : (PredsOf(b) = PredsOf(b)')
      /\ \A d, b \in Blk : (Dominates(d, b) = Dominates(d, b)')
  BY DEF graph, Live, Succs, PredsOf, Reach, Dominates
<1>s. UNCHANGED <<s1, s2, link, phi, pred, id, nblk, rpo>>
  BY DEF graph, order
<1>1. Numbering(id)'
  <2>1. Edges /\ Numbering(id)
    BY DEF Typed, Edges, Ordered
  <2> QED
    BY <2>1, <1>s, NumberingSame
<1>2. Live \subseteq Blk
  BY OrderedIs
<1>3. (/\ ToSet(link) = Live /\ IsInjective(link) /\ nblk = Len(link) /\ nblk >= 1
       /\ DOMAIN rpo = 0..nblk - 1)'
  BY <1>s, <1>u DEF Ordered
<1>4. (\A b \in Live : id[b] \in DOMAIN rpo /\ rpo[id[b]] = b)'
  BY <1>s, <1>u DEF Ordered
<1>5. (\A b \in Blk \ Live : Succs(b) = {})'
  BY <1>u DEF Ordered
<1>6. (\A b \in Blk : ToSet(phi[b]) = PredsOf(b) /\ ToSet(pred[b]) = PredsOf(b))'
  BY <1>u, <1>s DEF Ordered
<1>7. Ordered'
  BY <1>1, <1>3, <1>4, <1>5, <1>6 DEF Ordered
<1> QED
  BY <1>u, <1>7

(* filldom finds a dominator for a block: one of its predecessors comes    *)
(* before it, so has one already.                                          *)
LEMMA DomBlkKeeps == IInv /\ DomBlk => IInv'
<1> SUFFICES ASSUME IInv, DomBlk PROVE IInv'
  OBVIOUS
<1>1. /\ Typed /\ Ordered /\ Kept /\ Fresh /\ pc = "dom" /\ pc' = "dom" /\ x' = x + 1
      /\ x \in 1..nblk /\ x < nblk /\ UNCHANGED <<graph, order, dom, fron, loop, visit, stack>>
      /\ \A j \in 1..x - 1 : rpo[j] \in Known
      /\ ch = 0 => \A j \in 1..x - 1 : idom[rpo[j]] = NewIdom(rpo[j])
      /\ ch' = IF idom' = idom THEN ch ELSE ch + 1
      /\ UNCHANGED <<link, id, nblk, rpo>>
  BY DEF IInv, DomBlk, DomInv, graph, order
<1>b. PICK b : b = rpo[x]
  OBVIOUS
<1>v. PICK v : v = NewIdom(b)
  OBVIOUS
<1>i. idom' = [idom EXCEPT ![b] = v]
  BY <1>b, <1>v DEF DomBlk
<1>o. /\ Edges /\ Live \subseteq Blk /\ 1 \in Live /\ nblk \in Nat /\ nblk >= 1
      /\ \A c \in Live : id[c] \in 0..nblk - 1 /\ rpo[id[c]] = c
      /\ \A j \in 0..nblk - 1 : rpo[j] \in Live /\ id[rpo[j]] = j
      /\ id[1] = 0 /\ rpo[0] = 1 /\ ToSet(link) = Live
      /\ \A c \in Live \ {1} : \E a \in Live : c \in Succs(a) /\ id[a] < id[c]
  BY <1>1, OrderedIs DEF Ordered, Numbering
<1>u. /\ Ordered' /\ Live' = Live
      /\ \A c \in Blk : (Succs(c) = Succs(c)')
      /\ \A d, c \in Blk : (Dominates(d, c) = Dominates(d, c)')
  BY <1>1, OrderedSame
<1>2. b \in Live \ {1} /\ id[b] = x
  BY <1>1, <1>b, <1>o
<1>3. PICK a \in Live : b \in Succs(a) /\ id[a] < id[b]
  BY <1>2, <1>o
<1>4. a \in PredsOf(b) \cap Known
  <2>1. a \in PredsOf(b)
    BY <1>3, <1>o DEF PredsOf
  <2>2. CASE id[a] = 0
    <3>1. a = 1
      BY <2>2, <1>o
    <3> QED
      BY <2>1, <3>1, <1>o DEF Known
  <2>3. CASE id[a] # 0
    <3>1. id[a] \in 1..x - 1 /\ rpo[id[a]] = a
      BY <2>3, <1>1, <1>2, <1>3, <1>o
    <3> QED
      BY <2>1, <3>1, <1>1
  <2> QED
    BY <2>2, <2>3
<1>5. MeetsPreds(v, b)
  BY <1>1, <1>2, <1>4, <1>v, NewIdomIs
<1>6. v \in Known /\ id[v] < id[b] /\ v \in Live /\ v # 0
  <2>1. v \in Known /\ Anc(v, a)
    BY <1>4, <1>5 DEF MeetsPreds
  <2>2. v \in Live /\ v # 0
    BY <2>1, <1>o DEF Known, Blk
  <2>3. id[v] <= id[a]
    BY <2>1, <1>1, <1>4, AncLess
  <2> QED
    BY <2>1, <2>2, <2>3, <1>2, <1>3, <1>o
<1>7. ASSUME NEW d \in Live \ {b}, Dominates(d, b) PROVE Dominates(d, v)
  <2>1. \A c \in PredsOf(b) : c \in Live /\ b \in Succs(c)
    BY <1>1, <1>2, <1>o, OrderedIs DEF PredsOf
  <2>2. \A c \in PredsOf(b) : Dominates(d, c)
    BY <2>1, <1>2, <1>7, <1>o, DomPred
  <2> QED
    BY <2>2, <1>5 DEF MeetsPreds
<1>8. idom' \in [Blk -> Blk \cup {0}] /\ idom'[b] = v /\ \A c \in Blk \ {b} : idom'[c] = idom[c]
  <2>1. idom \in [Blk -> Blk \cup {0}]
    BY <1>1 DEF Typed
  <2> QED
    BY <2>1, <1>i, <1>2, <1>6, <1>o
<1>9. Known \subseteq Known' /\ b \in Known'
  <2>1. b \in Known'
    BY <1>1, <1>2, <1>6, <1>8, <1>o DEF Known
  <2>2. ASSUME NEW c \in Known, c # b PROVE c \in Known'
    BY <2>2, <1>1, <1>8, <1>o DEF Known
  <2> QED
    BY <2>1, <2>2
<1>10. Kept'
  <2>1. idom'[1] = 0
    BY <1>1, <1>2, <1>8, <1>o DEF Kept
  <2>2. ASSUME NEW c \in Live \ {1}, idom'[c] # 0
        PROVE  /\ idom'[c] \in Known' /\ id[idom'[c]] < id[c]
               /\ \A d \in Live \ {c} : Dominates(d, c) => Dominates(d, idom'[c])
    <3>1. CASE c = b
      BY <3>1, <1>6, <1>7, <1>8, <1>9
    <3>2. CASE c # b
      BY <3>2, <2>2, <1>1, <1>8, <1>9, <1>o DEF Kept
    <3> QED
      BY <3>1, <3>2
  <2>3. \A c \in Live \ {1} : idom'[c] # 0 => idom'[c] \in Blk
    BY <1>8, <1>o
  <2> QED
    BY <2>1, <2>2, <2>3, <1>1, <1>o, <1>u DEF Kept
<1>11. ASSUME NEW j \in 1..x' - 1 PROVE rpo[j] \in Known'
  <2>1. j = x \/ j \in 1..x - 1
    BY <1>1
  <2> QED
    BY <2>1, <1>1, <1>9, <1>b
<1>12. ASSUME ch' = 0, NEW j \in 1..x' - 1 PROVE (idom[rpo[j]] = NewIdom(rpo[j]))'
  <2>1. idom' = idom /\ ch = 0
    BY <1>1, <1>12 DEF Typed
  <2>2. \A c : NewIdom(c)' = NewIdom(c)
    BY <2>1, <1>1 DEF NewIdom, Inter, Known, graph
  <2>3. j = x \/ j \in 1..x - 1
    BY <1>1
  <2>4. idom[rpo[j]] = NewIdom(rpo[j])
    <3>1. CASE j = x
      BY <3>1, <2>1, <1>8, <1>b, <1>v
    <3>2. CASE j \in 1..x - 1
      BY <3>2, <2>1, <1>1
    <3> QED
      BY <2>3, <3>1, <3>2
  <2>5. NewIdom(rpo[j])' = NewIdom(rpo[j])
    BY <2>1, <1>1 DEF NewIdom, Inter, Known, graph
  <2> QED
    BY <2>1, <2>4, <2>5, <1>1
<1>13. DomInv'
  <2>1. (x \in 1..nblk)'
    BY <1>1, <1>o
  <2>2. (\A j \in 1..x - 1 : rpo[j] \in Known)'
    BY <1>1, <1>11
  <2>3. (ch = 0 => \A j \in 1..x - 1 : idom[rpo[j]] = NewIdom(rpo[j]))'
    <3> SUFFICES ASSUME ch' = 0, NEW j \in 1..x' - 1 PROVE (idom[rpo[j]] = NewIdom(rpo[j]))'
      OBVIOUS
    <3> QED
      BY <1>12
  <2> QED
    BY <2>1, <2>2, <2>3, <1>10 DEF DomInv
<1>14. Typed'
  <2>1. ch' \in Nat
    BY <1>1 DEF Typed
  <2>2. x' \in -1..NBlk + 1
    <3>1. nblk \in 0..NBlk /\ NBlk \in Nat
      BY <1>1, BlkIs DEF Typed
    <3> QED
      BY <3>1, <1>1
  <2> QED
    BY <2>1, <2>2, <1>1, <1>8 DEF Typed, graph
<1>15. Fresh'
  BY <1>1 DEF Fresh
<1> QED
  BY <1>1, <1>13, <1>14, <1>15, <1>u DEF IInv

(* filldom starts another round.                                           *)
LEMMA DomAgainKeeps == IInv /\ DomAgain => IInv'
<1> SUFFICES ASSUME IInv, DomAgain PROVE IInv'
  OBVIOUS
<1>1. /\ Typed /\ Ordered /\ Kept /\ Fresh /\ pc = "dom" /\ pc' = "dom" /\ x' = 1 /\ ch' = 0
      /\ UNCHANGED <<graph, order, doms, loop, visit, stack>>
  BY DEF IInv, DomAgain, DomInv
<1>o. Live \subseteq Blk /\ nblk \in Nat /\ nblk >= 1
  BY <1>1, OrderedIs
<1>u. /\ Ordered' /\ Live' = Live
      /\ \A d, c \in Blk : (Dominates(d, c) = Dominates(d, c)')
  BY <1>1, OrderedSame
<1>2. Typed'
  <2>1. x' \in -1..NBlk + 1
    BY <1>1, BlkIs
  <2> QED
    BY <2>1, <1>1 DEF Typed, graph, order, doms
<1>3. Kept'
  <2>1. Known' = Known /\ idom' = idom /\ id' = id
    BY <1>1 DEF Known, graph, order, doms
  <2>2. \A c \in Live \ {1} : idom[c] \in Known => idom[c] \in Blk
    BY <1>1, <1>o DEF Known, Ordered
  <2> QED
    BY <2>1, <2>2, <1>1, <1>o, <1>u DEF Kept
<1>4. DomInv'
  <2>1. 1..x' - 1 = {} /\ x' \in 1..nblk'
    BY <1>1, <1>o DEF order
  <2> QED
    BY <2>1, <1>3 DEF DomInv
<1>5. Fresh'
  BY <1>1 DEF Fresh, doms
<1> QED
  BY <1>1, <1>2, <1>4, <1>5, <1>u DEF IInv

(* Once a round found nothing new, climbing only meets dominators: a block *)
(* above s is above every predecessor of s.                                *)
LEMMA AncDominates ==
  ASSUME Typed, Ordered, Kept, \A b \in Live \ {1} : b \in Known /\ idom[b] = NewIdom(b)
  PROVE  \A d, b \in Live : Anc(d, b) => Dominates(d, b)
<1> SUFFICES ASSUME NEW d \in Live, NEW b \in Live, Anc(d, b) PROVE Dominates(d, b)
  OBVIOUS
<1> DEFINE C == {c \in Live : ~Anc(d, c)}
<1>1. /\ Edges /\ Live \subseteq Blk /\ 1 \in Live /\ ToSet(link) = Live
      /\ \A c \in Live : Succs(c) \subseteq Live
      /\ \A c \in Blk : 1 \notin Succs(c)
      /\ \A c \in Live : c \in Known
  <2>1. 1 \in ToSet(link) => 1 \in Known
    BY DEF Known
  <2> QED
    BY <2>1, OrderedIs DEF Ordered
<1>2. {1} \ {d} \subseteq C
  <2>1. idom[1] = 0
    BY DEF Kept
  <2> QED
    BY <2>1, <1>1, AncIs
<1>3. Closed(C, {d})
  <2> SUFFICES ASSUME NEW c \in C, NEW s \in Succs(c) \ {d}, Anc(d, s) PROVE FALSE
    BY <1>1 DEF Closed
  <2>1. c \in Live /\ s \in Live \ {1} /\ s \in Known
    BY <1>1
  <2>2. c \in PredsOf(s) \cap Known
    BY <2>1, <1>1 DEF PredsOf
  <2>3. MeetsPreds(idom[s], s)
    <3>1. PredsOf(s) \cap Known # {} /\ idom[s] = NewIdom(s)
      BY <2>1, <2>2
    <3> QED
      BY <3>1, <2>1, NewIdomIs
  <2>4. Anc(d, idom[s])
    BY AncIs
  <2>5. Anc(d, c)
    BY <2>2, <2>3, <2>4, AncIs DEF MeetsPreds
  <2> QED
    BY <2>5
<1>4. Reach({1}, {d}) \subseteq C
  <2>1. Spans(Reach({1}, {d}), {1}, {d})
    BY <1>1, DomIs
  <2> HIDE DEF C
  <2> QED
    BY <1>2, <1>3, <2>1 DEF Spans
<1> QED
  BY <1>4 DEF Dominates

(* A list backwards.                                                       *)
LEMMA ReverseIs ==
  ASSUME NEW s \in Seq(Blk)
  PROVE  Reverse(s) \in Seq(Blk) /\ ToSet(Reverse(s)) = ToSet(s)
<1>1. Len(s) \in Nat /\ (\A j \in 1..Len(s) : s[j] \in Blk) /\ ToSet(s) = {s[j] : j \in 1..Len(s)}
  BY ListIs
<1> DEFINE r == Reverse(s)
<1>2. r = [j \in 1..Len(s) |-> s[Len(s) - j + 1]]
  BY DEF Reverse
<1>3. \A j \in 1..Len(s) : Len(s) - j + 1 \in 1..Len(s) /\ Len(s) - (Len(s) - j + 1) + 1 = j
  BY <1>1
<1>4. r \in Seq(Blk)
  BY <1>1, <1>2, <1>3
<1>5. DOMAIN r = 1..Len(s)
  BY <1>2
<1>6. ToSet(r) = {r[j] : j \in 1..Len(s)}
  BY <1>5 DEF ToSet
<1>7. \A j \in 1..Len(s) : r[j] = s[Len(s) - j + 1]
  BY <1>2
<1> HIDE DEF r
<1>8. \A j \in 1..Len(s) : s[j] = r[Len(s) - j + 1]
  BY <1>3, <1>7
<1>9. {r[j] : j \in 1..Len(s)} = {s[j] : j \in 1..Len(s)}
  BY <1>3, <1>7, <1>8
<1> QED
  BY <1>1, <1>4, <1>6, <1>9 DEF r

(* The tree stays as long as nothing it is about changes.                  *)
LEMMA TreeSame ==
  ASSUME Typed, Ordered, Tree, UNCHANGED <<graph, order, idom>>
  PROVE  Tree'
<1>o. Live \subseteq Blk
  BY OrderedIs
<1>u. Live' = Live /\ \A d, c \in Blk : (Dominates(d, c) = Dominates(d, c)')
  BY OrderedSame
<1>s. idom' = idom /\ id' = id
  BY DEF order
<1>1. \A b \in Live \ {1} : IsIDom(idom[b], b)'
  <2> SUFFICES ASSUME NEW b \in Live \ {1} PROVE IsIDom(idom[b], b)'
    OBVIOUS
  <2>1. idom[b] \in Live /\ IsIDom(idom[b], b)
    BY DEF Tree
  <2>2. \A d \in Live : Dominates(d, b) = Dominates(d, b)'
    BY <1>o, <1>u
  <2>3. \A d \in Live : Dominates(d, idom[b]) = Dominates(d, idom[b])'
    <3>1. PICK c \in Live : c = idom[b]
      BY <2>1
    <3>2. \A d \in Live : Dominates(d, c) = Dominates(d, c)'
      BY <1>o, <1>u
    <3>3. c = idom'[b]
      BY <3>1, <1>s
    <3> QED
      BY <3>1, <3>2, <3>3
  <2> QED
    BY <2>1, <2>2, <2>3, <1>s, <1>u DEF IsIDom
<1> QED
  BY <1>1, <1>s, <1>u DEF Tree

(* filldom is done: the last round found the same dominators again.        *)
LEMMA DomDoneKeeps == IInv /\ DomDone => IInv'
<1> SUFFICES ASSUME IInv, DomDone PROVE IInv'
  OBVIOUS
<1>1. /\ Typed /\ Ordered /\ Kept /\ Fresh /\ pc = "dom" /\ pc' = "fron" /\ x' = 1
      /\ x \in 1..nblk /\ x >= nblk
      /\ UNCHANGED <<graph, order, idom, fron, loop, visit, stack, ch>>
      /\ \A j \in 1..x - 1 : rpo[j] \in Known
      /\ \A j \in 1..x - 1 : idom[rpo[j]] = NewIdom(rpo[j])
      /\ dom' = [d \in Blk |-> Reverse(Those(link, {b \in Blk : idom[b] = d}))]
  BY DEF IInv, DomDone, DomInv
<1>s. UNCHANGED <<s1, s2, link, phi, pred, id, nblk, rpo>>
  BY <1>1 DEF graph, order
<1>o. /\ Edges /\ Live \subseteq Blk /\ 1 \in Live /\ nblk \in Nat /\ nblk >= 1
      /\ \A c \in Live : id[c] \in 0..nblk - 1 /\ rpo[id[c]] = c
      /\ \A b, c \in Live : id[b] = id[c] => b = c
      /\ id[1] = 0 /\ ToSet(link) = Live /\ link \in Seq(Blk) /\ nblk = Len(link)
  BY <1>1, OrderedIs DEF Ordered, Typed
<1>u. /\ Ordered' /\ Live' = Live
      /\ \A c \in Blk : (Succs(c) = Succs(c)')
      /\ \A d, c \in Blk : (Dominates(d, c) = Dominates(d, c)')
  BY <1>1, OrderedSame
<1>2. ASSUME NEW b \in Live \ {1} PROVE b \in Known /\ idom[b] = NewIdom(b)
  <2>1. id[b] \in 1..x - 1 /\ rpo[id[b]] = b
    BY <1>1, <1>o
  <2> QED
    BY <2>1, <1>1
<1>3. \A d, b \in Live : Anc(d, b) => Dominates(d, b)
  BY <1>1, <1>2, AncDominates
<1>4. Tree
  <2>1. idom[1] = 0
    BY <1>1 DEF Kept
  <2>2. ASSUME NEW b \in Live \ {1}
        PROVE  idom[b] \in Live /\ id[idom[b]] < id[b] /\ IsIDom(idom[b], b)
    <3>1. idom[b] # 0
      BY <1>2 DEF Known
    <3>2. idom[b] \in Known /\ id[idom[b]] < id[b]
          /\ \A d \in Live \ {b} : Dominates(d, b) => Dominates(d, idom[b])
      BY <3>1, <1>1 DEF Kept
    <3>3. idom[b] \in Live
      BY <3>2, <1>o DEF Known
    <3>4. Anc(idom[b], b)
      BY <3>1, AncIs
    <3>5. idom[b] # b
      BY <3>2, <3>3, <1>o
    <3> QED
      BY <3>2, <3>3, <3>4, <3>5, <1>3 DEF IsIDom
  <2> QED
    BY <2>1, <2>2 DEF Tree
<1>5. Tree'
  BY <1>1, <1>4, <1>o, <1>u, TreeSame
<1>6. ASSUME NEW d \in Blk
      PROVE  /\ dom'[d] \in Seq(Blk)
             /\ ToSet(dom'[d]) = {b \in Live : idom[b] = d}
  <2> DEFINE q == Those(link, {b \in Blk : idom[b] = d})
  <2>1. q \in Seq(Blk) /\ ToSet(q) = ToSet(link) \cap {b \in Blk : idom[b] = d}
    BY <1>o, ThoseIs
  <2>2. dom'[d] = Reverse(q)
    BY <1>1
  <2> HIDE DEF q
  <2>3. Reverse(q) \in Seq(Blk) /\ ToSet(Reverse(q)) = ToSet(q)
    BY <2>1, ReverseIs
  <2> QED
    BY <2>1, <2>2, <2>3, <1>o
<1>7. (\A b \in Live : ToSet(dom[b]) = {c \in Live \ {1} : idom[c] = b})'
  <2>1. idom[1] = 0 /\ 0 \notin Live
    BY <1>4, <1>o DEF Tree, Blk
  <2>2. \A b \in Live : ToSet(dom'[b]) = {c \in Live \ {1} : idom[c] = b}
    BY <2>1, <1>6, <1>o
  <2> QED
    BY <2>2, <1>1, <1>o, <1>u
<1>8. FronInv(x)'
  <2>1. fron' = [b \in Blk |-> <<>>]
    BY <1>1 DEF Fresh
  <2>2. 1..x' - 1 = {}
    BY <1>1
  <2>3. \A a \in Live : fron'[a] = <<>> /\ ToSet(fron'[a]) = {} /\ IsInjective(fron'[a])
    BY <2>1, <1>o DEF ToSet, IsInjective
  <2>4. FronInv(x)' <=> \A a \in Live' :
          /\ IsInjective(fron'[a])
          /\ ToSet(fron'[a]) =
               {s \in Live' : /\ ~(a # s /\ Dominates(a, s)')
                              /\ \E j \in {} : s \in Succs(link[j])' /\ Dominates(a, link[j])'}
    BY <2>2 DEF FronInv
  <2> QED
    BY <2>3, <2>4, <1>u
<1>9. Typed'
  <2>1. dom' \in [Blk -> Seq(Blk)]
    BY <1>1, <1>6
  <2>2. x' \in -1..NBlk + 1
    BY <1>1, BlkIs
  <2> QED
    BY <2>1, <2>2, <1>1, <1>s DEF Typed
<1>10. Fresh'
  BY <1>1 DEF Fresh
<1>11. (x \in 1..Len(link) + 1)'
  BY <1>1, <1>o, <1>s
<1> QED
  BY <1>1, <1>5, <1>7, <1>8, <1>9, <1>10, <1>11, <1>u DEF IInv

(* What dominates a block is the block, or dominates its dominator.        *)
LEMMA TreeStep ==
  ASSUME Typed, Ordered, Tree
  PROVE  \A b \in Live \ {1}, a \in Live : Dominates(a, b) <=> a = b \/ Dominates(a, idom[b])
<1>1. Edges /\ Live \subseteq Blk
  BY OrderedIs
<1>2. \A b \in Live \ {1} : idom[b] \in Live /\ IsIDom(idom[b], b)
  BY DEF Tree
<1> SUFFICES ASSUME NEW b \in Live \ {1}, NEW a \in Live
             PROVE  Dominates(a, b) <=> a = b \/ Dominates(a, idom[b])
  OBVIOUS
<1>3. idom[b] \in Live /\ Dominates(idom[b], b) /\ Dominates(b, b)
      /\ \A d \in Live \ {b} : Dominates(d, b) => Dominates(d, idom[b])
  BY <1>1, <1>2, DomOrder DEF IsIDom
<1>4. Dominates(a, idom[b]) => Dominates(a, b)
  BY <1>1, <1>3, DomOrder
<1> QED
  BY <1>3, <1>4

(* Climbing in the tree ends where it stops, which is no later than at the *)
(* start.                                                                  *)
LEMMA TreeClimbs ==
  ASSUME Typed, Ordered, Tree, NEW stop \in SUBSET Live, 1 \in stop
  PROVE  Climbs(Live, stop, [b \in Live |-> idom[b]])
<1> DEFINE up == [b \in Live |-> idom[b]]
<1> DEFINE high == [b \in Live |-> id[b]]
<1>1. nblk \in Nat /\ \A b \in Live : id[b] \in 0..nblk - 1
  BY OrderedIs
<1>2. high \in [Live -> 0..nblk]
  BY <1>1
<1>3. Falls(Live, stop, up, high)
  <2>1. ASSUME NEW b \in Live \ stop PROVE up[b] \in Live /\ high[up[b]] < high[b]
    <3>1. b # 1 /\ idom[b] \in Live /\ id[idom[b]] < id[b]
      BY DEF Tree
    <3> QED
      BY <3>1
  <2> HIDE DEF up, high
  <2> QED
    BY <2>1 DEF Falls
<1> HIDE DEF up, high
<1>4. \E h \in [Live -> 0..nblk] : Falls(Live, stop, up, h)
  BY <1>2, <1>3
<1>5. Climbs(Live, stop, up)
  BY <1>1, <1>4 DEF Climbs
<1> QED
  BY <1>5 DEF up

(* sdom is strict dominance.                                               *)
LEMMA SDomIs ==
  ASSUME Typed, Ordered, Tree
  PROVE  \A c1, c2 \in Live : SDom(c1, c2) <=> c1 # c2 /\ Dominates(c1, c2)
<1> SUFFICES ASSUME NEW c1 \in Live, NEW c2 \in Live
             PROVE  SDom(c1, c2) <=> c1 # c2 /\ Dominates(c1, c2)
  OBVIOUS
<1> DEFINE stop == {b \in Live : ~(id[b] > id[c1])}
<1> DEFINE up == [b \in Live |-> idom[b]]
<1> DEFINE base == [b \in Live |-> b]
<1> DEFINE step == [b \in Live |-> [v \in Live |-> v]]
<1> DEFINE Rec(f) == [b \in ToSet(link) |-> IF id[b] > id[c1] THEN f[idom[b]] ELSE b]
<1>1. /\ Edges /\ Live \subseteq Blk /\ 1 \in Live /\ ToSet(link) = Live
      /\ nblk \in Nat /\ \A b \in Live : id[b] \in 0..nblk - 1
      /\ id[1] = 0
  BY OrderedIs DEF Ordered
<1>2. 1 \in stop /\ stop \in SUBSET Live
  BY <1>1
<1>3. Climbs(Live, stop, up)
  <2> HIDE DEF stop
  <2> QED
    BY <1>2, TreeClimbs
<1>4. \A b \in Live \ stop : b \in Live \ {1} /\ idom[b] \in Live /\ up[b] = idom[b]
  BY <1>2 DEF Tree
<1>5. PICK f \in [Live -> Live] : Solves(Live, stop, up, base, step, f)
  <2>1. base \in [Live -> Live] /\ step \in [Live -> [Live -> Live]]
    OBVIOUS
  <2> HIDE DEF stop, up, base, step
  <2> QED
    BY <1>3, <2>1, ClimbRecursion
<1>6. f = Rec(f)
  <2>1. ASSUME NEW b \in Live PROVE f[b] = IF id[b] > id[c1] THEN f[idom[b]] ELSE b
    <3>1. CASE b \in stop
      <4>1. f[b] = base[b]
        <5> HIDE DEF stop, up, base, step
        <5> QED
          BY <3>1, <1>5 DEF Solves
      <4> QED
        BY <3>1, <4>1
    <3>2. CASE b \notin stop
      <4>1. f[b] = step[b][f[up[b]]]
        <5> HIDE DEF stop, up, base, step
        <5> QED
          BY <3>2, <1>5 DEF Solves
      <4>2. f[idom[b]] \in Live
        BY <3>2, <1>4
      <4> QED
        BY <3>2, <4>1, <4>2, <1>4
    <3> QED
      BY <3>1, <3>2
  <2> QED
    BY <2>1, <1>1
<1> DEFINE g == CHOOSE g : g = Rec(g)
<1>7. g = Rec(g)
  BY <1>6
<1>8. SDom(c1, c2) <=> c1 # c2 /\ g[c2] = c1
  BY DEF SDom
<1> HIDE DEF g
<1>9. \A b \in Live : g[b] = IF id[b] > id[c1] THEN g[idom[b]] ELSE b
  BY <1>1, <1>7
<1> DEFINE T == {b \in Live : g[b] = c1 <=> Dominates(c1, b)}
<1>10. \A b \in Live : b \in stop \/ up[b] \in T => b \in T
  <2> SUFFICES ASSUME NEW b \in Live, b \in stop \/ up[b] \in T
               PROVE  g[b] = c1 <=> Dominates(c1, b)
    OBVIOUS
  <2>1. CASE b \in stop
    <3>1. g[b] = b
      BY <2>1, <1>9
    <3>2. Dominates(c1, c1)
      BY <1>1, DomOrder
    <3>3. Dominates(c1, b) => c1 = b
      BY <2>1, <1>1, DominatorLess
    <3> QED
      BY <3>1, <3>2, <3>3
  <2>2. CASE b \notin stop
    <3>1. g[b] = g[idom[b]] /\ c1 # b
      BY <2>2, <1>1, <1>9
    <3>2. up[b] = idom[b] /\ b \in Live \ {1} /\ idom[b] \in T
      BY <2>2, <1>4
    <3>3. g[idom[b]] = c1 <=> Dominates(c1, idom[b])
      BY <3>2
    <3>4. Dominates(c1, b) <=> c1 = b \/ Dominates(c1, idom[b])
      BY <3>2, TreeStep
    <3> QED
      BY <3>1, <3>3, <3>4
  <2> QED
    BY <2>1, <2>2
<1>11. \A b \in Live : b \in T
  <2> HIDE DEF stop, up, T
  <2> QED
    BY <1>3, <1>10, ClimbInduction
<1> QED
  BY <1>8, <1>11

(* The blocks whose frontier s joins on behalf of its predecessor b.       *)
Joining(b, s) == {a \in Live : Dominates(a, b) /\ ~(a # s /\ Dominates(a, s))}

(* fillfron's loop from b goes through them.                               *)
LEMMA AboveIs ==
  ASSUME Typed, Ordered, Tree
  PROVE  \A b \in Live, s \in Live \ {1} : Above(b, s) = Joining(b, s)
<1> SUFFICES ASSUME NEW z \in Live, NEW s \in Live \ {1} PROVE Above(z, s) = Joining(z, s)
  OBVIOUS
<1> DEFINE stop == {b \in Live : b # s /\ Dominates(b, s)}
<1> DEFINE up == [b \in Live |-> idom[b]]
<1> DEFINE base == [b \in Live |-> {}]
<1> DEFINE step == [b \in Live |-> [v \in SUBSET Live |-> {b} \cup v]]
<1> DEFINE Rec(f) == [a \in ToSet(link) |-> IF SDom(a, s) THEN {} ELSE {a} \cup f[idom[a]]]
<1>1. /\ Edges /\ Live \subseteq Blk /\ 1 \in Live /\ ToSet(link) = Live
      /\ \A b \in Live : id[b] \in Int
  BY OrderedIs DEF Ordered
<1>2. 1 \in stop /\ stop \in SUBSET Live
  BY <1>1, DomOrder
<1>3. Climbs(Live, stop, up)
  <2> HIDE DEF stop
  <2> QED
    BY <1>2, TreeClimbs
<1>4. \A b \in Live \ stop : b \in Live \ {1} /\ idom[b] \in Live /\ up[b] = idom[b]
  BY <1>2 DEF Tree
<1>s. \A b \in Live : SDom(b, s) <=> b \in stop
  BY SDomIs
<1>5. PICK f \in [Live -> SUBSET Live] : Solves(Live, stop, up, base, step, f)
  <2>1. base \in [Live -> SUBSET Live] /\ step \in [Live -> [SUBSET Live -> SUBSET Live]]
    OBVIOUS
  <2> HIDE DEF stop, up, base, step
  <2> QED
    BY <1>3, <2>1, ClimbRecursion
<1>6. f = Rec(f)
  <2>1. ASSUME NEW b \in Live PROVE f[b] = IF SDom(b, s) THEN {} ELSE {b} \cup f[idom[b]]
    <3>1. CASE b \in stop
      <4>1. f[b] = base[b]
        <5> HIDE DEF stop, up, base, step
        <5> QED
          BY <3>1, <1>5 DEF Solves
      <4> QED
        BY <3>1, <4>1, <1>s
    <3>2. CASE b \notin stop
      <4>1. f[b] = step[b][f[up[b]]]
        <5> HIDE DEF stop, up, base, step
        <5> QED
          BY <3>2, <1>5 DEF Solves
      <4>2. f[idom[b]] \in SUBSET Live
        BY <3>2, <1>4
      <4> QED
        BY <3>2, <4>1, <4>2, <1>4, <1>s
    <3> QED
      BY <3>1, <3>2
  <2> QED
    BY <2>1, <1>1
<1> DEFINE g == CHOOSE g : g = Rec(g)
<1>7. g = Rec(g)
  BY <1>6
<1>8. Above(z, s) = g[z]
  BY DEF Above
<1> HIDE DEF g
<1>9. \A b \in Live : g[b] = IF b \in stop THEN {} ELSE {b} \cup g[idom[b]]
  <2>1. \A b \in Live : g[b] = IF SDom(b, s) THEN {} ELSE {b} \cup g[idom[b]]
    BY <1>1, <1>7
  <2> HIDE DEF stop
  <2> QED
    BY <2>1, <1>s
<1> DEFINE T == {b \in Live : g[b] = Joining(b, s)}
<1>10. \A b \in Live : b \in stop \/ up[b] \in T => b \in T
  <2> SUFFICES ASSUME NEW b \in Live, b \in stop \/ up[b] \in T PROVE g[b] = Joining(b, s)
    OBVIOUS
  <2>1. CASE b \in stop
    <3>1. g[b] = {}
      BY <2>1, <1>9
    <3>2. ASSUME NEW a \in Live, Dominates(a, b) PROVE a # s /\ Dominates(a, s)
      <4>1. Dominates(a, s)
        BY <2>1, <3>2, <1>1, DomOrder
      <4>2. a # s
        BY <2>1, <3>2, <1>1, DominatorLess
      <4> QED
        BY <4>1, <4>2
    <3> QED
      BY <3>1, <3>2 DEF Joining
  <2>2. CASE b \notin stop
    <3>1. up[b] = idom[b] /\ b \in Live \ {1} /\ idom[b] \in T
      BY <2>2, <1>4
    <3>2. g[b] = {b} \cup Joining(idom[b], s)
      BY <2>2, <3>1, <1>9
    <3>3. \A a \in Live : Dominates(a, b) <=> a = b \/ Dominates(a, idom[b])
      BY <3>1, TreeStep
    <3> QED
      BY <2>2, <3>2, <3>3 DEF Joining
  <2> QED
    BY <2>1, <2>2
<1>11. \A b \in Live : b \in T
  <2> HIDE DEF stop, up, T
  <2> QED
    BY <1>3, <1>10, ClimbInduction
<1> QED
  BY <1>8, <1>11

(* r is f with s in the frontier of each block of S.                       *)
Joins(r, f, S, s) ==
  /\ r \in [Blk -> Seq(Blk)]
  /\ \A a \in Blk :
       /\ ToSet(r[a]) = ToSet(f[a]) \cup {c \in {s} : a \in S}
       /\ IsInjective(f[a]) => IsInjective(r[a])

(* s joins the frontier of each block of S, once.                          *)
LEMMA AddFronIs ==
  ASSUME NEW f \in [Blk -> Seq(Blk)], NEW S, NEW s \in Blk
  PROVE  Joins(AddFron(f, S, s), f, S, s)
<1>1. ASSUME NEW a \in Blk
      PROVE  /\ AddFron(f, S, s)[a] \in Seq(Blk)
             /\ ToSet(AddFron(f, S, s)[a]) = ToSet(f[a]) \cup {c \in {s} : a \in S}
             /\ IsInjective(f[a]) => IsInjective(AddFron(f, S, s)[a])
  <2> DEFINE q == f[a]
  <2> DEFINE r == AddFron(f, S, s)[a]
  <2>1. r = IF a \in S /\ ~Contains(q, s) THEN Append(q, s) ELSE q
    BY DEF AddFron
  <2>2. q \in Seq(Blk) /\ Len(q) \in Nat /\ DOMAIN q = 1..Len(q)
        /\ ToSet(q) = {q[j] : j \in 1..Len(q)}
    BY ListIs
  <2>3. Contains(q, s) <=> s \in ToSet(q)
    BY <2>2 DEF Contains
  <2> HIDE DEF q, r
  <2>4. CASE a \in S /\ ~Contains(q, s)
    <3>1. r = Append(q, s) /\ s \notin ToSet(q)
      BY <2>1, <2>3, <2>4
    <3>2. /\ r \in Seq(Blk) /\ Len(r) = Len(q) + 1 /\ r[Len(q) + 1] = s
          /\ \A j \in 1..Len(q) : r[j] = q[j]
      BY <3>1, <2>2
    <3>3. 1..Len(r) = 1..Len(q) \cup {Len(q) + 1} /\ DOMAIN r = 1..Len(r)
      BY <3>2, <2>2
    <3>4. ToSet(r) = {r[j] : j \in 1..Len(r)}
      BY <3>3 DEF ToSet
    <3>5. ToSet(r) = ToSet(q) \cup {s}
      <4>1. {r[j] : j \in 1..Len(r)} = {r[j] : j \in 1..Len(q)} \cup {r[Len(q) + 1]}
        BY <3>3
      <4>2. {r[j] : j \in 1..Len(q)} = {q[j] : j \in 1..Len(q)}
        BY <3>2
      <4> QED
        BY <4>1, <4>2, <3>2, <3>4, <2>2
    <3>6. ASSUME IsInjective(q), NEW j \in 1..Len(r), NEW k \in 1..Len(r), r[j] = r[k]
          PROVE  j = k
      <4>1. \A i \in 1..Len(q) : q[i] # s
        BY <3>1, <2>2
      <4> QED
        BY <4>1, <3>2, <3>3, <3>6, <2>2 DEF IsInjective
    <3>7. IsInjective(q) => IsInjective(r)
      BY <3>3, <3>6 DEF IsInjective
    <3> QED
      BY <3>2, <3>5, <3>7, <2>4 DEF q, r
  <2>5. CASE ~(a \in S /\ ~Contains(q, s))
    <3>1. r = q /\ (a \in S => s \in ToSet(q))
      BY <2>1, <2>3, <2>5
    <3> QED
      BY <3>1, <2>2 DEF q, r
  <2> QED
    BY <2>4, <2>5
<1>2. AddFron(f, S, s) = [a \in Blk |-> AddFron(f, S, s)[a]]
  BY DEF AddFron
<1>3. AddFron(f, S, s) \in [Blk -> Seq(Blk)]
  BY <1>1, <1>2
<1> QED
  BY <1>1, <1>3 DEF Joins

(* The frontiers of the first blocks of the list stay while neither they   *)
(* nor the graph change.                                                   *)
LEMMA FronSame ==
  ASSUME Typed, Ordered, NEW n \in 1..Len(link) + 1, FronInv(n),
         UNCHANGED <<graph, order, fron>>
  PROVE  FronInv(n)'
<1>o. Live \subseteq Blk /\ \A j \in 1..n - 1 : link[j] \in Blk
  <2>1. Live \subseteq Blk /\ link \in Seq(Blk)
    BY OrderedIs DEF Typed
  <2>2. Len(link) \in Nat /\ \A j \in 1..Len(link) : link[j] \in Blk
    BY <2>1, ListIs
  <2> QED
    BY <2>1, <2>2
<1>u. /\ Live' = Live /\ link' = link /\ fron' = fron
      /\ \A c \in Blk : (Succs(c) = Succs(c)')
      /\ \A d, c \in Blk : (Dominates(d, c) = Dominates(d, c)')
  BY OrderedSame DEF graph
<1>1. \A j \in 1..n - 1 : Succs(link[j])' = Succs(link[j])
  BY <1>o, <1>u
<1>2. \A a \in Live : \A j \in 1..n - 1 : Dominates(a, link[j])' = Dominates(a, link[j])
  <2> SUFFICES ASSUME NEW a \in Live, NEW j \in 1..n - 1
               PROVE  Dominates(a, link[j])' = Dominates(a, link[j])
    OBVIOUS
  <2>1. PICK c \in Blk : c = link[j]
    BY <1>o
  <2>2. c = link'[j]
    BY <2>1, <1>u
  <2>3. Dominates(a, c) = Dominates(a, c)'
    BY <1>o, <1>u
  <2> QED
    BY <2>1, <2>2, <2>3
<1>3. \A a, s \in Live : Dominates(a, s)' = Dominates(a, s)
  BY <1>o, <1>u
<1>4. ASSUME NEW a \in Live
      PROVE  {s \in Live : /\ ~(a # s /\ Dominates(a, s))
                           /\ \E j \in 1..n - 1 : s \in Succs(link[j]) /\ Dominates(a, link[j])}
           = {s \in Live : /\ ~(a # s /\ Dominates(a, s)')
                           /\ \E j \in 1..n - 1 : s \in Succs(link[j])' /\ Dominates(a, link[j])'}
  BY <1>1, <1>2, <1>3
<1>5. ASSUME NEW a \in Live
      PROVE  (/\ IsInjective(fron[a])
              /\ ToSet(fron[a]) =
                   {s \in Live : /\ ~(a # s /\ Dominates(a, s))
                       /\ \E j \in 1..n - 1 : s \in Succs(link[j]) /\ Dominates(a, link[j])})'
  <2>1. /\ IsInjective(fron[a])
        /\ ToSet(fron[a]) =
             {s \in Live : /\ ~(a # s /\ Dominates(a, s))
                 /\ \E j \in 1..n - 1 : s \in Succs(link[j]) /\ Dominates(a, link[j])}
    BY DEF FronInv
  <2> QED
    BY <2>1, <1>4, <1>u
<1> QED
  BY <1>5, <1>u DEF FronInv

(* fillfron's work for one block.                                          *)
LEMMA FronBlkKeeps == IInv /\ FronBlk => IInv'
<1> SUFFICES ASSUME IInv, FronBlk PROVE IInv'
  OBVIOUS
<1>1. /\ Typed /\ Ordered /\ Tree /\ pc = "fron" /\ pc' = "fron" /\ x' = x + 1
      /\ x \in 1..Len(link) + 1 /\ x <= Len(link) /\ FronInv(x)
      /\ UNCHANGED <<graph, order, idom, dom, loop, visit, stack, ch>>
      /\ UNCHANGED <<link, id, nblk, rpo>>
      /\ \A b \in Live : ToSet(dom[b]) = {c \in Live \ {1} : idom[c] = b}
  BY DEF IInv, FronBlk, graph, order
<1>b. PICK b : b = link[x]
  OBVIOUS
<1>o. /\ Edges /\ Live \subseteq Blk /\ 1 \in Live /\ ToSet(link) = Live /\ link \in Seq(Blk)
      /\ Len(link) \in Nat /\ Len(link) = nblk /\ nblk \in 0..NBlk /\ x \in 1..Len(link)
      /\ \A c \in Live : Succs(c) \subseteq Live
      /\ \A c \in Blk : 1 \notin Succs(c)
      /\ \A j \in 1..Len(link) : link[j] \in Live
  <2>1. link \in Seq(Blk) /\ ToSet(link) = Live /\ Len(link) = nblk /\ nblk \in 0..NBlk
    BY <1>1 DEF Typed, Ordered
  <2>2. Len(link) \in Nat /\ \A j \in 1..Len(link) : link[j] \in Live
    BY <2>1, ListIs
  <2> QED
    BY <2>1, <2>2, <1>1, OrderedIs
<1>u. /\ Ordered' /\ Live' = Live
      /\ \A c \in Blk : (Succs(c) = Succs(c)')
      /\ \A d, c \in Blk : (Dominates(d, c) = Dominates(d, c)')
  BY <1>1, OrderedSame
<1>2. b \in Live /\ b \in Blk
  BY <1>b, <1>o
<1>3. /\ fron \in [Blk -> Seq(Blk)] /\ Succs(b) = {s1[b], s2[b]} \ {0}
      /\ Succs(b) \subseteq Live \ {1} /\ Live \subseteq Blk
  BY <1>1, <1>2, <1>o DEF Typed, Succs
<1>4. \A s \in Succs(b) : Above(b, s) = Joining(b, s)
  BY <1>1, <1>2, <1>3, AboveIs
<1> DEFINE f1 == IF s1[b] = 0 THEN fron ELSE AddFron(fron, Above(b, s1[b]), s1[b])
<1>5. fron' = IF s2[b] = 0 THEN f1 ELSE AddFron(f1, Above(b, s2[b]), s2[b])
  BY <1>b DEF FronBlk
<1>6. /\ f1 \in [Blk -> Seq(Blk)]
      /\ \A a \in Blk :
           /\ ToSet(f1[a]) = ToSet(fron[a]) \cup {s \in {s1[b]} \ {0} : a \in Joining(b, s)}
           /\ IsInjective(fron[a]) => IsInjective(f1[a])
  <2>1. CASE s1[b] = 0
    BY <2>1, <1>3
  <2>2. CASE s1[b] # 0
    <3>1. s1[b] \in Blk /\ Above(b, s1[b]) = Joining(b, s1[b])
      BY <2>2, <1>3, <1>4
    <3>2. f1 = AddFron(fron, Joining(b, s1[b]), s1[b])
      BY <2>2, <3>1
    <3> HIDE DEF f1
    <3>3. Joins(f1, fron, Joining(b, s1[b]), s1[b])
      BY <3>1, <3>2, <1>3, AddFronIs
    <3> QED
      BY <3>3, <2>2 DEF Joins
  <2> QED
    BY <2>1, <2>2
<1> HIDE DEF f1
<1>7. /\ fron' \in [Blk -> Seq(Blk)]
      /\ \A a \in Blk :
           /\ ToSet(fron'[a]) = ToSet(fron[a]) \cup {s \in Succs(b) : a \in Joining(b, s)}
           /\ IsInjective(fron[a]) => IsInjective(fron'[a])
  <2>1. CASE s2[b] = 0
    BY <2>1, <1>3, <1>5, <1>6
  <2>2. CASE s2[b] # 0
    <3>1. s2[b] \in Blk /\ Above(b, s2[b]) = Joining(b, s2[b])
      BY <2>2, <1>3, <1>4
    <3>2. fron' = AddFron(f1, Joining(b, s2[b]), s2[b])
      BY <2>2, <3>1, <1>5
    <3>3. Joins(fron', f1, Joining(b, s2[b]), s2[b])
      BY <3>1, <3>2, <1>6, AddFronIs
    <3> QED
      BY <3>3, <2>2, <1>3, <1>6 DEF Joins
  <2> QED
    BY <2>1, <2>2
<1>8. ASSUME NEW a \in Live
      PROVE  /\ IsInjective(fron'[a])
             /\ ToSet(fron'[a]) =
                  {s \in Live : /\ ~(a # s /\ Dominates(a, s))
                                /\ \E j \in 1..x : s \in Succs(link[j]) /\ Dominates(a, link[j])}
  <2>1. /\ IsInjective(fron[a])
        /\ ToSet(fron[a]) =
             {s \in Live : /\ ~(a # s /\ Dominates(a, s))
                           /\ \E j \in 1..x - 1 : s \in Succs(link[j]) /\ Dominates(a, link[j])}
    BY <1>1 DEF FronInv
  <2>2. 1..x = 1..x - 1 \cup {x}
    BY <1>o
  <2>3. \A s : (\E j \in 1..x : s \in Succs(link[j]) /\ Dominates(a, link[j]))
               <=> \/ \E j \in 1..x - 1 : s \in Succs(link[j]) /\ Dominates(a, link[j])
                   \/ s \in Succs(b) /\ Dominates(a, b)
    BY <2>2, <1>b
  <2>4. \A s \in Live : a \in Joining(b, s) <=> Dominates(a, b) /\ ~(a # s /\ Dominates(a, s))
    BY DEF Joining
  <2>5. ToSet(fron'[a]) = ToSet(fron[a]) \cup {s \in Succs(b) : a \in Joining(b, s)}
        /\ IsInjective(fron'[a])
    BY <1>3, <1>7, <2>1
  <2>6. Succs(b) \subseteq Live
    BY <1>3
  <2>7. ASSUME NEW s \in Live
        PROVE  s \in ToSet(fron'[a])
               <=> /\ ~(a # s /\ Dominates(a, s))
                   /\ \E j \in 1..x : s \in Succs(link[j]) /\ Dominates(a, link[j])
    BY <2>1, <2>3, <2>4, <2>5
  <2>8. ToSet(fron'[a]) \subseteq Live
    BY <2>1, <2>5, <2>6
  <2> QED
    BY <2>5, <2>7, <2>8
<1>9. FronInv(x)'
  <2>1. \A j \in 1..x : link[j] \in Blk
    BY <1>o
  <2>2. \A j \in 1..x : Succs(link[j])' = Succs(link[j])
    BY <2>1, <1>1, <1>u
  <2>3. \A a \in Live : \A j \in 1..x : Dominates(a, link[j])' = Dominates(a, link[j])
    <3> SUFFICES ASSUME NEW a \in Live, NEW j \in 1..x
                 PROVE  Dominates(a, link[j])' = Dominates(a, link[j])
      OBVIOUS
    <3>1. PICK c \in Blk : c = link[j]
      BY <2>1
    <3>2. c = link'[j]
      BY <3>1, <1>1
    <3>3. Dominates(a, c) = Dominates(a, c)'
      BY <1>o, <1>u
    <3> QED
      BY <3>1, <3>2, <3>3
  <2>4. \A a, s \in Live : Dominates(a, s)' = Dominates(a, s)
    BY <1>o, <1>u
  <2>5. x' - 1 = x
    BY <1>1
  <2>6. ASSUME NEW a \in Live'
        PROVE  (/\ IsInjective(fron[a])
                /\ ToSet(fron[a]) =
                     {s \in Live : /\ ~(a # s /\ Dominates(a, s))
                         /\ \E j \in 1..x - 1 : s \in Succs(link[j]) /\ Dominates(a, link[j])})'
    <3>1. a \in Live
      BY <1>u
    <3>2. {s \in Live : /\ ~(a # s /\ Dominates(a, s))
                        /\ \E j \in 1..x : s \in Succs(link[j]) /\ Dominates(a, link[j])}
        = {s \in Live : /\ ~(a # s /\ Dominates(a, s)')
                        /\ \E j \in 1..x : s \in Succs(link[j])' /\ Dominates(a, link[j])'}
      BY <3>1, <2>2, <2>3, <2>4
    <3> QED
      BY <3>1, <3>2, <2>5, <1>8, <1>u
  <2> QED
    BY <2>6 DEF FronInv
<1>10. Tree'
  BY <1>1, TreeSame
<1>11. Typed'
  <2>1. x' \in -1..NBlk + 1
    BY <1>1, <1>o, BlkIs
  <2> QED
    BY <2>1, <1>1, <1>7 DEF Typed, graph
<1>12. Fresh'
  BY <1>1 DEF Fresh
<1>13. (\A c \in Live : ToSet(dom[c]) = {d \in Live \ {1} : idom[d] = c})'
  BY <1>1, <1>u
<1>14. (x \in 1..Len(link) + 1)'
  BY <1>1, <1>o
<1> QED
  BY <1>1, <1>9, <1>10, <1>11, <1>12, <1>13, <1>14, <1>u DEF IInv

(* The frontiers are found: weights and marks are reset, and the first     *)
(* calls of loopmark come from the predecessors of the start.              *)
LEMMA FronDoneKeeps == IInv /\ FronDone => IInv'
<1> SUFFICES ASSUME IInv, FronDone PROVE IInv'
  OBVIOUS
<1>1. /\ Typed /\ Ordered /\ Tree /\ pc = "fron" /\ pc' = "loop" /\ x' = 0
      /\ x \in 1..Len(link) + 1 /\ x > Len(link) /\ FronInv(x)
      /\ UNCHANGED <<graph, order, doms, ch>>
      /\ loop' = [b \in Blk |-> IF Contains(link, b) THEN 1 ELSE loop[b]]
      /\ visit' = [b \in Blk |-> IF Contains(link, b) THEN -1 ELSE visit[b]]
      /\ stack' = Those(pred[rpo[0]], {a \in Blk : id[a] >= 0})
  BY DEF IInv, FronDone
<1>s. UNCHANGED <<s1, s2, link, phi, pred, id, nblk, rpo, idom, dom, fron>>
  BY <1>1 DEF graph, order, doms
<1>o. Live \subseteq Blk /\ nblk \in Nat /\ nblk >= 1 /\ rpo[0] \in Blk /\ Len(link) \in Nat
  <2>1. Live \subseteq Blk /\ 1 \in Live /\ nblk \in Nat /\ nblk >= 1 /\ rpo[0] = 1
    BY <1>1, OrderedIs
  <2>2. Len(link) \in Nat
    BY <1>1, ListIs DEF Typed
  <2> QED
    BY <2>1, <2>2
<1>2. Ordered' /\ Tree'
  BY <1>1, <1>s, OrderedSame, TreeSame
<1>3. FronInv(Len(link) + 1)'
  <2>1. x = Len(link) + 1
    BY <1>1, <1>o
  <2>2. FronInv(Len(link) + 1) /\ Len(link) + 1 \in 1..Len(link) + 1
    BY <2>1, <1>1
  <2>3. PICK n \in 1..Len(link) + 1 : n = Len(link) + 1 /\ FronInv(n)
    BY <2>2
  <2>4. FronInv(n)'
    BY <2>3, <1>1, <1>s, FronSame
  <2>5. n = Len(link') + 1
    BY <2>3, <1>s
  <2> QED
    BY <2>4, <2>5 DEF FronInv
<1>4. stack' \in Seq(Blk)
  <2>1. pred[rpo[0]] \in Seq(Blk)
    BY <1>1, <1>o DEF Typed
  <2> QED
    BY <2>1, <1>1, ThoseIs
<1>5. Typed'
  <2>1. loop' \in [Blk -> Nat] /\ visit' \in [Blk -> -1..NBlk]
    <3>1. loop \in [Blk -> Nat] /\ visit \in [Blk -> -1..NBlk]
      BY <1>1 DEF Typed
    <3>2. -1 \in -1..NBlk
      BY BlkIs
    <3> QED
      BY <3>1, <3>2, <1>1
  <2>2. x' \in -1..NBlk + 1
    BY <1>1, BlkIs
  <2> QED
    BY <2>1, <2>2, <1>1, <1>s DEF Typed
<1>6. (x \in 0..nblk - 1)'
  BY <1>1, <1>o, <1>s
<1>7. Fresh'
  BY <1>1 DEF Fresh
<1> QED
  BY <1>1, <1>2, <1>3, <1>4, <1>5, <1>6, <1>7 DEF IInv

(* loopmark changes weights and marks only.                                *)
LEMMA LoopKeeps ==
  IInv /\ pc = "loop" /\ pc' \in {"loop", "done"} /\ UNCHANGED <<graph, order, doms, ch>>
  /\ (stack \in Seq(Blk) /\ x \in 0..nblk - 1)'
  /\ loop' \in [Blk -> Nat] /\ visit' \in [Blk -> -1..NBlk]
  => IInv'
<1> SUFFICES ASSUME IInv, pc = "loop", pc' \in {"loop", "done"},
                    UNCHANGED <<graph, order, doms, ch>>,
                    (stack \in Seq(Blk) /\ x \in 0..nblk - 1)',
                    loop' \in [Blk -> Nat], visit' \in [Blk -> -1..NBlk]
             PROVE  IInv'
  OBVIOUS
<1>1. Typed /\ Ordered /\ Tree /\ FronInv(Len(link) + 1)
  BY DEF IInv
<1>s. UNCHANGED <<s1, s2, link, phi, pred, id, nblk, rpo, idom, dom, fron>>
  BY DEF graph, order, doms
<1>2. Ordered' /\ Tree'
  BY <1>1, <1>s, OrderedSame, TreeSame
<1>3. FronInv(Len(link) + 1)'
  <2>1. Len(link) \in Nat
    BY <1>1, ListIs DEF Typed
  <2>2. Len(link) + 1 \in 1..Len(link) + 1
    BY <2>1
  <2>3. PICK n \in 1..Len(link) + 1 : n = Len(link) + 1 /\ FronInv(n)
    BY <2>2, <1>1
  <2>4. FronInv(n)'
    BY <2>3, <1>1, <1>s, FronSame
  <2>5. n = Len(link') + 1
    BY <2>3, <1>s
  <2> QED
    BY <2>4, <2>5 DEF FronInv
<1>4. Typed'
  <2>1. x' \in -1..NBlk + 1
    <3>1. nblk \in 0..NBlk /\ NBlk \in Nat
      BY <1>1, BlkIs DEF Typed
    <3> QED
      BY <3>1, <1>s
  <2>2. pc' \in {"rpo", "sweep", "dom", "fron", "loop", "done"}
    OBVIOUS
  <2> QED
    BY <2>1, <2>2, <1>1, <1>s DEF Typed
<1>5. Fresh'
  BY DEF Fresh
<1> QED
  BY <1>2, <1>3, <1>4, <1>5 DEF IInv

(* loopmark at one block.                                                  *)
LEMMA LoopMarkKeeps == IInv /\ LoopMark => IInv'
<1> SUFFICES ASSUME IInv, LoopMark PROVE IInv'
  OBVIOUS
<1>1. /\ Typed /\ Ordered /\ pc = "loop" /\ pc' = "loop" /\ x' = x /\ x \in 0..nblk - 1
      /\ stack \in Seq(Blk) /\ stack # <<>>
      /\ UNCHANGED <<graph, order, doms, ch>>
  BY DEF IInv, LoopMark
<1>b. PICK b : b = Head(stack)
  OBVIOUS
<1>h. PICK h : h = id[rpo[x]]
  OBVIOUS
<1>2. b \in Blk /\ Tail(stack) \in Seq(Blk) /\ h \in -1..NBlk
  <2>1. rpo[x] \in Blk
    BY <1>1, OrderedIs
  <2>2. h \in -1..NBlk
    BY <2>1, <1>1, <1>h DEF Typed
  <2>3. b \in Blk /\ Tail(stack) \in Seq(Blk)
    BY <1>1, <1>b
  <2> QED
    BY <2>2, <2>3
<1>3. \/ stack' = Tail(stack) /\ UNCHANGED <<loop, visit>>
      \/ /\ visit' = [visit EXCEPT ![b] = h] /\ loop' = [loop EXCEPT ![b] = @ * 10]
         /\ stack' = pred[b] \o Tail(stack)
  BY <1>b, <1>h DEF LoopMark
<1>4. stack' \in Seq(Blk)
  <2>1. pred[b] \in Seq(Blk)
    BY <1>1, <1>2 DEF Typed
  <2>2. pred[b] \o Tail(stack) \in Seq(Blk)
    BY <2>1, <1>2
  <2> QED
    BY <2>2, <1>2, <1>3
<1>5. loop' \in [Blk -> Nat] /\ visit' \in [Blk -> -1..NBlk]
  <2>1. loop \in [Blk -> Nat] /\ visit \in [Blk -> -1..NBlk]
    BY <1>1 DEF Typed
  <2>2. loop[b] * 10 \in Nat
    BY <2>1, <1>2
  <2> QED
    BY <2>1, <2>2, <1>2, <1>3
<1>6. (x \in 0..nblk - 1)'
  BY <1>1 DEF order
<1> QED
  BY <1>1, <1>4, <1>5, <1>6, LoopKeeps

(* The next block whose back edges loopmark follows.                       *)
LEMMA LoopNextKeeps == IInv /\ LoopNext => IInv'
<1> SUFFICES ASSUME IInv, LoopNext PROVE IInv'
  OBVIOUS
<1>1. /\ Typed /\ Ordered /\ pc = "loop" /\ x \in 0..nblk - 1 /\ stack \in Seq(Blk)
      /\ UNCHANGED <<graph, order, doms, loop, visit, ch>>
      /\ IF x + 1 < nblk
         THEN /\ x' = x + 1 /\ pc' = pc
              /\ stack' = Those(pred[rpo[x + 1]], {a \in Blk : id[a] >= x + 1})
         ELSE pc' = "done" /\ UNCHANGED <<x, stack>>
  BY DEF IInv, LoopNext
<1>2. loop' \in [Blk -> Nat] /\ visit' \in [Blk -> -1..NBlk]
  BY <1>1 DEF Typed
<1>3. nblk' = nblk /\ nblk \in Nat
  BY <1>1, OrderedIs DEF order
<1>4. pc' \in {"loop", "done"} /\ x' \in 0..nblk - 1 /\ stack' \in Seq(Blk)
  <2>1. CASE x + 1 < nblk
    <3>1. x + 1 \in 0..nblk - 1
      BY <2>1, <1>1, <1>3
    <3>2. rpo[x + 1] \in Blk
      BY <3>1, <1>1, OrderedIs
    <3>3. pred[rpo[x + 1]] \in Seq(Blk)
      BY <3>2, <1>1 DEF Typed
    <3>4. Those(pred[rpo[x + 1]], {a \in Blk : id[a] >= x + 1}) \in Seq(Blk)
      BY <3>3, ThoseIs
    <3> QED
      BY <3>1, <3>4, <2>1, <1>1
  <2>2. CASE ~(x + 1 < nblk)
    BY <2>2, <1>1
  <2> QED
    BY <2>1, <2>2
<1> QED
  BY <1>1, <1>2, <1>3, <1>4, LoopKeeps

(* Nothing changes while fillrpo is at work.                               *)
LEMMA RpoStutters ==
  ASSUME Typed, RpoInv, UNCHANGED vars
  PROVE  RpoInv'
<1>s. UNCHANGED <<s1, s2, link, phi, pred, id, nblk, rpo, stack, x>>
  BY DEF vars, graph, order
<1>e. Edges
  BY DEF Typed, Edges
<1>u. /\ Live' = Live /\ Called' = Called /\ Active' = Active /\ Numbered' = Numbered
      /\ \A c \in Blk : (Succs(c) = Succs(c)')
      /\ \A c \in Blk : (PredsOf(c) = PredsOf(c)')
      /\ \A s, c \in Blk : (c \in Reach({s}, {})) = (c \in Reach({s}, {}))'
  BY <1>s DEF Live, Called, Active, Numbered, Succs, PredsOf, Reach
<1>1. ListsOK'
  BY <1>s, <1>u DEF RpoInv, ListsOK
<1>2. CallsOK(stack, 0)'
  <2>1. CallsOK(stack, 0)
    BY DEF RpoInv
  <2>2. PICK t : t = stack
    OBVIOUS
  <2> QED
    BY <2>1, <2>2, <1>s, <1>u, CallsStay
<1>3. NumberOK'
  <2>1. NumberOK /\ Numbered \subseteq Blk /\ Called \subseteq Blk
    BY DEF RpoInv, Numbered, Called
  <2>2. \A b \in Numbered : Succs(b) \subseteq Blk
    BY <2>1, <1>e, SuccsIs
  <2>3. /\ (Called \subseteq Live)'
        /\ (Called # {} => 1 \in Called)'
        /\ (stack = <<>> /\ 1 \in Called => id[1] = x + 1)'
        /\ (x \in -1..NBlk - 1 /\ Cardinality(Numbered) = NBlk - 1 - x)'
    BY <2>1, <1>s, <1>u DEF NumberOK
  <2>4. /\ (\A b \in Numbered : id[b] \in x + 1..NBlk - 1)'
        /\ (\A b, d \in Numbered : id[b] = id[d] => b = d)'
        /\ (\A k \in x + 1..NBlk - 1 : \E b \in Numbered : id[b] = k)'
    BY <2>1, <1>s, <1>u DEF NumberOK
  <2>5. (\A b \in Numbered : \A s \in Succs(b) :
           s \in Called /\ ((s \in Numbered /\ id[s] > id[b]) \/ b \in Reach({s}, {})))'
    <3>1. \A b \in Numbered : \A s \in Succs(b) :
            s \in Called /\ ((s \in Numbered /\ id[s] > id[b]) \/ b \in Reach({s}, {}))
      BY <2>1 DEF NumberOK
    <3> QED
      BY <3>1, <2>1, <2>2, <1>s, <1>u
  <2>6. (\A b \in Numbered \ {1} :
           \E a \in Called : b \in Succs(a) /\ (a \in Active \/ id[a] < id[b]))'
    BY <2>1, <1>s, <1>u DEF NumberOK
  <2> QED
    BY <2>3, <2>4, <2>5, <2>6 DEF NumberOK
<1> QED
  BY <1>1, <1>2, <1>3, <1>s DEF RpoInv

(* Nothing changes while the blocks are swept.                             *)
LEMMA SweepStutters ==
  ASSUME Typed, SweepInv, UNCHANGED vars
  PROVE  SweepInv'
<1>s. UNCHANGED <<s1, s2, link, phi, pred, id, nblk, rpo, stack, x>>
  BY DEF vars, graph, order
<1>e. Edges
  BY DEF Typed, Edges
<1>l. Live \subseteq Blk
  BY <1>e, LiveIs
<1>u. /\ Live' = Live /\ Shifted' = Shifted /\ Seen' = Seen
      /\ \A c \in Blk : (Succs(c)' = Succs(c))
      /\ \A c \in Blk : (PredsOf(c) = PredsOf(c)')
      /\ \A s, c \in Blk : (c \in Reach({s}, {})) = (c \in Reach({s}, {}))'
  BY <1>s DEF Live, Shifted, FirstId, Seen, Succs, PredsOf, Reach
<1>1. ListsOK'
  BY <1>s, <1>u DEF SweepInv, ListsOK
<1>2. Numbering(Shifted)'
  <2>1. Numbering(Shifted)
    BY DEF SweepInv
  <2>2. \A a \in Live : Succs(a)' = Succs(a) /\ Shifted'[a] = Shifted[a]
    BY <1>l, <1>u
  <2>3. \A s, a \in Live : a \in Reach({s}, {}) => (a \in Reach({s}, {}))'
    BY <1>l, <1>u
  <2> QED
    BY <2>1, <2>2, <2>3, <1>e, <1>s, <1>u, SameNumbering
<1>3. (\A b \in Blk \ Live : id[b] = -1 /\ (b \in Seen => Succs(b) = {}))'
  BY <1>s, <1>u DEF SweepInv
<1>4. (/\ stack \in Seq(Blk) /\ Len(stack) <= NBlk
       /\ \A j \in 1..Len(stack) : stack[j] = NBlk - Len(stack) + j
       /\ x \in -1..NBlk - 1 /\ nblk = NBlk - 1 - x /\ nblk = Cardinality(Live)
       /\ DOMAIN rpo = 0..nblk - 1
       /\ ToSet(link) = Live \cup (Blk \ Seen) /\ IsInjective(link)
       /\ \A b \in Live \cap Seen : rpo[id[b]] = b)'
  BY <1>s, <1>u DEF SweepInv
<1> QED
  BY <1>1, <1>2, <1>3, <1>4 DEF SweepInv

(* Nothing changes while filldom iterates.                                 *)
LEMMA DomStutters ==
  ASSUME Typed, Ordered, DomInv, UNCHANGED vars
  PROVE  DomInv'
<1>s. UNCHANGED <<s1, s2, link, pred, id, nblk, rpo, idom, x, ch>>
  BY DEF vars, graph, order, doms
<1>o. Live \subseteq Blk /\ Known \subseteq Blk
  BY OrderedIs DEF Known, Ordered
<1>u. /\ Live' = Live /\ Known' = Known
      /\ \A d, c \in Blk : (Dominates(d, c) = Dominates(d, c)')
  BY <1>s DEF Live, Known, Dominates, Reach, Succs
<1>1. Kept'
  <2>1. Kept /\ \A c \in Live \ {1} : idom[c] # 0 => idom[c] \in Blk
    BY <1>o DEF DomInv, Kept
  <2> QED
    BY <2>1, <1>s, <1>o, <1>u DEF Kept
<1>2. (ch = 0 => \A j \in 1..x - 1 : idom[rpo[j]] = NewIdom(rpo[j]))'
  <2> SUFFICES ASSUME ch' = 0, NEW j \in 1..x' - 1 PROVE (idom[rpo[j]] = NewIdom(rpo[j]))'
    OBVIOUS
  <2>1. NewIdom(rpo[j])' = NewIdom(rpo[j])
    BY <1>s DEF NewIdom, Inter, Known
  <2>2. idom[rpo[j]] = NewIdom(rpo[j])
    BY <1>s DEF DomInv
  <2> QED
    BY <2>1, <2>2, <1>s
<1>3. (x \in 1..nblk /\ \A j \in 1..x - 1 : rpo[j] \in Known)'
  BY <1>s, <1>u DEF DomInv
<1> QED
  BY <1>1, <1>2, <1>3 DEF DomInv

(* Nothing changes.                                                        *)
LEMMA StutterKeeps == IInv /\ UNCHANGED vars => IInv'
<1> SUFFICES ASSUME IInv, UNCHANGED vars PROVE IInv'
  OBVIOUS
<1>s. UNCHANGED <<s1, s2, link, phi, pred, id, nblk, rpo, idom, dom, fron, loop, visit, pc,
                  stack, x, ch, graph, order>>
  BY DEF vars, graph, order, doms
<1>1. Typed' /\ Fresh' /\ Typed
  BY <1>s DEF IInv, Typed, Fresh
<1>2. CASE pc = "rpo"
  BY <1>1, <1>2, <1>s, RpoStutters DEF IInv
<1>3. CASE pc = "sweep"
  BY <1>1, <1>3, <1>s, SweepStutters DEF IInv
<1>4. CASE pc = "dom"
  <2>1. Ordered /\ Ordered'
    BY <1>1, <1>4, <1>s, OrderedSame DEF IInv
  <2>2. DomInv'
    BY <1>1, <1>4, <2>1, DomStutters DEF IInv
  <2> QED
    BY <2>1, <2>2, <1>1, <1>4, <1>s DEF IInv
<1>5. CASE pc = "fron"
  <2>1. Ordered /\ Ordered' /\ Live' = Live
    BY <1>1, <1>5, <1>s, OrderedSame DEF IInv
  <2>2. Tree'
    BY <1>1, <1>5, <1>s, <2>1, TreeSame DEF IInv
  <2>3. PICK n \in 1..Len(link) + 1 : n = x /\ FronInv(n)
    BY <1>5 DEF IInv
  <2>4. FronInv(x)'
    <3>1. FronInv(n)'
      BY <2>1, <2>3, <1>1, <1>s, FronSame
    <3>2. n = x'
      BY <2>3, <1>s
    <3> QED
      BY <3>1, <3>2 DEF FronInv
  <2>5. (/\ x \in 1..Len(link) + 1
         /\ \A b \in Live : ToSet(dom[b]) = {c \in Live \ {1} : idom[c] = b})'
    BY <2>1, <1>5, <1>s DEF IInv
  <2> QED
    BY <2>1, <2>2, <2>4, <2>5, <1>1, <1>5, <1>s DEF IInv
<1>6. CASE pc \in {"loop", "done"}
  <2>1. Ordered /\ Ordered'
    BY <1>1, <1>6, <1>s, OrderedSame DEF IInv
  <2>2. Tree'
    BY <1>1, <1>6, <1>s, <2>1, TreeSame DEF IInv
  <2>3. Len(link) + 1 \in 1..Len(link) + 1
    <3>1. Len(link) \in Nat
      BY <1>1, ListIs DEF Typed
    <3> QED
      BY <3>1
  <2>4. PICK n \in 1..Len(link) + 1 : n = Len(link) + 1 /\ FronInv(n)
    BY <2>3, <1>6 DEF IInv
  <2>5. FronInv(Len(link) + 1)'
    <3>1. FronInv(n)'
      BY <2>1, <2>4, <1>1, <1>s, FronSame
    <3>2. n = Len(link') + 1
      BY <2>4, <1>s
    <3> QED
      BY <3>1, <3>2 DEF FronInv
  <2>6. (stack \in Seq(Blk) /\ x \in 0..nblk - 1)'
    BY <1>6, <1>s DEF IInv
  <2> QED
    BY <2>1, <2>2, <2>5, <2>6, <1>1, <1>6, <1>s DEF IInv
<1> QED
  BY <1>1, <1>2, <1>3, <1>4, <1>5, <1>6 DEF Typed

-----------------------------------------------------------------------------
(* What the passes rely on of each other always holds.                     *)
THEOREM PassesInvariant == Spec => []IInv
<1>1. Init => IInv
  BY InitInv
<1>2. IInv /\ [Next]_vars => IInv'
  <2> SUFFICES ASSUME IInv, [Next]_vars PROVE IInv'
    OBVIOUS
  <2>1. CASE RpoStart
    BY <2>1, RpoStartKeeps
  <2>2. CASE RpoVisit
    BY <2>2, RpoVisitKeeps
  <2>3. CASE RpoNumber
    BY <2>3, RpoNumberKeeps
  <2>4. CASE RpoDone
    BY <2>4, RpoDoneKeeps
  <2>5. CASE SweepDead
    BY <2>5, SweepDeadKeeps
  <2>6. CASE SweepLive
    BY <2>6, SweepLiveKeeps
  <2>7. CASE FillPreds
    BY <2>7, FillPredsKeeps
  <2>8. CASE DomBlk
    BY <2>8, DomBlkKeeps
  <2>9. CASE DomAgain
    BY <2>9, DomAgainKeeps
  <2>10. CASE DomDone
    BY <2>10, DomDoneKeeps
  <2>11. CASE FronBlk
    BY <2>11, FronBlkKeeps
  <2>12. CASE FronDone
    BY <2>12, FronDoneKeeps
  <2>13. CASE LoopMark
    BY <2>13, LoopMarkKeeps
  <2>14. CASE LoopNext
    BY <2>14, LoopNextKeeps
  <2>15. CASE Stopped \/ UNCHANGED vars
    BY <2>15, StutterKeeps DEF Stopped
  <2> QED
    BY <2>1, <2>2, <2>3, <2>4, <2>5, <2>6, <2>7, <2>8, <2>9, <2>10, <2>11, <2>12, <2>13, <2>14,
       <2>15 DEF Next, Passes
<1> QED
  BY <1>1, <1>2, PTL DEF Spec

(* Every variable keeps its type, and when fillpreds is done the live      *)
(* blocks are exactly those listed, numbered in reverse postorder, with    *)
(* phis and predecessors for the edges that are left.                      *)
THEOREM RpoCorrect == Spec => []RpoOK
<1>1. IInv => RpoOK
  <2> SUFFICES ASSUME IInv PROVE RpoOK
    OBVIOUS
  <2>1. Typed
    BY DEF IInv
  <2>2. TypeOK
    <3>1. s1 \in [Blk -> Blk \cup {0}] /\ s2 \in [Blk -> Blk \cup {0}]
      BY <2>1 DEF Typed
    <3> QED
      BY <2>1, <3>1 DEF Typed, TypeOK
  <2>3. ASSUME pc = "dom"
        PROVE  /\ ToSet(link) = Live /\ nblk = Len(link) /\ rpo[0] = 1
               /\ DOMAIN rpo = 0..nblk - 1
               /\ \A b \in Live : id[b] \in DOMAIN rpo /\ rpo[id[b]] = b
               /\ \A b \in Live : \A s \in Succs(b) : id[s] <= id[b] => b \in Reach({s}, {})
               /\ \A b \in Live : ToSet(phi[b]) = PredsOf(b) /\ ToSet(pred[b]) = PredsOf(b)
    <3>1. Ordered /\ Numbering(id)
      BY <2>3 DEF IInv, Ordered
    <3>2. /\ Live \subseteq Blk /\ rpo[0] = 1
          /\ \A b \in Live : Succs(b) \subseteq Live /\ id[b] \in Int
      BY <2>1, <3>1, OrderedIs
    <3>3. ASSUME NEW b \in Live, NEW s \in Succs(b), id[s] <= id[b] PROVE b \in Reach({s}, {})
      <4>1. id[s] > id[b] \/ b \in Reach({s}, {})
        BY <3>1 DEF Numbering
      <4>2. id[s] \in Int /\ id[b] \in Int
        BY <3>2
      <4> QED
        BY <4>1, <4>2, <3>3
    <3> QED
      BY <3>1, <3>2, <3>3 DEF Ordered
  <2> QED
    BY <2>2, <2>3 DEF RpoOK
<1> QED
  BY <1>1, PassesInvariant, PTL

(* filldom finds the immediate dominators, and on the way there never      *)
(* climbs past a block that dominates.                                     *)
THEOREM DomCorrect == Spec => []DomOK
<1>1. IInv => DomOK
  <2> SUFFICES ASSUME IInv PROVE DomOK
    OBVIOUS
  <2>1. Typed
    BY DEF IInv
  <2>2. ASSUME pc = "dom" PROVE IdomBelow
    <3>1. Ordered /\ Kept
      BY <2>2 DEF IInv, DomInv
    <3> SUFFICES ASSUME NEW b \in Live, idom[b] # 0
                 PROVE  /\ id[idom[b]] < id[b]
                        /\ \A d \in Live \ {b} :
                             Dominates(d, b) => d = idom[b] \/ id[d] < id[idom[b]]
      BY DEF IdomBelow
    <3>2. b # 1
      BY <3>1 DEF Kept
    <3>3. /\ idom[b] \in Known /\ id[idom[b]] < id[b]
          /\ \A d \in Live \ {b} : Dominates(d, b) => Dominates(d, idom[b])
      BY <3>1, <3>2 DEF Kept
    <3>4. idom[b] \in Live
      BY <3>1, <3>3 DEF Known, Ordered
    <3>5. \A d \in Live : Dominates(d, idom[b]) /\ d # idom[b] => id[d] < id[idom[b]]
      BY <2>1, <3>1, <3>4, DominatorLess
    <3> QED
      BY <3>3, <3>5
  <2>3. ASSUME pc = "fron", x = 1
        PROVE  /\ idom[1] = 0
               /\ \A b \in Live \ {1} : idom[b] \in Live /\ IsIDom(idom[b], b)
               /\ \A a, b \in Live : SDom(a, b) <=> a # b /\ Dominates(a, b)
               /\ \A b \in Live : ToSet(dom[b]) = {c \in Live \ {1} : idom[c] = b}
    <3>1. /\ Ordered /\ Tree
          /\ \A b \in Live : ToSet(dom[b]) = {c \in Live \ {1} : idom[c] = b}
      BY <2>3 DEF IInv
    <3>2. \A a, b \in Live : SDom(a, b) <=> a # b /\ Dominates(a, b)
      BY <2>1, <3>1, SDomIs
    <3> QED
      BY <3>1, <3>2 DEF Tree
  <2> QED
    BY <2>2, <2>3 DEF DomOK
<1> QED
  BY <1>1, PassesInvariant, PTL

(* fillfron finds the dominance frontiers, each block of one once.         *)
THEOREM FrontiersCorrect == Spec => []FronOK
<1>1. IInv => FronOK
  <2> SUFFICES ASSUME IInv, pc = "loop", NEW b \in Live
               PROVE  /\ ToSet(fron[b]) =
                           {s \in Live : /\ \E a \in PredsOf(s) : Dominates(b, a)
                                         /\ ~(b # s /\ Dominates(b, s))}
                      /\ IsInjective(fron[b])
    BY DEF FronOK
  <2>1. Typed /\ Ordered /\ FronInv(Len(link) + 1)
    BY DEF IInv
  <2>2. Len(link) \in Nat /\ Len(link) + 1 - 1 = Len(link)
    <3>1. Len(link) \in Nat
      BY <2>1, ListIs DEF Typed
    <3> QED
      BY <3>1
  <2>3. /\ IsInjective(fron[b])
        /\ ToSet(fron[b]) =
             {s \in Live : /\ ~(b # s /\ Dominates(b, s))
                           /\ \E j \in 1..Len(link) + 1 - 1 :
                                s \in Succs(link[j]) /\ Dominates(b, link[j])}
    BY <2>1 DEF FronInv
  <2>4. \A s \in Live :
          (\E j \in 1..Len(link) : s \in Succs(link[j]) /\ Dominates(b, link[j]))
          <=> \E a \in PredsOf(s) : Dominates(b, a)
    <3>1. Live \subseteq Blk /\ \A s \in Blk : PredsOf(s) \subseteq Live
      BY <2>1, OrderedIs
    <3>2. Live = {link[j] : j \in 1..Len(link)}
      BY <2>1, ListIs DEF Typed, Ordered
    <3>3. ASSUME NEW s \in Live
          PROVE  (\E j \in 1..Len(link) : s \in Succs(link[j]) /\ Dominates(b, link[j]))
                 <=> \E a \in PredsOf(s) : Dominates(b, a)
      <4>1. \A j \in 1..Len(link) : s \in Succs(link[j]) <=> link[j] \in PredsOf(s)
        BY <3>1, <3>2 DEF PredsOf
      <4>2. \A a \in PredsOf(s) : \E j \in 1..Len(link) : a = link[j]
        BY <3>1, <3>2
      <4> QED
        BY <4>1, <4>2
    <3> QED
      BY <3>3
  <2> QED
    BY <2>2, <2>3, <2>4
<1> QED
  BY <1>1, PassesInvariant, PTL

-----------------------------------------------------------------------------
(* Loop weights.  The blocks from the k-th on, and those of them that      *)
(* jump to the k-th.                                                       *)
Later(k) == {b \in Live : id[b] >= k}
Starts(k) == PredsOf(rpo[k]) \cap Later(k)

(* The blocks loopmark reaches from there, going backwards: the least set. *)
BackClosed(C, k) ==
  Starts(k) \subseteq C /\ \A b \in C : PredsOf(b) \cap Later(k) \subseteq C
MarkSet(k) == {b \in Live : \A C \in SUBSET Live : BackClosed(C, k) => b \in C}

(* M are the blocks marked for the k-th, S those whose turn is to come.    *)
Marking(k, M, S) ==
  /\ Starts(k) \subseteq M \cup S
  /\ \A b \in M : PredsOf(b) \cap Later(k) \subseteq M \cup S
  /\ M \subseteq MarkSet(k) /\ S \cap Later(k) \subseteq MarkSet(k)

(* The passes of loopmark that have multiplied the weight of b.            *)
Marked == {b \in Live : visit[b] = x}
Weighs(b) ==
  {k \in 0..nblk - 1 : (k < x /\ b \in MarkSet(k)) \/ (k = x /\ visit[b] = x)}

LoopInv ==
  pc \in {"loop", "done"} =>
    /\ \A b \in Live : visit[b] <= x
    /\ ToSet(stack) \subseteq Live
    /\ Marking(x, Marked, ToSet(stack))
    /\ \A b \in Live : loop[b] = Tens[Cardinality(Weighs(b))]
    /\ pc = "done" => stack = <<>> /\ x = nblk - 1

-----------------------------------------------------------------------------
(* The powers are what their definition says.                              *)
LEMMA TensIs == Tens[0] = 1 /\ \A k \in 1..NBlk : Tens[k] = Tens[k - 1] * 10
<1> DEFINE Rec(f) == [k \in 0..NBlk |-> IF k = 0 THEN 1 ELSE f[k - 1] * 10]
<1>1. NBlk \in Nat
  BY BlkIs
<1>2. \E f : f = Rec(f)
  <2> DEFINE step == [k \in 1..NBlk |-> [v \in Nat |-> v * 10]]
  <2>1. step \in [1..NBlk -> [Nat -> Nat]]
    OBVIOUS
  <2>2. PICK f \in [0..NBlk -> Nat] : Recurs(NBlk, 1, step, f)
    <3> HIDE DEF step
    <3> QED
      BY <1>1, <2>1, StepRecursion
  <2>3. ASSUME NEW k \in 0..NBlk PROVE f[k] = Rec(f)[k]
    <3>1. CASE k = 0
      BY <3>1, <2>2 DEF Recurs
    <3>2. CASE k # 0
      <4>1. k \in 1..NBlk /\ k - 1 \in 0..NBlk
        BY <3>2, <1>1
      <4>2. f[k] = step[k][f[k - 1]] /\ f[k - 1] \in Nat
        BY <4>1, <2>2 DEF Recurs
      <4> QED
        BY <3>2, <4>1, <4>2
    <3> QED
      BY <3>1, <3>2
  <2>4. f = Rec(f)
    BY <2>3
  <2> QED
    BY <2>4
<1>3. Tens = Rec(Tens)
  BY <1>2 DEF Tens
<1>4. \A k \in 0..NBlk : Tens[k] = Rec(Tens)[k]
  BY <1>3
<1> QED
  BY <1>1, <1>4

(* The least set is one that loopmark's steps do not leave.                *)
LEMMA MarkSetIs ==
  ASSUME NEW k
  PROVE  /\ MarkSet(k) \subseteq Live
         /\ Starts(k) \subseteq MarkSet(k)
         /\ \A b \in MarkSet(k) : PredsOf(b) \cap Later(k) \subseteq MarkSet(k)
         /\ \A C \in SUBSET Live : BackClosed(C, k) => MarkSet(k) \subseteq C
<1>1. MarkSet(k) \subseteq Live
  BY DEF MarkSet
<1>2. \A C \in SUBSET Live : BackClosed(C, k) => MarkSet(k) \subseteq C
  BY DEF MarkSet
<1>3. ASSUME NEW b \in Starts(k) PROVE b \in MarkSet(k)
  BY <1>3 DEF MarkSet, BackClosed, Starts, Later
<1>4. ASSUME NEW b \in MarkSet(k), NEW a \in PredsOf(b) \cap Later(k) PROVE a \in MarkSet(k)
  <2>1. ASSUME NEW C \in SUBSET Live, BackClosed(C, k) PROVE a \in C
    <3>1. b \in C
      BY <2>1, <1>2
    <3> QED
      BY <2>1, <3>1 DEF BackClosed
  <2> QED
    BY <2>1 DEF MarkSet, Later
<1> QED
  BY <1>1, <1>2, <1>3, <1>4

(* In a reducible graph loopmark stays in the natural loops of the block.  *)
LEMMA MarkedInLoop ==
  ASSUME Typed, Ordered, Reducible, NEW h \in Live
  PROVE  MarkSet(id[h]) \subseteq {b \in Live : h \in Headers /\ InLoop(h, b)}
<1> DEFINE C == {b \in Live : h \in Headers /\ InLoop(h, b)}
<1>1. /\ Edges /\ Live \subseteq Blk /\ rpo[id[h]] = h /\ \A b \in Live : id[b] \in Int
      /\ \A b \in Blk : PredsOf(b) \subseteq Live
  BY OrderedIs
<1>2. PICK k \in Int : k = id[h]
  BY <1>1
<1>3. ASSUME NEW a \in Starts(k)
      PROVE  a \in Live /\ h \in Succs(a) /\ a \in PredsOf(h) /\ Dominates(h, a)
  <2>1. a \in Live /\ id[a] >= id[h] /\ a \in PredsOf(h)
    BY <1>1, <1>2, <1>3 DEF Starts, Later
  <2>2. h \in Succs(a) /\ id[h] <= id[a]
    BY <2>1, <1>1 DEF PredsOf
  <2> QED
    BY <2>1, <2>2 DEF Reducible
<1>4. \A b \in Blk : Spans(Reach({b}, {h}), {b}, {h})
  BY <1>1, ReachIs
<1>5. ASSUME NEW a \in Starts(k) PROVE a \in C
  <2>1. h \in Headers
    BY <1>3, <1>5 DEF Headers
  <2>2. InLoop(h, a)
    <3>1. CASE a = h
      BY <3>1 DEF InLoop
    <3>2. CASE a # h
      <4>1. a \in Reach({a}, {h})
        BY <3>2, <1>1, <1>3, <1>4, <1>5 DEF Spans
      <4> QED
        BY <4>1, <1>3, <1>5 DEF InLoop
    <3> QED
      BY <3>1, <3>2
  <2> QED
    BY <2>1, <2>2, <1>3, <1>5
<1>6. ASSUME NEW b \in C, NEW p \in PredsOf(b) \cap Later(k) PROVE p \in C
  <2>1. b \in Live /\ h \in Headers /\ InLoop(h, b) /\ p \in Live /\ b \in Succs(p)
    BY <1>6 DEF Later, PredsOf
  <2>2. CASE b = h
    <3>1. p \in Starts(k)
      BY <2>2, <1>1, <1>2, <1>6 DEF Starts
    <3> QED
      BY <3>1, <1>5
  <2>3. CASE b # h
    <3>1. PICK a \in PredsOf(h) : Dominates(h, a) /\ a \in Reach({b}, {h})
      BY <2>1, <2>3 DEF InLoop
    <3>2. CASE p = h
      BY <3>2, <2>1 DEF InLoop
    <3>3. CASE p # h
      <4>1. Spans(Reach({p}, {h}), {p}, {h}) /\ Spans(Reach({b}, {h}), {b}, {h})
        BY <1>1, <1>4, <2>1
      <4>2. p \in Reach({p}, {h})
        BY <4>1, <3>3 DEF Spans
      <4>3. b \in Reach({p}, {h}) /\ Closed(Reach({p}, {h}), {h})
        BY <4>1, <4>2, <2>1, <2>3 DEF Spans, Closed
      <4>4. Reach({b}, {h}) \subseteq Reach({p}, {h})
        BY <4>1, <4>3 DEF Spans
      <4> QED
        BY <4>4, <3>1, <2>1 DEF InLoop
    <3> QED
      BY <3>2, <3>3
  <2> QED
    BY <2>2, <2>3
<1>7. BackClosed(C, k) /\ C \in SUBSET Live
  <2>1. Starts(k) \subseteq C
    BY <1>5
  <2>2. \A b \in C : PredsOf(b) \cap Later(k) \subseteq C
    BY <1>6
  <2>3. C \in SUBSET Live
    OBVIOUS
  <2> HIDE DEF C
  <2> QED
    BY <2>1, <2>2, <2>3 DEF BackClosed
<1> HIDE DEF C
<1>8. MarkSet(k) \subseteq C
  BY <1>7, MarkSetIs
<1> QED
  BY <1>2, <1>8 DEF C

(* A set loopmark does not leave that starts below the header has it: the  *)
(* predecessors before a block the header dominates lead up to it.         *)
LEMMA HeaderMarked ==
  ASSUME Typed, Ordered, NEW h \in Live, NEW k \in Int, k = id[h],
         NEW C \in SUBSET Live, BackClosed(C, k),
         NEW a \in C, Dominates(h, a)
  PROVE  h \in C
<1>1. /\ Edges /\ Live \subseteq Blk /\ nblk \in Nat /\ nblk >= 1
      /\ \A c \in Live : id[c] \in 0..nblk - 1
      /\ \A c \in Live \ {1} : \E p \in Live : c \in Succs(p) /\ id[p] < id[c]
  BY OrderedIs DEF Ordered, Numbering
<1> DEFINE D == {c \in C : Dominates(h, c)}
<1> DEFINE S == {id[c] : c \in D}
<1>2. PICK m \in S : \A q \in S : m <= q
  <2>1. S \in SUBSET (0..nblk) /\ S # {}
    BY <1>1
  <2> HIDE DEF S
  <2> QED
    BY <2>1, <1>1, Least
<1>3. PICK c \in D : m = id[c]
  OBVIOUS
<1>4. SUFFICES ASSUME c # h PROVE FALSE
  BY <1>3
<1>5. c \in Live /\ Dominates(h, c) /\ c \in C
  BY <1>3
<1>6. c # 1
  BY <1>1, <1>4, <1>5, DomOrder
<1>7. PICK p \in Live : c \in Succs(p) /\ id[p] < id[c]
  BY <1>1, <1>5, <1>6
<1>8. Dominates(h, p)
  BY <1>1, <1>4, <1>5, <1>7, DomPred
<1>9. id[p] >= k
  <2>1. p = h \/ id[h] < id[p]
    BY <1>8, DominatorLess
  <2>2. id[p] \in Int /\ id[h] \in Int
    BY <1>1
  <2> QED
    BY <2>1, <2>2
<1>10. p \in PredsOf(c) \cap Later(k)
  BY <1>1, <1>7, <1>9 DEF PredsOf, Later
<1>11. p \in C
  BY <1>5, <1>10 DEF BackClosed
<1>12. id[p] \in S
  BY <1>8, <1>11
<1>13. id[c] <= id[p] /\ id[p] \in Int /\ id[c] \in Int
  <2> HIDE DEF S
  <2> QED
    BY <1>1, <1>2, <1>3, <1>5, <1>12
<1> QED
  BY <1>7, <1>13

(* And it marks the natural loops whole.                                   *)
LEMMA LoopIsMarked ==
  ASSUME Typed, Ordered, NEW h \in Headers, NEW b \in Live, InLoop(h, b)
  PROVE  b \in MarkSet(id[h])
<1>1. /\ Edges /\ Live \subseteq Blk /\ h \in Live /\ rpo[id[h]] = h
      /\ \A c \in Live : id[c] \in Int /\ Succs(c) \subseteq Live
      /\ \A c \in Blk : PredsOf(c) \subseteq Live
  BY OrderedIs DEF Headers
<1>2. PICK k \in Int : k = id[h]
  BY <1>1
<1>3. \A a \in Live : Dominates(h, a) => id[a] >= k
  <2> SUFFICES ASSUME NEW a \in Live, Dominates(h, a) PROVE id[a] >= k
    OBVIOUS
  <2>1. a = h \/ id[h] < id[a]
    BY <1>1, DominatorLess
  <2> QED
    BY <2>1, <1>1, <1>2
<1>4. ASSUME NEW a \in PredsOf(h), Dominates(h, a) PROVE a \in Starts(k)
  BY <1>1, <1>2, <1>3, <1>4 DEF Starts, Later
<1> SUFFICES ASSUME NEW C \in SUBSET Live, BackClosed(C, k) PROVE b \in C
  BY <1>2 DEF MarkSet
<1>5. \A a \in PredsOf(h) : Dominates(h, a) => a \in C
  BY <1>4 DEF BackClosed
<1>6. CASE b = h
  <2>1. PICK a \in PredsOf(h) : Dominates(h, a)
    BY DEF Headers
  <2>2. a \in C
    BY <2>1, <1>5
  <2>3. h \in C
    BY <2>1, <2>2, <1>1, <1>2, HeaderMarked
  <2> QED
    BY <2>3, <1>6
<1>7. CASE b # h
  <2>1. PICK a \in PredsOf(h) : Dominates(h, a) /\ a \in Reach({b}, {h})
    BY <1>7 DEF InLoop
  <2> DEFINE R == Reach({1}, {h})
  <2>2. Spans(R, {1}, {h}) /\ Spans(Reach({b}, {h}), {b}, {h})
    BY <1>1, DomIs, ReachIs
  <2>3. \A c \in Live : ~Dominates(h, c) <=> c \in R
    BY <1>1, DomIs
  <2> HIDE DEF R
  <2> DEFINE U == {c \in Live : c \notin C /\ Dominates(h, c)} \cup R
  <2>4. SUFFICES ASSUME b \notin C PROVE FALSE
    OBVIOUS
  <2>5. b \in U
    BY <2>3, <2>4
  <2>6. ASSUME NEW c \in U, NEW s \in Succs(c) \ {h} PROVE s \in U
    <3>1. CASE c \in R
      <4>1. s \in R
        BY <3>1, <2>2 DEF Spans, Closed
      <4> QED
        BY <4>1
    <3>2. CASE c \in Live /\ c \notin C /\ Dominates(h, c)
      <4>1. s \in Live
        BY <3>2, <1>1
      <4>2. s \notin C
        <5>1. c \in PredsOf(s) \cap Later(k)
          BY <3>2, <1>1, <1>3 DEF PredsOf, Later
        <5> QED
          BY <5>1, <3>2 DEF BackClosed
      <4> QED
        BY <4>1, <4>2, <2>3
    <3> QED
      BY <3>1, <3>2
  <2>7. a \notin U
    <3>1. a \in Live /\ a \in C
      BY <1>1, <1>5, <2>1
    <3> QED
      BY <3>1, <2>1, <2>3
  <2> HIDE DEF U
  <2>8. Closed(U, {h}) /\ {b} \ {h} \subseteq U
    BY <2>5, <2>6 DEF Closed
  <2>9. Reach({b}, {h}) \subseteq U
    BY <2>2, <2>8 DEF Spans
  <2> QED
    BY <2>1, <2>7, <2>9
<1> QED
  BY <1>6, <1>7

(* When nobody's turn is to come, the marked blocks are all of them.       *)
LEMMA MarkedAll ==
  ASSUME NEW k, NEW M \in SUBSET Live, Marking(k, M, {})
  PROVE  M = MarkSet(k)
<1>1. BackClosed(M, k)
  BY DEF Marking, BackClosed
<1>2. MarkSet(k) \subseteq M
  BY <1>1, MarkSetIs
<1> QED
  BY <1>2 DEF Marking

(* The passes that multiplied a weight are finitely many, and one more     *)
(* makes their number one more.                                            *)
LEMMA WeighsIs ==
  ASSUME Typed, NEW W \in SUBSET (0..nblk - 1)
  PROVE  /\ IsFiniteSet(W) /\ Cardinality(W) \in 0..NBlk
         /\ \A k \in (0..nblk - 1) \ W :
              /\ Cardinality(W \cup {k}) = Cardinality(W) + 1
              /\ Cardinality(W) + 1 \in 1..NBlk
<1>1. nblk \in Nat /\ nblk <= NBlk /\ NBlk \in Nat
  BY BlkIs DEF Typed
<1>2. IsFiniteSet(0..nblk - 1) /\ Cardinality(0..nblk - 1) = nblk
  BY <1>1, FS_Interval
<1>3. ASSUME NEW V \in SUBSET (0..nblk - 1)
      PROVE  IsFiniteSet(V) /\ Cardinality(V) \in 0..NBlk
  <2>1. IsFiniteSet(V) /\ Cardinality(V) <= nblk
    BY <1>2, FS_Subset
  <2>2. Cardinality(V) \in Nat
    BY <2>1, FS_CardinalityType
  <2> QED
    BY <1>1, <2>1, <2>2
<1>4. ASSUME NEW k \in (0..nblk - 1) \ W
      PROVE  /\ Cardinality(W \cup {k}) = Cardinality(W) + 1
             /\ Cardinality(W) + 1 \in 1..NBlk
  <2>1. Cardinality(W \cup {k}) = Cardinality(W) + 1
    BY <1>3, FS_AddElement
  <2>2. W \cup {k} \in SUBSET (0..nblk - 1)
    OBVIOUS
  <2>3. Cardinality(W \cup {k}) \in 0..NBlk /\ Cardinality(W) \in 0..NBlk
    BY <2>2, <1>3
  <2> QED
    BY <1>1, <2>1, <2>3
<1> QED
  BY <1>3, <1>4

(* What loopmark goes by does not change while it works.                   *)
LEMMA SameMarks ==
  ASSUME UNCHANGED <<graph, order>>, NEW k
  PROVE  /\ Live' = Live /\ Later(k)' = Later(k) /\ Starts(k)' = Starts(k)
         /\ MarkSet(k)' = MarkSet(k)
         /\ \A b : PredsOf(b)' = PredsOf(b)
         /\ \A M, S : Marking(k, M, S)' <=> Marking(k, M, S)
<1>s. UNCHANGED <<s1, s2, id, rpo>>
  BY DEF graph, order
<1>1. Live' = Live /\ \A b : PredsOf(b)' = PredsOf(b)
  BY <1>s DEF Live, Reach, PredsOf, Succs
<1>2. Later(k)' = Later(k)
  BY <1>1, <1>s DEF Later
<1>3. Starts(k)' = Starts(k)
  BY <1>1, <1>2, <1>s DEF Starts
<1>4. \A C : BackClosed(C, k)' <=> BackClosed(C, k)
  BY <1>1, <1>2, <1>3 DEF BackClosed
<1>5. MarkSet(k)' = MarkSet(k)
  BY <1>1, <1>4 DEF MarkSet
<1>6. \A M, S : Marking(k, M, S)' <=> Marking(k, M, S)
  BY <1>1, <1>2, <1>3, <1>5 DEF Marking
<1> QED
  BY <1>1, <1>2, <1>3, <1>5, <1>6

(* Before the first pass nothing is marked and every weight is 1.          *)
LEMMA FronDoneMarks == IInv /\ FronDone => LoopInv'
<1> SUFFICES ASSUME IInv, FronDone PROVE LoopInv'
  OBVIOUS
<1>1. /\ Typed /\ Ordered /\ pc' = "loop" /\ x' = 0
      /\ UNCHANGED <<graph, order>> /\ ToSet(link) = Live
      /\ loop' = [b \in Blk |-> IF Contains(link, b) THEN 1 ELSE loop[b]]
      /\ visit' = [b \in Blk |-> IF Contains(link, b) THEN -1 ELSE visit[b]]
      /\ stack' = Those(pred[rpo[0]], {a \in Blk : id[a] >= 0})
  BY DEF IInv, FronDone, Ordered
<1>2. /\ Live \subseteq Blk /\ nblk \in Nat /\ nblk >= 1 /\ 1 \in Live /\ rpo[0] = 1
      /\ PredsOf(1) \subseteq Live
      /\ \A b \in Live : id[b] \in 0..nblk - 1
  BY <1>1, OrderedIs
<1>s. /\ Live' = Live /\ nblk' = nblk
      /\ \A M, S : Marking(0, M, S)' <=> Marking(0, M, S)
  BY <1>1, SameMarks DEF order
<1>3. \A b \in Live : loop'[b] = 1 /\ visit'[b] = -1
  <2>1. \A b \in Live : Contains(link, b)
    <3>1. link \in Seq(Blk)
      BY <1>1 DEF Typed
    <3>2. ToSet(link) = {link[j] : j \in 1..Len(link)}
      BY <3>1, ListIs
    <3> QED
      BY <1>1, <3>2 DEF Contains
  <2> QED
    BY <2>1, <1>1, <1>2
<1>4. ToSet(stack') = PredsOf(1)
  <2>1. pred[1] \in Seq(Blk) /\ ToSet(pred[1]) = PredsOf(1)
    BY <1>1, <1>2 DEF Typed, Ordered
  <2>2. ToSet(stack') = PredsOf(1) \cap {a \in Blk : id[a] >= 0}
    BY <2>1, <1>1, <1>2, ThoseIs
  <2>3. PredsOf(1) \subseteq {a \in Blk : id[a] >= 0}
    BY <1>2
  <2> QED
    BY <2>2, <2>3
<1>5. Marked' = {}
  BY <1>1, <1>s, <1>3 DEF Marked
<1>6. Marking(0, {}, PredsOf(1))
  <2>1. Starts(0) \subseteq PredsOf(1) /\ PredsOf(1) \cap Later(0) \subseteq Starts(0)
    BY <1>2 DEF Starts
  <2>2. Starts(0) \subseteq MarkSet(0)
    BY MarkSetIs
  <2> QED
    BY <2>1, <2>2 DEF Marking
<1>7. Marking(x, Marked, ToSet(stack))'
  <2>1. PICK S : S = PredsOf(1)
    OBVIOUS
  <2>2. Marking(0, {}, S)'
    BY <2>1, <1>6, <1>s
  <2> QED
    BY <2>1, <2>2, <1>1, <1>4, <1>5 DEF Marking
<1>8. ASSUME NEW b \in Live PROVE (loop[b] = Tens[Cardinality(Weighs(b))])'
  <2>1. Weighs(b)' = {}
    BY <1>1, <1>2, <1>s, <1>3 DEF Weighs
  <2>2. Tens[0]' = 1
    BY TensIs DEF Tens
  <2>3. Cardinality({}) = 0
    BY FS_EmptySet
  <2> QED
    BY <2>1, <2>2, <2>3, <1>3
<1>9. (\A b \in Live : visit[b] <= x)' /\ ToSet(stack)' \subseteq Live'
  <2>1. \A b \in Live' : visit'[b] <= x'
    BY <1>1, <1>s, <1>3
  <2>2. ToSet(stack)' \subseteq Live'
    BY <1>2, <1>s, <1>4
  <2> QED
    BY <2>1, <2>2
<1> QED
  BY <1>1, <1>s, <1>7, <1>8, <1>9 DEF LoopInv

(* A list behind another holds what either holds.                          *)
LEMMA JoinIs ==
  ASSUME NEW s \in Seq(Blk), NEW t \in Seq(Blk)
  PROVE  ToSet(s \o t) = ToSet(s) \cup ToSet(t)
<1>1. /\ Len(s) \in Nat /\ Len(t) \in Nat /\ s \o t \in Seq(Blk)
      /\ Len(s \o t) = Len(s) + Len(t)
      /\ \A j \in 1..Len(s) : (s \o t)[j] = s[j]
      /\ \A j \in 1..Len(t) : (s \o t)[Len(s) + j] = t[j]
  OBVIOUS
<1>2. /\ ToSet(s) = {s[j] : j \in 1..Len(s)} /\ ToSet(t) = {t[j] : j \in 1..Len(t)}
      /\ ToSet(s \o t) = {(s \o t)[j] : j \in 1..Len(s) + Len(t)}
  BY <1>1, ListIs
<1>3. \A j \in 1..Len(s) + Len(t) :
        j \in 1..Len(s) \/ (j - Len(s) \in 1..Len(t) /\ j = Len(s) + (j - Len(s)))
  BY <1>1
<1>4. /\ \A j \in 1..Len(s) : j \in 1..Len(s) + Len(t)
      /\ \A j \in 1..Len(t) : Len(s) + j \in 1..Len(s) + Len(t)
  BY <1>1
<1>5. ASSUME NEW j \in 1..Len(s) + Len(t) PROVE (s \o t)[j] \in ToSet(s) \cup ToSet(t)
  <2>1. CASE j \in 1..Len(s)
    BY <2>1, <1>1, <1>2
  <2>2. CASE j - Len(s) \in 1..Len(t) /\ j = Len(s) + (j - Len(s))
    <3>1. (s \o t)[j] = t[j - Len(s)]
      BY <2>2, <1>1
    <3> QED
      BY <3>1, <2>2, <1>2
  <2> QED
    BY <2>1, <2>2, <1>3
<1>6. ToSet(s) \subseteq ToSet(s \o t) /\ ToSet(t) \subseteq ToSet(s \o t)
  BY <1>1, <1>2, <1>4
<1> QED
  BY <1>2, <1>5, <1>6

(* loopmark at one block: a block marked for the first time in a pass      *)
(* passes its turn on to its predecessors and weighs ten times more.       *)
LEMMA LoopMarkMarks == IInv /\ LoopInv /\ LoopMark => LoopInv'
<1> SUFFICES ASSUME IInv, LoopInv, LoopMark PROVE LoopInv'
  OBVIOUS
<1>1. /\ Typed /\ Ordered /\ pc = "loop" /\ pc' = "loop" /\ x' = x /\ x \in 0..nblk - 1
      /\ stack \in Seq(Blk) /\ stack # <<>>
      /\ UNCHANGED <<graph, order>>
      /\ \A b \in Live : visit[b] <= x
      /\ ToSet(stack) \subseteq Live
      /\ Marking(x, Marked, ToSet(stack))
      /\ \A b \in Live : loop[b] = Tens[Cardinality(Weighs(b))]
  BY DEF IInv, LoopInv, LoopMark
<1>b. PICK b : b = Head(stack)
  OBVIOUS
<1>k. PICK k \in Int : k = x
  BY <1>1
<1>2. /\ Live \subseteq Blk /\ nblk \in Nat /\ id[rpo[x]] = x
      /\ \A c \in Live : id[c] \in 0..nblk - 1
      /\ \A c \in Blk : PredsOf(c) \subseteq Live
  BY <1>1, OrderedIs
<1>s. /\ Live' = Live /\ nblk' = nblk /\ Later(k)' = Later(k)
      /\ \A M, S : Marking(k, M, S)' <=> Marking(k, M, S)
  BY <1>1, SameMarks DEF order
<1>m. \A j : MarkSet(j)' = MarkSet(j)
  BY <1>1, SameMarks
<1>3. /\ b \in Live /\ Tail(stack) \in Seq(Blk)
      /\ ToSet(stack) = {b} \cup ToSet(Tail(stack))
  <2>1. /\ Len(stack) \in Nat /\ Len(stack) >= 1 /\ b = stack[1]
        /\ Tail(stack) \in Seq(Blk) /\ Len(Tail(stack)) = Len(stack) - 1
        /\ \A j \in 1..Len(stack) - 1 : Tail(stack)[j] = stack[j + 1]
    BY <1>1, <1>b
  <2>2. /\ ToSet(stack) = {stack[j] : j \in 1..Len(stack)}
        /\ ToSet(Tail(stack)) = {Tail(stack)[j] : j \in 1..Len(stack) - 1}
    BY <1>1, <2>1, ListIs
  <2>3. {stack[j] : j \in 1..Len(stack)} = {b} \cup {stack[j + 1] : j \in 1..Len(stack) - 1}
    <3>1. ASSUME NEW j \in 1..Len(stack)
          PROVE  stack[j] \in {b} \cup {stack[q + 1] : q \in 1..Len(stack) - 1}
      <4>1. j = 1 \/ (j - 1 \in 1..Len(stack) - 1 /\ j = (j - 1) + 1)
        BY <2>1
      <4>2. CASE j = 1
        BY <4>2, <2>1
      <4>3. CASE j - 1 \in 1..Len(stack) - 1 /\ j = (j - 1) + 1
        BY <4>3
      <4> QED
        BY <4>1, <4>2, <4>3
    <3>2. \A j \in 1..Len(stack) - 1 : j + 1 \in 1..Len(stack)
      BY <2>1
    <3>3. 1 \in 1..Len(stack)
      BY <2>1
    <3> QED
      BY <2>1, <3>1, <3>2, <3>3
  <2>4. {Tail(stack)[j] : j \in 1..Len(stack) - 1} = {stack[j + 1] : j \in 1..Len(stack) - 1}
    BY <2>1
  <2>5. ToSet(stack) = {b} \cup ToSet(Tail(stack))
    BY <2>2, <2>3, <2>4
  <2> QED
    BY <1>1, <2>1, <2>2, <2>5
<1> DEFINE R == ToSet(Tail(stack))
<1>4. CASE LoopMarked(rpo[x], b)
  <2>1. stack' = Tail(stack) /\ UNCHANGED <<loop, visit>>
    BY <1>4, <1>b DEF LoopMark
  <2>2. b \notin Later(k) \/ b \in Marked
    <3>1. id[b] < x \/ visit[b] = x
      BY <1>2, <1>4 DEF LoopMarked
    <3>2. id[b] \in Int
      BY <1>2, <1>3
    <3> QED
      BY <1>3, <1>k, <3>1, <3>2 DEF Later, Marked
  <2>3. PICK M, S : M = Marked /\ S = R
    OBVIOUS
  <2>4. Marking(k, M, S)
    <3>1. ToSet(stack) = {b} \cup S /\ Marking(k, M, {b} \cup S) /\ (b \notin Later(k) \/ b \in M)
      BY <1>1, <1>3, <1>k, <2>2, <2>3
    <3>2. Starts(k) \subseteq Later(k)
      BY DEF Starts
    <3> QED
      BY <3>1, <3>2 DEF Marking
  <2>5. Marked' = Marked
    BY <1>1, <1>s, <2>1 DEF Marked
  <2>6. Marking(x, Marked, ToSet(stack))'
    <3>1. Marking(k, M, S)'
      BY <2>4, <1>s
    <3>2. M = Marked' /\ S = ToSet(stack)' /\ k = x'
      BY <1>1, <1>k, <2>1, <2>3, <2>5
    <3> QED
      BY <3>1, <3>2 DEF Marking
  <2>7. \A c : Weighs(c)' = Weighs(c)
    BY <1>1, <1>s, <1>m, <2>1 DEF Weighs
  <2>8. (\A c \in Live : loop[c] = Tens[Cardinality(Weighs(c))])'
    BY <1>1, <1>s, <2>1, <2>7 DEF Tens
  <2>9. (\A c \in Live : visit[c] <= x)' /\ (ToSet(stack) \subseteq Live)'
    BY <1>1, <1>3, <1>s, <2>1
  <2> QED
    BY <1>1, <2>6, <2>8, <2>9 DEF LoopInv
<1>5. CASE ~LoopMarked(rpo[x], b)
  <2>1. /\ visit' = [visit EXCEPT ![b] = x] /\ loop' = [loop EXCEPT ![b] = @ * 10]
        /\ stack' = pred[b] \o Tail(stack)
    BY <1>2, <1>5, <1>b DEF LoopMark
  <2>t. visit \in [Blk -> -1..NBlk] /\ loop \in [Blk -> Nat]
    BY <1>1 DEF Typed
  <2>2. id[b] >= x /\ visit[b] # x /\ b \in Later(k) /\ b \notin Marked
    <3>1. ~(id[b] < x) /\ visit[b] # x
      BY <1>2, <1>5 DEF LoopMarked
    <3>2. id[b] \in Int
      BY <1>2, <1>3
    <3> QED
      BY <1>1, <1>3, <1>k, <3>1, <3>2 DEF Later, Marked
  <2>3. PICK M, S, P : M = Marked /\ S = R /\ P = PredsOf(b)
    OBVIOUS
  <2>4. Marking(k, M \cup {b}, P \cup S)
    <3>1. Marking(k, M, {b} \cup S) /\ b \in Later(k) /\ P = PredsOf(b)
      BY <1>1, <1>3, <1>k, <2>2, <2>3
    <3>2. b \in MarkSet(k)
      BY <3>1 DEF Marking
    <3>3. PredsOf(b) \cap Later(k) \subseteq MarkSet(k)
      BY <3>2, MarkSetIs
    <3> QED
      BY <3>1, <3>2, <3>3 DEF Marking
  <2>5. Marked' = Marked \cup {b}
    <3>1. \A c \in Live : visit'[c] = IF c = b THEN x ELSE visit[c]
      BY <1>2, <2>1, <2>t
    <3> QED
      BY <1>1, <1>3, <1>s, <3>1 DEF Marked
  <2>6. ToSet(stack') = P \cup S
    <3>1. pred[b] \in Seq(Blk) /\ ToSet(pred[b]) = P
      BY <1>1, <1>2, <1>3, <2>3 DEF Typed, Ordered
    <3> QED
      BY <1>3, <2>1, <2>3, <3>1, JoinIs
  <2>7. Marking(x, Marked, ToSet(stack))'
    <3>1. PICK M1, S1 : M1 = M \cup {b} /\ S1 = P \cup S
      OBVIOUS
    <3>2. Marking(k, M1, S1)'
      BY <2>4, <3>1, <1>s
    <3>3. M1 = Marked' /\ S1 = ToSet(stack)' /\ k = x'
      BY <1>1, <1>k, <2>3, <2>5, <2>6, <3>1
    <3> QED
      BY <3>2, <3>3 DEF Marking
  <2>8. ASSUME NEW c \in Live PROVE (loop[c] = Tens[Cardinality(Weighs(c))])'
    <3>1. CASE c # b
      <4>1. Weighs(c)' = Weighs(c)
        BY <1>1, <1>2, <1>s, <1>m, <2>1, <2>t, <2>8, <3>1 DEF Weighs
      <4>2. loop'[c] = loop[c]
        BY <1>2, <2>1, <2>t, <2>8, <3>1
      <4> QED
        BY <1>1, <2>8, <4>1, <4>2 DEF Tens
    <3>2. CASE c = b
      <4>1. visit'[b] = x /\ loop'[b] = loop[b] * 10
        BY <1>2, <1>3, <2>1, <2>t
      <4>2. Weighs(b)' = Weighs(b) \cup {x} /\ x \notin Weighs(b)
        BY <1>1, <1>s, <1>m, <2>2, <4>1 DEF Weighs
      <4>3. PICK W \in SUBSET (0..nblk - 1) : W = Weighs(b)
        BY DEF Weighs
      <4>4. Cardinality(W \cup {x}) = Cardinality(W) + 1 /\ Cardinality(W) + 1 \in 1..NBlk
        BY <1>1, <4>2, <4>3, WeighsIs
      <4>5. Tens[Cardinality(W) + 1] = Tens[Cardinality(W)] * 10
        <5>1. PICK n \in Nat : n = Cardinality(W)
          BY <1>1, <4>4, WeighsIs
        <5>2. Tens[n + 1] = Tens[n + 1 - 1] * 10 /\ n + 1 - 1 = n
          BY <4>4, <5>1, TensIs
        <5> QED
          BY <5>1, <5>2
      <4>6. loop[b] = Tens[Cardinality(W)]
        BY <1>1, <1>3, <4>3
      <4>7. Cardinality(Weighs(b)') = Cardinality(W) + 1
        BY <4>2, <4>3, <4>4
      <4>8. loop'[b] = Tens[Cardinality(W) + 1]
        BY <4>1, <4>5, <4>6
      <4>9. (Tens[Cardinality(Weighs(b))])' = Tens[Cardinality(Weighs(b)')]
        BY DEF Tens
      <4> QED
        BY <3>2, <4>7, <4>8, <4>9
    <3> QED
      BY <3>1, <3>2
  <2>9. (\A c \in Live : visit[c] <= x)' /\ ToSet(stack)' \subseteq Live'
    <3>1. \A c \in Live : visit'[c] <= x
      BY <1>1, <1>2, <2>1, <2>t
    <3>2. P \subseteq Live /\ S \subseteq Live
      BY <1>1, <1>2, <1>3, <2>3
    <3>3. ToSet(stack)' \subseteq Live'
      BY <1>s, <2>6, <3>2
    <3> QED
      BY <1>1, <1>s, <3>1, <3>3
  <2> QED
    BY <1>1, <1>s, <2>7, <2>8, <2>9 DEF LoopInv
<1> QED
  BY <1>4, <1>5

(* The next pass starts with nothing marked for it; the one that ended     *)
(* marked all it could reach.                                              *)
LEMMA LoopNextMarks == IInv /\ LoopInv /\ LoopNext => LoopInv'
<1> SUFFICES ASSUME IInv, LoopInv, LoopNext PROVE LoopInv'
  OBVIOUS
<1>1. /\ Typed /\ Ordered /\ pc = "loop" /\ x \in 0..nblk - 1 /\ stack = <<>>
      /\ UNCHANGED <<graph, order, loop, visit>>
      /\ \A b \in Live : visit[b] <= x
      /\ Marking(x, Marked, ToSet(stack))
      /\ \A b \in Live : loop[b] = Tens[Cardinality(Weighs(b))]
      /\ IF x + 1 < nblk
         THEN /\ x' = x + 1 /\ pc' = pc
              /\ stack' = Those(pred[rpo[x + 1]], {a \in Blk : id[a] >= x + 1})
         ELSE pc' = "done" /\ UNCHANGED <<x, stack>>
  BY DEF IInv, LoopInv, LoopNext
<1>2. /\ Live \subseteq Blk /\ nblk \in Nat
      /\ \A j \in 0..nblk - 1 : rpo[j] \in Live
      /\ \A c \in Live : id[c] \in 0..nblk - 1
      /\ \A c \in Blk : PredsOf(c) \subseteq Live
      /\ visit \in [Blk -> -1..NBlk]
  BY <1>1, OrderedIs DEF Typed
<1>3. ToSet(stack) = {}
  <2>1. <<>> \in Seq(Blk) /\ Len(<<>>) = 0
    OBVIOUS
  <2>2. ToSet(<<>>) = {<<>>[j] : j \in 1..Len(<<>>)}
    BY <2>1, ListIs
  <2> QED
    BY <1>1, <2>1, <2>2
<1>4. Marked = MarkSet(x)
  <2>1. PICK k, M : k = x /\ M = Marked
    OBVIOUS
  <2>2. Marking(k, M, {}) /\ M \in SUBSET Live
    BY <1>1, <1>3, <2>1 DEF Marked
  <2>3. M = MarkSet(k)
    BY <2>2, MarkedAll
  <2> QED
    BY <2>1, <2>3
<1>m. Live' = Live /\ nblk' = nblk /\ \A j : MarkSet(j)' = MarkSet(j)
  BY <1>1, SameMarks DEF order
<1>5. CASE x + 1 < nblk
  <2>1. PICK k \in 1..nblk - 1 : k = x + 1
    BY <1>1, <1>2, <1>5
  <2>2. /\ x' = k /\ pc' = "loop"
        /\ stack' = Those(pred[rpo[k]], {a \in Blk : id[a] >= k})
    BY <1>1, <1>5, <2>1
  <2>s. \A M, S : Marking(k, M, S)' <=> Marking(k, M, S)
    BY <1>1, SameMarks
  <2>3. rpo[k] \in Blk /\ pred[rpo[k]] \in Seq(Blk) /\ ToSet(pred[rpo[k]]) = PredsOf(rpo[k])
    BY <1>1, <1>2, <2>1 DEF Typed, Ordered
  <2>4. ToSet(stack') = PredsOf(rpo[k]) \cap {a \in Blk : id[a] >= k}
    BY <2>2, <2>3, ThoseIs
  <2>5. ToSet(stack') = Starts(k)
    BY <1>2, <2>3, <2>4 DEF Starts, Later
  <2>6. Marked' = {}
    <3>1. \A b \in Live : visit[b] # k
      BY <1>1, <1>2, <2>1
    <3> QED
      BY <1>1, <1>m, <2>2, <3>1 DEF Marked
  <2>7. Marking(x, Marked, ToSet(stack))'
    <3>1. PICK S : S = Starts(k)
      OBVIOUS
    <3>2. Marking(k, {}, S)
      BY <3>1, MarkSetIs DEF Marking
    <3>3. Marking(k, {}, S)'
      BY <3>2, <2>s
    <3> QED
      BY <3>1, <3>3, <2>2, <2>5, <2>6 DEF Marking
  <2>8. ASSUME NEW b \in Live PROVE (loop[b] = Tens[Cardinality(Weighs(b))])'
    <3>1. \A j \in 0..nblk - 1 : j < k <=> j < x \/ j = x
      BY <1>1, <1>2, <2>1
    <3>2. visit[b] # k /\ (visit[b] = x <=> b \in MarkSet(x))
      BY <1>1, <1>2, <1>4, <2>1, <2>8 DEF Marked
    <3>3. Weighs(b)' = {j \in 0..nblk - 1 : j < k /\ b \in MarkSet(j)}
      BY <1>1, <1>m, <2>2, <3>2 DEF Weighs
    <3>4. Weighs(b) = {j \in 0..nblk - 1 : j < k /\ b \in MarkSet(j)}
      BY <3>1, <3>2 DEF Weighs
    <3> QED
      BY <1>1, <2>8, <3>3, <3>4 DEF Tens
  <2>9. (\A b \in Live : visit[b] <= x)' /\ ToSet(stack)' \subseteq Live'
    <3>1. \A b \in Live : visit[b] <= k
      BY <1>1, <1>2, <2>1
    <3>2. ToSet(stack') \subseteq Live
      BY <2>5 DEF Starts, Later
    <3> QED
      BY <1>1, <1>m, <2>2, <3>1, <3>2
  <2> QED
    BY <1>1, <1>m, <2>2, <2>7, <2>8, <2>9 DEF LoopInv
<1>6. CASE ~(x + 1 < nblk)
  <2>1. pc' = "done" /\ x' = x /\ stack' = stack /\ x = nblk - 1
    BY <1>1, <1>2, <1>6
  <2>2. PICK k, M, S : k = x /\ M = Marked /\ S = ToSet(stack)
    OBVIOUS
  <2>3. Marked' = Marked
    BY <1>1, <1>m, <2>1 DEF Marked
  <2>4. Marking(x, Marked, ToSet(stack))'
    <3>1. Marking(k, M, S)'
      BY <1>1, <2>2, SameMarks
    <3>2. k = x' /\ M = Marked' /\ S = ToSet(stack)'
      BY <2>1, <2>2, <2>3
    <3> QED
      BY <3>1, <3>2 DEF Marking
  <2>5. \A b : Weighs(b)' = Weighs(b)
    BY <1>1, <1>m, <2>1 DEF Weighs
  <2>6. (\A b \in Live : loop[b] = Tens[Cardinality(Weighs(b))])'
    BY <1>1, <1>m, <2>5 DEF Tens
  <2>7. ToSet(stack)' \subseteq Live'
    BY <1>3, <2>1
  <2> QED
    BY <1>1, <1>m, <2>1, <2>4, <2>6, <2>7 DEF LoopInv
<1> QED
  BY <1>5, <1>6

(* Nothing changes.                                                        *)
LEMMA LoopStutters == IInv /\ LoopInv /\ UNCHANGED vars => LoopInv'
<1> SUFFICES ASSUME LoopInv, UNCHANGED vars, pc \in {"loop", "done"} PROVE LoopInv'
  BY DEF LoopInv, vars
<1>1. UNCHANGED <<graph, order, nblk, loop, visit, pc, stack, x>>
  BY DEF vars, order
<1>2. PICK k, M, S : k = x /\ M = Marked /\ S = ToSet(stack)
  OBVIOUS
<1>m. Live' = Live /\ \A j : MarkSet(j)' = MarkSet(j)
  BY <1>1, SameMarks
<1>3. Marked' = Marked /\ \A b : Weighs(b)' = Weighs(b)
  BY <1>1, <1>m DEF Marked, Weighs
<1>4. Marking(x, Marked, ToSet(stack))'
  <2>1. Marking(k, M, S)'
    BY <1>1, <1>2, SameMarks DEF LoopInv
  <2>2. k = x' /\ M = Marked' /\ S = ToSet(stack)'
    BY <1>1, <1>2, <1>3
  <2> QED
    BY <2>1, <2>2 DEF Marking
<1>5. (\A b \in Live : loop[b] = Tens[Cardinality(Weighs(b))])'
  BY <1>1, <1>m, <1>3 DEF LoopInv, Tens
<1> QED
  BY <1>1, <1>m, <1>4, <1>5 DEF LoopInv

(* In a reducible graph the blocks whose pass marks b are the headers of   *)
(* the natural loops it is in, and there are as many numbers as blocks.    *)
LEMMA LoopsAre ==
  ASSUME Typed, Ordered, Reducible, NEW b \in Live
  PROVE  Cardinality({k \in 0..nblk - 1 : b \in MarkSet(k)})
         = Cardinality({h \in Headers : InLoop(h, b)})
<1> DEFINE K == {k \in 0..nblk - 1 : b \in MarkSet(k)}
<1> DEFINE H == {h \in Headers : InLoop(h, b)}
<1>1. /\ \A h \in Live : id[h] \in 0..nblk - 1 /\ rpo[id[h]] = h
      /\ \A j \in 0..nblk - 1 : rpo[j] \in Live /\ id[rpo[j]] = j
      /\ Headers \subseteq Live
  BY OrderedIs DEF Headers
<1>2. ASSUME NEW k \in K PROVE rpo[k] \in H
  <2>1. PICK h \in Live : h = rpo[k] /\ id[h] = k
    BY <1>1, <1>2
  <2>2. b \in MarkSet(id[h])
    BY <1>2, <2>1
  <2>3. h \in Headers /\ InLoop(h, b)
    BY <2>2, MarkedInLoop
  <2> QED
    BY <2>1, <2>3
<1>3. ASSUME NEW h \in H PROVE id[h] \in K /\ rpo[id[h]] = h
  <2>1. b \in MarkSet(id[h])
    BY <1>3, LoopIsMarked
  <2> QED
    BY <1>1, <1>3, <2>1
<1> DEFINE f == [k \in K |-> rpo[k]]
<1>4. f \in Bijection(K, H)
  <2>1. f \in [K -> H]
    BY <1>2
  <2>2. \A j, k \in K : f[j] = f[k] => j = k
    <3>1. \A j \in K : id[f[j]] = j
      BY <1>1
    <3> QED
      BY <3>1
  <2>3. \A h \in H : \E k \in K : f[k] = h
    BY <1>3
  <2> HIDE DEF K, H, f
  <2> QED
    BY <2>1, <2>2, <2>3 DEF Bijection, Injection, IsInjective, Surjection
<1>5. IsFiniteSet(K)
  BY WeighsIs
<1>6. Cardinality(K) = Cardinality(H)
  <2> HIDE DEF K, H, f
  <2> QED
    BY <1>4, <1>5, FS_Bijection DEF ExistsBijection
<1> QED
  BY <1>6

(* In the end a block of a reducible graph weighs ten for each natural     *)
(* loop it is in: loopmark multiplies once for a loop, whatever the ways   *)
(* it has back, and for no other.                                          *)
THEOREM LoopsWeighed == Spec => []LoopOK
<1>1. Init => LoopInv
  BY DEF Init, LoopInv
<1>2. IInv /\ LoopInv /\ [Next]_vars => LoopInv'
  <2> SUFFICES ASSUME IInv, LoopInv, [Next]_vars PROVE LoopInv'
    OBVIOUS
  <2>1. CASE FronDone
    BY <2>1, FronDoneMarks
  <2>2. CASE LoopMark
    BY <2>2, LoopMarkMarks
  <2>3. CASE LoopNext
    BY <2>3, LoopNextMarks
  <2>4. CASE Stopped \/ UNCHANGED vars
    BY <2>4, LoopStutters DEF Stopped
  <2>5. CASE RpoStart \/ RpoVisit \/ RpoNumber \/ RpoDone \/ SweepDead \/ SweepLive \/ FillPreds
    <3>1. pc' \in {"rpo", "sweep", "dom"}
      BY <2>5 DEF RpoStart, RpoVisit, RpoNumber, RpoDone, SweepDead, SweepLive, FillPreds
    <3> QED
      BY <3>1 DEF LoopInv
  <2>6. CASE DomBlk \/ DomAgain \/ DomDone \/ FronBlk
    <3>1. pc' \in {"dom", "fron"}
      BY <2>6 DEF DomBlk, DomAgain, DomDone, FronBlk
    <3> QED
      BY <3>1 DEF LoopInv
  <2> QED
    BY <2>1, <2>2, <2>3, <2>4, <2>5, <2>6 DEF Next, Passes
<1>3. IInv /\ LoopInv => LoopOK
  <2> SUFFICES ASSUME IInv, LoopInv, pc = "done", Reducible, NEW b \in Live
               PROVE  loop[b] = Tens[Cardinality({h \in Headers : InLoop(h, b)})]
    BY DEF LoopOK
  <2>1. /\ Typed /\ Ordered /\ x = nblk - 1 /\ stack = <<>>
        /\ Marking(x, Marked, ToSet(stack)) /\ loop[b] = Tens[Cardinality(Weighs(b))]
    BY DEF IInv, LoopInv
  <2>2. ToSet(stack) = {}
    <3>1. <<>> \in Seq(Blk) /\ Len(<<>>) = 0
      OBVIOUS
    <3>2. ToSet(<<>>) = {<<>>[j] : j \in 1..Len(<<>>)}
      BY <3>1, ListIs
    <3> QED
      BY <2>1, <3>1, <3>2
  <2>3. Marked = MarkSet(x)
    <3>1. PICK k, M : k = x /\ M = Marked
      OBVIOUS
    <3>2. Marking(k, M, {}) /\ M \in SUBSET Live
      BY <2>1, <2>2, <3>1 DEF Marked
    <3>3. M = MarkSet(k)
      BY <3>2, MarkedAll
    <3> QED
      BY <3>1, <3>3
  <2>4. Weighs(b) = {k \in 0..nblk - 1 : b \in MarkSet(k)}
    <3>1. nblk \in Nat
      BY <2>1 DEF Typed
    <3>2. \A k \in 0..nblk - 1 : k < x \/ k = x
      BY <2>1, <3>1
    <3>3. visit[b] = x <=> b \in MarkSet(x)
      BY <2>3 DEF Marked
    <3> QED
      BY <3>2, <3>3 DEF Weighs
  <2> QED
    BY <2>1, <2>4, LoopsAre
<1> QED
  BY <1>1, <1>2, <1>3, PassesInvariant, PTL DEF Spec

-----------------------------------------------------------------------------
(* Jump threading.  The forest of uffind has a rank that falls along every *)
(* link; while the empty blocks are joined the root above a block and the  *)
(* block itself always meet the same block with something to do, and a     *)
(* block joined has the root of its destination.                           *)
Roots(f) == {c \in All : f[c] = 0}
Forested(f) ==
  /\ f \in [All -> All \cup {0}]
  /\ Climbs(All, Roots(f), f)

(* The numbers of blocks.                                                  *)
LEMMA BlkFacts ==
  ASSUME NJmp \in Nat
  PROVE  /\ All = JBlk \cup {ret} /\ ret \notin JBlk
         /\ All \subseteq Nat \ {0} /\ 0 \notin All
         /\ Succ \subseteq JBlk /\ ret \in All
BY DEF All, JBlk, ret, Succ

(* uffind comes back: the root above a block is itself or its parent's.    *)
LEMMA RootIs ==
  ASSUME NJmp \in Nat, NEW f, Forested(f)
  PROVE  \A c \in All : /\ Root(f, c) \in All
                        /\ Root(f, c) = IF f[c] = 0 THEN c ELSE Root(f, f[c])
<1> DEFINE up == CHOOSE up : up = [c \in All |-> IF f[c] = 0 THEN c ELSE up[f[c]]]
<1> DEFINE base == [c \in All |-> c]
<1> DEFINE step == [c \in All |-> [v \in All |-> v]]
<1>3. base \in [All -> All] /\ step \in [All -> [All -> All]]
  OBVIOUS
<1>4. PICK u \in [All -> All] : Solves(All, Roots(f), f, base, step, u)
  <2>1. Climbs(All, Roots(f), f)
    BY DEF Forested
  <2> HIDE DEF up, base, step
  <2> QED
    BY <1>3, <2>1, ClimbRecursion
<1>5. \A c \in All : f[c] # 0 => f[c] \in All
  BY DEF Forested
<1>6. u = [c \in All |-> IF f[c] = 0 THEN c ELSE u[f[c]]]
  <2>1. ASSUME NEW c \in All PROVE u[c] = IF f[c] = 0 THEN c ELSE u[f[c]]
    BY <1>4, <1>5 DEF Roots, Solves
  <2> QED
    BY <2>1
<1>7. up = [c \in All |-> IF f[c] = 0 THEN c ELSE up[f[c]]]
  <2> HIDE DEF base, step
  <2> QED
    BY <1>6, Zenon
<1>8. \A c \in All : up[c] = IF f[c] = 0 THEN c ELSE up[f[c]]
  <2> HIDE DEF up
  <2> QED
    BY <1>7
<1>9. \A c : Root(f, c) = up[c]
  BY Zenon DEF Root
<1> HIDE DEF up
<1>10. \A c \in All : up[c] \in All
  <2> DEFINE T == {c \in All : up[c] \in All}
  <2>1. \A c \in All : (c \in Roots(f) \/ f[c] \in T) => c \in T
    BY <1>8 DEF Roots
  <2> HIDE DEF T
  <2>2. \A c \in All : c \in T
    BY <2>1, ClimbInduction DEF Forested
  <2> QED
    BY <2>2 DEF T
<1> QED
  BY <1>5, <1>8, <1>9, <1>10

(* The root above a block has nothing above it.                            *)
LEMMA RootStops ==
  ASSUME NJmp \in Nat, NEW f, Forested(f)
  PROVE  \A c \in All : f[Root(f, c)] = 0
<1> DEFINE T == {c \in All : f[Root(f, c)] = 0}
<1>1. \A c \in All : (c \in Roots(f) \/ f[c] \in T) => c \in T
  BY RootIs DEF Roots
<1>2. \A c \in All : c \in T
  <2> HIDE DEF T
  <2> QED
    BY <1>1, ClimbInduction DEF Forested
<1> QED
  BY <1>2

(* Whatever climbs to the top like uffind finds what uffind finds.         *)
LEMMA RootUnique ==
  ASSUME NJmp \in Nat, NEW f, Forested(f), NEW w,
         \A c \in All : /\ f[c] = 0 => w[c] = c
                        /\ f[c] # 0 => w[c] = w[f[c]]
  PROVE  \A c \in All : Root(f, c) = w[c]
<1> DEFINE T == {c \in All : Root(f, c) = w[c]}
<1>1. \A c \in All : (c \in Roots(f) \/ f[c] \in T) => c \in T
  BY RootIs DEF Roots
<1>2. \A c \in All : c \in T
  <2> HIDE DEF T
  <2> QED
    BY <1>1, ClimbInduction DEF Forested
<1> QED
  BY <1>2

(* The path uffind shortens: the blocks on the way up to the root.         *)
LEMMA PathIs ==
  ASSUME NJmp \in Nat, NEW f, Forested(f)
  PROVE  \A c \in All : \A d \in Path(f, c) :
           d \in All /\ f[d] # 0 /\ Root(f, d) = Root(f, c)
<1> DEFINE up == CHOOSE up : up = [c \in All |-> IF f[c] = 0 THEN {} ELSE {c} \cup up[f[c]]]
<1> DEFINE base == [c \in All |-> {}]
<1> DEFINE step == [c \in All |-> [v \in SUBSET All |-> {c} \cup v]]
<1>1. base \in [All -> SUBSET All] /\ step \in [All -> [SUBSET All -> SUBSET All]]
  OBVIOUS
<1>2. PICK u \in [All -> SUBSET All] : Solves(All, Roots(f), f, base, step, u)
  <2>1. Climbs(All, Roots(f), f)
    BY DEF Forested
  <2> HIDE DEF up, base, step
  <2> QED
    BY <1>1, <2>1, ClimbRecursion
<1>3. \A c \in All : f[c] # 0 => f[c] \in All
  BY DEF Forested
<1>4. u = [c \in All |-> IF f[c] = 0 THEN {} ELSE {c} \cup u[f[c]]]
  <2>1. ASSUME NEW c \in All PROVE u[c] = IF f[c] = 0 THEN {} ELSE {c} \cup u[f[c]]
    <3>1. CASE f[c] = 0
      BY <1>2, <3>1 DEF Roots, Solves
    <3>2. CASE f[c] # 0
      <4>1. u[f[c]] \in SUBSET All
        BY <1>3, <3>2
      <4>2. u[c] = step[c][u[f[c]]]
        BY <1>2, <3>2 DEF Roots, Solves
      <4> QED
        BY <3>2, <4>1, <4>2
    <3> QED
      BY <3>1, <3>2
  <2> QED
    BY <2>1
<1>5. up = [c \in All |-> IF f[c] = 0 THEN {} ELSE {c} \cup up[f[c]]]
  <2> HIDE DEF base, step
  <2> QED
    BY <1>4, Zenon
<1>6. \A c \in All : up[c] = IF f[c] = 0 THEN {} ELSE {c} \cup up[f[c]]
  <2> HIDE DEF up
  <2> QED
    BY <1>5
<1>7. \A c : Path(f, c) = up[c]
  BY Zenon DEF Path
<1> HIDE DEF up
<1> DEFINE T == {c \in All : \A d \in up[c] : d \in All /\ f[d] # 0 /\ Root(f, d) = Root(f, c)}
<1>8. \A c \in All : (c \in Roots(f) \/ f[c] \in T) => c \in T
  <2> SUFFICES ASSUME NEW c \in All, c \in Roots(f) \/ f[c] \in T PROVE c \in T
    OBVIOUS
  <2>1. CASE f[c] = 0
    BY <1>6, <2>1
  <2>2. CASE f[c] # 0
    <3>1. f[c] \in T /\ Root(f, c) = Root(f, f[c])
      BY <2>2, RootIs DEF Roots
    <3>2. up[c] = {c} \cup up[f[c]]
      BY <1>6, <2>2
    <3> QED
      BY <2>2, <3>1, <3>2
  <2> QED
    BY <2>1, <2>2
<1>9. \A c \in All : c \in T
  <2> HIDE DEF T
  <2> QED
    BY <1>8, ClimbInduction DEF Forested
<1> QED
  BY <1>7, <1>9

(* uffind leaves a forest in which every block has the root it had, and    *)
(* the same blocks are roots.                                              *)
LEMMA ShortenedKeeps ==
  ASSUME NJmp \in Nat, NEW f, Forested(f), NEW b \in All
  PROVE  /\ Forested(Shortened(f, b))
         /\ \A c \in All : /\ Shortened(f, b)[c] = 0 <=> f[c] = 0
                           /\ Root(Shortened(f, b), c) = Root(f, c)
<1> DEFINE g == Shortened(f, b)
<1>1. \A c \in All : g[c] = IF c \in Path(f, b) THEN Root(f, b) ELSE f[c]
  BY DEF Shortened
<1>2. \A c \in All : c \in Path(f, b) => f[c] # 0 /\ g[c] = Root(f, c)
  BY <1>1, PathIs
<1>3. \A c \in All : g[c] # f[c] => f[c] # 0 /\ g[c] = Root(f, c)
  BY <1>1, <1>2
<1>4. /\ f \in [All -> All \cup {0}]
      /\ \A c \in All : Root(f, c) \in All /\ f[Root(f, c)] = 0
      /\ \A c \in All : Root(f, c) = IF f[c] = 0 THEN c ELSE Root(f, f[c])
      /\ 0 \notin All
  BY RootIs, RootStops, BlkFacts DEF Forested
<1>5. g \in [All -> All \cup {0}]
  BY <1>4 DEF Shortened
<1> HIDE DEF g
<1>6. \A c \in All : g[c] = 0 <=> f[c] = 0
  BY <1>3, <1>4
<1>7. Climbs(All, Roots(g), g)
  <2>1. PICK m \in Nat : \E h \in [All -> 0..m] : Falls(All, Roots(f), f, h)
    BY DEF Forested, Climbs
  <2>2. PICK h \in [All -> 0..m] : Falls(All, Roots(f), f, h)
    BY <2>1
  <2>3. \A c \in All : f[c] # 0 => f[c] \in All /\ h[f[c]] < h[c]
    BY <2>2 DEF Falls, Roots
  <2> DEFINE T == {c \in All : h[Root(f, c)] <= h[c]}
  <2>4. \A c \in All : h[c] \in Int
    OBVIOUS
  <2>5. \A c \in All : (c \in Roots(f) \/ f[c] \in T) => c \in T
    BY <1>4, <2>3, <2>4 DEF Roots
  <2>6. \A c \in All : c \in T
    <3> HIDE DEF T
    <3> QED
      BY <2>5, ClimbInduction DEF Forested
  <2>7. \A c \in All : f[c] # 0 => h[Root(f, c)] < h[c]
    BY <1>4, <2>3, <2>4, <2>6
  <2>8. ASSUME NEW c \in All \ Roots(g) PROVE g[c] \in All /\ h[g[c]] < h[c]
    BY <1>3, <1>4, <1>6, <2>3, <2>7 DEF Roots
  <2>9. Falls(All, Roots(g), g, h)
    BY <2>8 DEF Falls
  <2> QED
    BY <2>9 DEF Climbs
<1>8. Forested(g)
  BY <1>5, <1>7 DEF Forested
<1>9. \A c \in All : Root(g, c) = Root(f, c)
  <2> DEFINE w == [c \in All |-> Root(f, c)]
  <2>1. ASSUME NEW c \in All PROVE /\ g[c] = 0 => w[c] = c
                                   /\ g[c] # 0 => w[c] = w[g[c]]
    <3>1. g[c] # 0 => g[c] \in All
      BY <1>5
    <3>2. g[c] = f[c] \/ g[c] = Root(f, c)
      BY <1>3
    <3> QED
      BY <1>4, <1>6, <3>1, <3>2
  <2> HIDE DEF w
  <2>2. \A c \in All : Root(g, c) = w[c]
    BY <1>8, <2>1, RootUnique
  <2> QED
    BY <2>2 DEF w
<1> QED
  BY <1>6, <1>8, <1>9 DEF g

(* Joining the root b to the tree of d leaves a forest in which what b was *)
(* the root of has the root of d, unless that is b: then nothing moves.    *)
LEMMA JoinedKeeps ==
  ASSUME NJmp \in Nat, Forested(uf), NEW b \in All, NEW d \in All, uf[b] = 0
  PROVE  /\ Forested(Joined(b, d))
         /\ \A c \in All :
              /\ Root(Joined(b, d), c) =
                   IF Root(uf, c) = b THEN Root(uf, d) ELSE Root(uf, c)
              /\ Joined(b, d)[c] # 0 => uf[c] # 0 \/ c = b
<1> DEFINE f == Shortened(uf, d)
<1> DEFINE r == Root(uf, d)
<1> DEFINE g == Joined(b, d)
<1>1. /\ Forested(f)
      /\ \A c \in All : /\ f[c] = 0 <=> uf[c] = 0
                        /\ Root(f, c) = Root(uf, c)
  BY ShortenedKeeps
<1>2. g = IF r = b THEN f ELSE [f EXCEPT ![b] = r]
  BY DEF Joined
<1>3. /\ r \in All /\ uf[r] = 0 /\ Root(uf, r) = r /\ Root(uf, b) = b
      /\ 0 \notin All
  BY RootIs, RootStops, BlkFacts
<1> HIDE DEF f, r, g
<1>4. CASE r = b
  BY <1>1, <1>2, <1>3, <1>4 DEF f, r, g
<1>5. CASE r # b
  <2>1. /\ f \in [All -> All \cup {0}]
        /\ g = [f EXCEPT ![b] = r]
        /\ \A c \in All : f[c] # 0 => f[c] \in All /\ Root(uf, f[c]) = Root(uf, c)
    BY <1>1, <1>2, <1>5, RootIs DEF Forested
  <2>2. /\ g \in [All -> All \cup {0}]
        /\ g[b] = r
        /\ \A c \in All : c # b => g[c] = f[c]
    BY <1>3, <2>1
  <2>3. Climbs(All, Roots(g), g)
    <3>1. PICK m \in Nat : \E h \in [All -> 0..m] : Falls(All, Roots(f), f, h)
      BY <1>1 DEF Forested, Climbs
    <3>2. PICK h \in [All -> 0..m] : Falls(All, Roots(f), f, h)
      BY <3>1
    <3> DEFINE k == [c \in All |-> IF Root(uf, c) = b THEN h[c] + m + 1 ELSE h[c]]
    <3>3. k \in [All -> 0..(2 * m + 1)] /\ 2 * m + 1 \in Nat
      OBVIOUS
    <3>4. \A c \in All : h[c] \in 0..m
      OBVIOUS
    <3>5. ASSUME NEW c \in All \ Roots(g) PROVE g[c] \in All /\ k[g[c]] < k[c]
      <4>1. CASE c = b
        <5>1. k[b] = h[b] + m + 1 /\ k[r] = h[r]
          BY <1>3, <1>5
        <5> QED
          BY <1>3, <2>2, <3>4, <4>1, <5>1
      <4>2. CASE c # b
        <5>1. g[c] = f[c] /\ f[c] # 0 /\ f[c] \in All
          BY <2>1, <2>2, <4>2 DEF Roots
        <5>2. Root(uf, f[c]) = Root(uf, c)
          BY <2>1, <5>1
        <5>3. h[f[c]] < h[c]
          BY <3>2, <5>1 DEF Falls, Roots
        <5>4. h[f[c]] \in Int /\ h[c] \in Int
          BY <3>4, <5>1
        <5> QED
          BY <5>1, <5>2, <5>3, <5>4
      <4> QED
        BY <4>1, <4>2
    <3> HIDE DEF k
    <3>6. Falls(All, Roots(g), g, k)
      BY <3>5 DEF Falls
    <3> QED
      BY <3>3, <3>6 DEF Climbs
  <2>4. Forested(g)
    BY <2>2, <2>3 DEF Forested
  <2>5. \A c \in All : Root(g, c) = IF Root(uf, c) = b THEN r ELSE Root(uf, c)
    <3> DEFINE w == [c \in All |-> IF Root(uf, c) = b THEN r ELSE Root(uf, c)]
    <3>1. ASSUME NEW c \in All PROVE /\ g[c] = 0 => w[c] = c
                                     /\ g[c] # 0 => w[c] = w[g[c]]
      <4>1. CASE c = b
        BY <1>3, <1>5, <2>2, <4>1
      <4>2. CASE c # b
        <5>1. g[c] = f[c] /\ (f[c] = 0 => Root(uf, c) = c)
          BY <1>1, <2>2, <4>2, RootIs
        <5> QED
          BY <2>1, <4>2, <5>1
      <4> QED
        BY <4>1, <4>2
    <3> HIDE DEF w
    <3>2. \A c \in All : Root(g, c) = w[c]
      BY <2>4, <3>1, RootUnique
    <3> QED
      BY <3>2 DEF w
  <2>6. \A c \in All : g[c] # 0 => uf[c] # 0 \/ c = b
    BY <1>1, <2>2
  <2> QED
    BY <2>4, <2>5, <2>6 DEF g, r
<1> QED
  BY <1>4, <1>5

-----------------------------------------------------------------------------
(* Running through the empty blocks of a graph g: one block further on.    *)
Onward(g) ==
  [c \in All |-> IF ~Idle(c) THEN c ELSE IF g.jmp[c] = "ret0" THEN ret ELSE g.to1[c]]
Runs(g, b, m, r) == Orbit(Onward(g), b, m, r)

(* What b meets is where any run from b is after ret steps.                *)
LEMMA MeetsAt ==
  ASSUME NJmp \in Nat, NEW g, Onward(g) \in [All -> All], NEW b \in All,
         NEW m \in Nat, ret <= m, NEW r \in [0..m -> All], Runs(g, b, m, r)
  PROVE  Meets(g, b) = IF Idle(r[ret]) THEN 0 ELSE r[ret]
<1> DEFINE On(c) == IF ~Idle(c) THEN c ELSE IF g.jmp[c] = "ret0" THEN ret ELSE g.to1[c]
<1> DEFINE run == CHOOSE run : run =
             [k \in 0..ret |-> IF k = 0 THEN b ELSE On(run[k - 1])]
<1> DEFINE q == [k \in 0..ret |-> r[k]]
<1>1. ret \in Nat /\ 0..ret \subseteq 0..m /\ 0 \in 0..ret
  BY DEF ret
<1>2. \A k \in 1..ret : k \in 0..ret /\ k - 1 \in 0..ret /\ k \in 1..m /\ k # 0
  BY <1>1
<1>3. \A c \in All : Onward(g)[c] = On(c)
  BY DEF Onward
<1> HIDE DEF On
<1>4. q[0] = b /\ \A k \in 1..ret : q[k] = On(q[k - 1])
  <2>1. q[0] = b
    BY <1>1 DEF Runs, Orbit
  <2>2. ASSUME NEW k \in 1..ret PROVE q[k] = On(q[k - 1])
    <3>1. q[k] = r[k] /\ q[k - 1] = r[k - 1] /\ r[k - 1] \in All
      BY <1>1, <1>2
    <3>2. r[k] = Onward(g)[r[k - 1]]
      BY <1>2 DEF Runs, Orbit
    <3> QED
      BY <1>3, <3>1, <3>2
  <2> QED
    BY <2>1, <2>2
<1>5. q = [k \in 0..ret |-> IF k = 0 THEN b ELSE On(q[k - 1])]
  <2>1. ASSUME NEW k \in 0..ret PROVE q[k] = IF k = 0 THEN b ELSE On(q[k - 1])
    <3>1. k = 0 \/ k \in 1..ret
      BY <1>1
    <3> HIDE DEF q
    <3> QED
      BY <1>2, <1>4, <3>1
  <2>2. q = [k \in 0..ret |-> q[k]]
    OBVIOUS
  <2> HIDE DEF q
  <2> QED
    BY <2>1, <2>2
<1>6. run = [k \in 0..ret |-> IF k = 0 THEN b ELSE On(run[k - 1])]
  <2> HIDE DEF q
  <2> QED
    BY <1>5, Zenon
<1>7. run[0] = b /\ \A k \in 1..ret : run[k] = On(run[k - 1])
  <2> HIDE DEF run
  <2> QED
    BY <1>1, <1>2, <1>6
<1>8. Meets(g, b) = IF Idle(run[ret]) THEN 0 ELSE run[ret]
  BY Zenon DEF Meets, On
<1>9. run[ret] = q[ret]
  <2> DEFINE S == {k \in 0..ret : run[k] = q[k]}
  <2> HIDE DEF run, q
  <2>1. 0 \in S
    BY <1>1, <1>4, <1>7
  <2>2. \A k \in 1..ret : k - 1 \in S => k \in S
    BY <1>2, <1>4, <1>7
  <2> HIDE DEF S
  <2>3. \A k \in 0..ret : k \in S
    BY <1>1, <2>1, <2>2, UpTo
  <2> QED
    BY <1>1, <2>3 DEF S
<1>10. q[ret] = r[ret]
  BY <1>1
<1> HIDE DEF run, q
<1> QED
  BY <1>8, <1>9, <1>10

(* Such a run exists.                                                      *)
LEMMA RunExists ==
  ASSUME NEW g, Onward(g) \in [All -> All], NEW b \in All, NEW m \in Nat
  PROVE  \E r \in [0..m -> All] : Runs(g, b, m, r)
BY OrbitExists DEF Runs

(* A block with something to do meets itself; no other block is met.       *)
LEMMA MeetsSelf ==
  ASSUME NJmp \in Nat, NEW g, Onward(g) \in [All -> All], NEW b \in All
  PROVE  /\ ~Idle(b) => Meets(g, b) = b
         /\ Meets(g, b) # 0 => Meets(g, b) \in All /\ ~Idle(Meets(g, b))
<1>1. ret \in Nat /\ ret <= ret /\ ret \in 0..ret
  BY DEF ret
<1>2. PICK r \in [0..ret -> All] : Runs(g, b, ret, r)
  BY <1>1, RunExists
<1>3. Meets(g, b) = IF Idle(r[ret]) THEN 0 ELSE r[ret]
  BY <1>1, <1>2, MeetsAt
<1>4. ASSUME ~Idle(b) PROVE r[ret] = b
  <2> DEFINE S == {k \in 0..ret : r[k] = b}
  <2>1. 0 \in S
    BY <1>1, <1>2 DEF Runs, Orbit
  <2>2. \A k \in 1..ret : k - 1 \in S => k \in S
    <3> SUFFICES ASSUME NEW k \in 1..ret, r[k - 1] = b PROVE r[k] = b
      BY <1>1
    <3>1. Onward(g)[b] = b
      BY <1>4 DEF Onward
    <3>2. r[k] = Onward(g)[r[k - 1]]
      BY <1>2 DEF Runs, Orbit
    <3> QED
      BY <3>1, <3>2
  <2> HIDE DEF S
  <2>3. \A k \in 0..ret : k \in S
    BY <1>1, <2>1, <2>2, UpTo
  <2> QED
    BY <1>1, <2>3 DEF S
<1>5. r[ret] \in All
  BY <1>1
<1> QED
  BY <1>3, <1>4, <1>5

(* What is met from every block from which anything is: if it holds of the *)
(* blocks with something to do and passes back over an empty block.        *)
LEMMA MeetsInduction ==
  ASSUME NJmp \in Nat, NEW g, Onward(g) \in [All -> All], NEW T,
         \A c \in All : ~Idle(c) => c \in T,
         \A c \in All : Onward(g)[c] \in T => c \in T
  PROVE  \A c \in All : Meets(g, c) # 0 => c \in T
<1> SUFFICES ASSUME NEW b \in All, Meets(g, b) # 0 PROVE b \in T
  OBVIOUS
<1>1. ret \in Nat /\ ret <= ret /\ ret \in 0..ret /\ 0 \in 0..ret
  BY DEF ret
<1>2. PICK r \in [0..ret -> All] : Runs(g, b, ret, r)
  BY <1>1, RunExists
<1>3. ~Idle(r[ret])
  BY <1>1, <1>2, MeetsAt
<1> DEFINE S == {k \in 0..ret : r[k] \in T}
<1>4. ret \in S
  BY <1>1, <1>3
<1>5. \A k \in 1..ret : k \in S => k - 1 \in S
  <2> SUFFICES ASSUME NEW k \in 1..ret, k \in S PROVE k - 1 \in S
    OBVIOUS
  <2>1. k - 1 \in 0..ret /\ r[k - 1] \in All
    BY <1>1
  <2>2. r[k] = Onward(g)[r[k - 1]]
    BY <1>2 DEF Runs, Orbit
  <2> QED
    BY <2>1, <2>2
<1>6. \A k \in 0..ret : k \in S
  <2> HIDE DEF S
  <2> QED
    BY <1>1, <1>4, <1>5, DownFrom
<1>7. r[0] = b
  BY <1>2 DEF Runs, Orbit
<1> QED
  BY <1>1, <1>6, <1>7

(* A block that jumps to itself and does nothing else meets nothing.       *)
LEMMA MeetsNothing ==
  ASSUME NJmp \in Nat, NEW g, Onward(g) \in [All -> All], NEW b \in All,
         Idle(b), Onward(g)[b] = b
  PROVE  Meets(g, b) = 0
<1> DEFINE T == All \ {b}
<1>1. \A c \in All : ~Idle(c) => c \in T
  OBVIOUS
<1>2. \A c \in All : Onward(g)[c] \in T => c \in T
  OBVIOUS
<1>3. b \notin T
  OBVIOUS
<1> HIDE DEF T
<1>4. \A c \in All : Meets(g, c) # 0 => c \in T
  BY <1>1, <1>2, MeetsInduction
<1> QED
  BY <1>3, <1>4

(* Meets is the same one block further on: there are fewer empty blocks    *)
(* than steps, so a run that has not left them by then goes in a circle.   *)
LEMMA MeetsOnward ==
  ASSUME NJmp \in Nat, NEW g, Onward(g) \in [All -> All], NEW b \in All
  PROVE  Meets(g, Onward(g)[b]) = Meets(g, b)
<1>1. /\ ret \in Nat /\ ret + 1 \in Nat /\ ret = NJmp + 1
      /\ ret <= ret /\ ret <= ret + 1
      /\ ret \in 0..ret + 1 /\ ret + 1 \in 0..ret + 1
  BY DEF ret
<1>2. PICK r \in [0..ret + 1 -> All] : Runs(g, b, ret + 1, r)
  BY <1>1, RunExists
<1>3. /\ r[0] = b
      /\ \A k \in 1..ret + 1 : r[k] = Onward(g)[r[k - 1]] /\ k - 1 \in 0..ret + 1
  BY <1>1, <1>2 DEF Runs, Orbit
<1>4. \A k \in 0..ret + 1 : r[k] \in All
  OBVIOUS
<1>5. Meets(g, b) = IF Idle(r[ret]) THEN 0 ELSE r[ret]
  BY <1>1, <1>2, MeetsAt
<1>6. Meets(g, Onward(g)[b]) = IF Idle(r[ret + 1]) THEN 0 ELSE r[ret + 1]
  <2> DEFINE q == [k \in 0..ret |-> r[k + 1]]
  <2>1. q \in [0..ret -> All] /\ q[ret] = r[ret + 1]
    BY <1>1, <1>4
  <2>2. Onward(g)[b] \in All
    OBVIOUS
  <2>3. Runs(g, Onward(g)[b], ret, q)
    <3>1. q[0] = r[1] /\ r[1] = Onward(g)[b]
      BY <1>1, <1>3
    <3>2. ASSUME NEW k \in 1..ret PROVE q[k] = Onward(g)[q[k - 1]]
      <4>1. /\ k \in 0..ret /\ k - 1 \in 0..ret /\ k - 1 + 1 = k
            /\ k + 1 \in 1..ret + 1 /\ k + 1 - 1 = k
        BY <1>1
      <4> QED
        BY <1>3, <4>1
    <3> HIDE DEF q
    <3> QED
      BY <3>1, <3>2 DEF Runs, Orbit
  <2> HIDE DEF q
  <2> QED
    BY <1>1, <2>1, <2>2, <2>3, MeetsAt
<1>7. CASE ~Idle(r[ret])
  <2>1. r[ret + 1] = Onward(g)[r[ret]]
    BY <1>1, <1>3
  <2> QED
    BY <1>1, <1>4, <1>5, <1>6, <1>7, <2>1 DEF Onward
<1>8. CASE Idle(r[ret])
  <2>1. \A k \in 0..ret : Idle(r[k])
    <3> DEFINE S == {k \in 0..ret : Idle(r[k])}
    <3>1. ret \in S
      BY <1>1, <1>8
    <3>2. \A k \in 1..ret : k \in S => k - 1 \in S
      <4> SUFFICES ASSUME NEW k \in 1..ret, Idle(r[k]) PROVE Idle(r[k - 1])
        BY <1>1
      <4>1. k \in 1..ret + 1 /\ r[k - 1] \in All
        BY <1>1, <1>4
      <4> QED
        BY <1>3, <4>1 DEF Onward
    <3> HIDE DEF S
    <3>3. \A k \in 0..ret : k \in S
      BY <1>1, <3>1, <3>2, DownFrom
    <3> QED
      BY <3>3 DEF S
  <2>2. PICK x1, x2 \in 0..NJmp : x1 # x2 /\ r[x1] = r[x2]
    <3> DEFINE f == [k \in 0..NJmp |-> r[k]]
    <3>1. f \in [0..NJmp -> JBlk]
      <4> SUFFICES ASSUME NEW k \in 0..NJmp PROVE r[k] \in JBlk
        OBVIOUS
      <4>1. k \in 0..ret /\ k \in 0..ret + 1
        BY <1>1
      <4> QED
        BY <1>4, <2>1, <4>1, BlkFacts DEF Idle
    <3>2. /\ IsFiniteSet(0..NJmp) /\ Cardinality(0..NJmp) = NJmp + 1
          /\ IsFiniteSet(JBlk) /\ Cardinality(JBlk) = NJmp
      BY FS_Interval DEF JBlk
    <3>3. Cardinality(JBlk) < Cardinality(0..NJmp)
      BY <3>2
    <3>4. PICK y1, y2 \in 0..NJmp : y1 # y2 /\ f[y1] = f[y2]
      <4> HIDE DEF f
      <4> QED
        BY <3>1, <3>2, <3>3, FS_PigeonHole
    <3> QED
      BY <3>4
  <2>3. PICK i, j \in 0..NJmp : i < j /\ r[i] = r[j]
    BY <2>2
  <2>4. \A t \in 0..(ret + 1 - j) : r[i + t] = r[j + t]
    <3> DEFINE S == {t \in 0..(ret + 1 - j) : r[i + t] = r[j + t]}
    <3>1. ret + 1 - j \in Nat /\ 0 \in S
      BY <1>1, <2>3
    <3>2. \A t \in 1..(ret + 1 - j) : t - 1 \in S => t \in S
      <4> SUFFICES ASSUME NEW t \in 1..(ret + 1 - j), r[i + (t - 1)] = r[j + (t - 1)]
                   PROVE  r[i + t] = r[j + t]
        OBVIOUS
      <4>1. /\ i + t \in 1..ret + 1 /\ j + t \in 1..ret + 1
            /\ (i + t) - 1 = i + (t - 1) /\ (j + t) - 1 = j + (t - 1)
        BY <1>1, <2>3
      <4> QED
        BY <1>3, <4>1
    <3> HIDE DEF S
    <3>3. \A t \in 0..(ret + 1 - j) : t \in S
      BY <3>1, <3>2, UpTo
    <3> QED
      BY <3>3 DEF S
  <2>5. Idle(r[ret + 1])
    <3>1. /\ ret + 1 - j \in 0..(ret + 1 - j)
          /\ j + (ret + 1 - j) = ret + 1
          /\ i + (ret + 1 - j) \in 0..ret
      BY <1>1, <2>3
    <3> QED
      BY <2>1, <2>4, <3>1
  <2> QED
    BY <1>5, <1>6, <1>8, <2>5
<1> QED
  BY <1>7, <1>8

-----------------------------------------------------------------------------
(* Climbing a ranked forest ends within as many steps as there are blocks. *)
LEMMA ForestEnds ==
  ASSUME NJmp \in Nat, Forested(uf), NEW b \in All
  PROVE  LET up[k \in 0..ret] == IF k = 0 THEN b
                                 ELSE IF up[k - 1] = 0 THEN 0 ELSE uf[up[k - 1]]
         IN up[ret] = 0
<1> DEFINE On(c) == IF c = 0 THEN 0 ELSE uf[c]
<1> DEFINE next == [c \in All \cup {0} |-> On(c)]
<1> DEFINE up == CHOOSE up : up = [k \in 0..ret |-> IF k = 0 THEN b ELSE On(up[k - 1])]
<1>1. /\ ret \in Nat /\ ret = NJmp + 1 /\ ret \in 0..ret /\ 0 \in 0..ret
      /\ \A k \in 1..ret : k \in 0..ret /\ k - 1 \in 0..ret /\ k # 0
  BY DEF ret
<1>2. next \in [All \cup {0} -> All \cup {0}] /\ b \in All \cup {0}
  BY DEF Forested
<1>3. PICK r \in [0..ret -> All \cup {0}] : Orbit(next, b, ret, r)
  <2> HIDE DEF next
  <2> QED
    BY <1>1, <1>2, OrbitExists
<1>4. r[0] = b /\ \A k \in 1..ret : r[k] = On(r[k - 1])
  BY <1>1, <1>3 DEF Orbit
<1> HIDE DEF On, next
<1>5. r = [k \in 0..ret |-> IF k = 0 THEN b ELSE On(r[k - 1])]
  <2>1. ASSUME NEW k \in 0..ret PROVE r[k] = IF k = 0 THEN b ELSE On(r[k - 1])
    <3>1. k = 0 \/ k \in 1..ret
      BY <1>1
    <3> QED
      BY <1>1, <1>4, <3>1
  <2> QED
    BY <2>1
<1>6. up = [k \in 0..ret |-> IF k = 0 THEN b ELSE On(up[k - 1])]
  BY <1>5, Zenon
<1>7. up[0] = b /\ \A k \in 1..ret : up[k] = On(up[k - 1])
  <2> HIDE DEF up
  <2> QED
    BY <1>1, <1>6
<1> HIDE DEF up
<1>8. up[ret] = r[ret]
  <2> DEFINE S == {k \in 0..ret : up[k] = r[k]}
  <2>1. 0 \in S
    BY <1>1, <1>4, <1>7
  <2>2. \A k \in 1..ret : k - 1 \in S => k \in S
    BY <1>1, <1>4, <1>7
  <2> HIDE DEF S
  <2>3. \A k \in 0..ret : k \in S
    BY <1>1, <2>1, <2>2, UpTo
  <2> QED
    BY <1>1, <2>3 DEF S
<1>9. ASSUME r[ret] # 0 PROVE FALSE
  <2>1. \A k \in 0..ret : r[k] # 0
    <3> DEFINE S == {k \in 0..ret : r[k] # 0}
    <3>1. ret \in S
      BY <1>1, <1>9
    <3>2. \A k \in 1..ret : k \in S => k - 1 \in S
      BY <1>1, <1>4 DEF On
    <3> HIDE DEF S
    <3>3. \A k \in 0..ret : k \in S
      BY <1>1, <3>1, <3>2, DownFrom
    <3> QED
      BY <3>3 DEF S
  <2>2. \A k \in 0..ret : r[k] \in All
    BY <2>1
  <2>3. PICK i, j \in 0..ret : i < j /\ r[i] = r[j]
    <3> DEFINE f == [k \in 0..ret |-> r[k]]
    <3>1. f \in [0..ret -> All]
      BY <2>2
    <3>2. /\ IsFiniteSet(0..ret) /\ Cardinality(0..ret) = ret + 1
          /\ IsFiniteSet(All) /\ Cardinality(All) = ret
      BY <1>1, FS_Interval DEF All
    <3>3. PICK y1, y2 \in 0..ret : y1 # y2 /\ f[y1] = f[y2]
      <4>1. Cardinality(All) < Cardinality(0..ret)
        BY <1>1, <3>2
      <4>2. IsFiniteSet(0..ret) /\ IsFiniteSet(All)
        BY <3>2
      <4> HIDE DEF f
      <4> QED
        BY <3>1, <4>1, <4>2, FS_PigeonHole, ZenonT(30)
    <3> QED
      BY <1>1, <3>3
  <2>4. PICK m \in Nat : \E h \in [All -> 0..m] : Falls(All, Roots(uf), uf, h)
    BY DEF Forested, Climbs
  <2>5. PICK h \in [All -> 0..m] : Falls(All, Roots(uf), uf, h)
    BY <2>4
  <2>6. \A k \in 1..ret : h[r[k]] < h[r[k - 1]]
    <3> SUFFICES ASSUME NEW k \in 1..ret PROVE h[r[k]] < h[r[k - 1]]
      OBVIOUS
    <3>1. r[k] = uf[r[k - 1]] /\ r[k] # 0 /\ r[k - 1] \in All
      BY <1>1, <1>4, <2>1, <2>2 DEF On
    <3> QED
      BY <2>5, <3>1 DEF Falls, Roots
  <2>7. \A k \in 0..ret : h[r[k]] \in Int
    BY <2>2
  <2> DEFINE S == {t \in 0..j - i - 1 : h[r[i + 1 + t]] < h[r[i]]}
  <2>8. j - i - 1 \in Nat /\ i + 1 \in 1..ret
    BY <1>1, <2>3
  <2>9. 0 \in S
    <3>1. i + 1 - 1 = i /\ i + 1 + 0 = i + 1
      BY <2>3
    <3> QED
      BY <2>6, <2>8, <3>1
  <2>10. \A t \in 1..j - i - 1 : t - 1 \in S => t \in S
    <3> SUFFICES ASSUME NEW t \in 1..j - i - 1, h[r[i + 1 + (t - 1)]] < h[r[i]]
                 PROVE  h[r[i + 1 + t]] < h[r[i]]
      OBVIOUS
    <3>1. /\ i + 1 + t \in 1..ret /\ i + 1 + t \in 0..ret
          /\ (i + 1 + t) - 1 = i + 1 + (t - 1) /\ i + 1 + (t - 1) \in 0..ret
      BY <1>1, <2>3
    <3>2. h[r[i + 1 + t]] < h[r[i + 1 + (t - 1)]]
      BY <2>6, <3>1
    <3> QED
      BY <2>7, <3>1, <3>2
  <2>11. \A t \in 0..j - i - 1 : t \in S
    <3> HIDE DEF S
    <3> QED
      BY <2>8, <2>9, <2>10, UpTo
  <2>12. j - i - 1 \in S /\ i + 1 + (j - i - 1) = j
    <3>1. j - i - 1 \in 0..j - i - 1 /\ i + 1 + (j - i - 1) = j
      BY <1>1, <2>3
    <3> HIDE DEF S
    <3> QED
      BY <2>11, <3>1
  <2> QED
    BY <2>3, <2>7, <2>12
<1> QED
  BY <1>8, <1>9, Zenon DEF up, On

-----------------------------------------------------------------------------
(* The inductive invariant.  Where the jump of b goes in the graph found:  *)
FDest(b) == IF found.jmp[b] = "ret0" THEN ret ELSE found.to1[b]
FJmp(b) == IF found.jmp[b] = "ret0" THEN "jmp" ELSE found.jmp[b]

FoundOK ==
  /\ found.jmp \in [JBlk -> {"ret0", "jmp", "jnz"}]
  /\ found.to1 \in [JBlk -> JBlk \cup {0}] /\ found.to2 \in [JBlk -> JBlk \cup {0}]
  /\ \A b \in JBlk :
       /\ found.jmp[b] = "ret0" => found.to1[b] = 0 /\ found.to2[b] = 0
       /\ found.jmp[b] = "jmp" => found.to1[b] \in JBlk /\ found.to2[b] = 0
       /\ found.jmp[b] = "jnz" => found.to1[b] \in JBlk /\ found.to2[b] \in JBlk

(* A block neither loop has come to, one the first has been through, and   *)
(* one the second has.                                                     *)
Untouched(b) ==
  jmp[b] = found.jmp[b] /\ to1[b] = found.to1[b] /\ to2[b] = found.to2[b] /\ uf[b] = 0

Threads(b) == Idle(b) => Root(uf, b) = Root(uf, FDest(b))

AfterJoin(b) ==
  /\ jmp[b] = FJmp(b)
  /\ to1[b] \in All /\ Root(uf, to1[b]) = Root(uf, FDest(b))
  /\ to2[b] = found.to2[b]
  /\ Threads(b)

AfterResolve(b) ==
  /\ to1[b] = Root(uf, FDest(b))
  /\ LET d2 == Root(uf, found.to2[b])
     IN IF found.to2[b] = 0 THEN to2[b] = 0 /\ jmp[b] = FJmp(b)
        ELSE IF to1[b] = d2 THEN to2[b] = 0 /\ jmp[b] = "jmp"
        ELSE to2[b] = d2 /\ jmp[b] = FJmp(b)
  /\ Threads(b)

UfOK ==
  /\ Forested(uf)
  /\ \A c \in All : uf[c] # 0 => Idle(c)
  /\ \A c \in All : Meets(found, Root(uf, c)) = Meets(found, c)

JmpIInv ==
  /\ ThreadTypeOK /\ FoundOK /\ UfOK
  /\ jpc = "join" => \A b \in JBlk : IF b < jx THEN AfterJoin(b) ELSE Untouched(b)
  /\ jpc = "resolve" => \A b \in JBlk : IF b < jx THEN AfterResolve(b) ELSE AfterJoin(b)
  /\ jpc = "done" => \A b \in JBlk : AfterResolve(b)

(* Every jump of the graph found has somewhere to go.                      *)
LEMMA FDestIs ==
  ASSUME NJmp \in Nat, FoundOK
  PROVE  /\ \A b \in JBlk : FDest(b) \in All
         /\ Onward(found) \in [All -> All]
         /\ \A b \in All : Idle(b) => b \in JBlk /\ Onward(found)[b] = FDest(b)
<1>1. \A b \in JBlk : FDest(b) \in All
  BY BlkFacts DEF FoundOK, FDest
<1>2. \A b \in All : Idle(b) => b \in JBlk
  BY BlkFacts DEF Idle
<1>3. \A b \in All : Onward(found)[b] = IF Idle(b) THEN FDest(b) ELSE b
  BY DEF Onward, FDest
<1>4. \A b \in All : Onward(found)[b] \in All
  BY <1>1, <1>2, <1>3
<1>5. Onward(found) = [b \in All |-> Onward(found)[b]]
  BY DEF Onward
<1> QED
  BY <1>1, <1>2, <1>3, <1>4, <1>5

(* What is met in the graph found depends on nothing that changes.         *)
LEMMA MeetsKept ==
  ASSUME empty' = empty, found' = found
  PROVE  /\ \A c : Idle(c)' <=> Idle(c)
         /\ \A c : Meets(found, c)' = Meets(found, c)
<1>1. \A c : Idle(c)' <=> Idle(c)
  BY DEF Idle
<1>2. ASSUME NEW b PROVE Meets(found, b)' = Meets(found, b)
  <2> DEFINE Run(run) == [k \in 0..ret |->
               IF k = 0 THEN b
               ELSE LET c == run[k - 1]
                    IN IF ~Idle(c) THEN c
                       ELSE IF found.jmp[c] = "ret0" THEN ret ELSE found.to1[c]]
  <2>1. \A run : Run(run)' = Run(run)
    BY <1>1
  <2>2. (CHOOSE run : run = Run(run)') = (CHOOSE run : run = Run(run))
    <3> HIDE DEF Run
    <3> QED
      BY <2>1, Zenon
  <2> DEFINE run == CHOOSE run : run = Run(run)
  <2>3. Meets(found, b) = IF Idle(run[ret]) THEN 0 ELSE run[ret]
    BY Zenon DEF Meets
  <2>4. Meets(found, b)' = IF Idle(run[ret])' THEN 0 ELSE run[ret]'
    BY Zenon DEF Meets
  <2>5. run' = run
    BY <2>2, Zenon
  <2> HIDE DEF run
  <2> QED
    BY <1>1, <2>3, <2>4, <2>5
<1> QED
  BY <1>1, <1>2

(* It holds before simpljmp has joined anything.                           *)
LEMMA InitIInv == ASSUME NJmp \in Nat, ThreadInit PROVE JmpIInv
<1>1. PICK js \in [JBlk -> Jumps] :
        /\ jmp = [b \in JBlk |-> js[b][1]]
        /\ to1 = [b \in JBlk |-> js[b][2]] /\ to2 = [b \in JBlk |-> js[b][3]]
  BY DEF ThreadInit
<1>2. \A b \in JBlk :
        /\ jmp[b] \in {"ret0", "jmp", "jnz"} /\ to1[b] \in JBlk \cup {0} /\ to2[b] \in JBlk \cup {0}
        /\ jmp[b] = "ret0" => to1[b] = 0 /\ to2[b] = 0
        /\ jmp[b] = "jmp" => to1[b] \in JBlk /\ to2[b] = 0
        /\ jmp[b] = "jnz" => to1[b] \in JBlk /\ to2[b] \in JBlk
  BY <1>1, BlkFacts DEF Jumps
<1>3. /\ found = [jmp |-> jmp, to1 |-> to1, to2 |-> to2]
      /\ uf = [b \in All |-> 0] /\ jpc = "join" /\ jx = 1
      /\ empty \in [JBlk -> BOOLEAN]
  BY DEF ThreadInit, ThreadReady
<1>4. /\ jmp = [b \in JBlk |-> jmp[b]] /\ to1 = [b \in JBlk |-> to1[b]] /\ to2 = [b \in JBlk |-> to2[b]]
  BY <1>1
<1>5. ThreadTypeOK
  BY <1>2, <1>3, <1>4, BlkFacts DEF ThreadTypeOK
<1>6. FoundOK
  BY <1>2, <1>3, <1>4 DEF FoundOK
<1>7. Forested(uf)
  <2>1. uf \in [All -> All \cup {0}]
    BY <1>3
  <2>2. Falls(All, Roots(uf), uf, [c \in All |-> 0])
    BY <1>3 DEF Falls, Roots
  <2>3. [c \in All |-> 0] \in [All -> 0..0] /\ 0 \in Nat
    OBVIOUS
  <2> QED
    BY <2>1, <2>2, <2>3 DEF Forested, Climbs
<1>8. \A c \in All : uf[c] = 0 /\ Root(uf, c) = c
  BY <1>3, <1>7, RootIs
<1>9. UfOK
  BY <1>7, <1>8 DEF UfOK
<1>10. \A b \in JBlk : Untouched(b) /\ ~(b < jx)
  BY <1>3, <1>8, BlkFacts DEF Untouched, JBlk
<1> QED
  BY <1>3, <1>5, <1>6, <1>9, <1>10 DEF JmpIInv

(* The first loop keeps it: an empty block that jumps joins the tree of    *)
(* its destination, from which the same block is met.                      *)
LEMMA JoinKeeps == ASSUME NJmp \in Nat, JmpIInv, Join PROVE JmpIInv'
<1> USE BlkFacts
<1>1. /\ ThreadTypeOK /\ FoundOK /\ UfOK /\ jpc = "join" /\ jx <= NJmp /\ jx' = jx + 1
      /\ \A b \in JBlk : IF b < jx THEN AfterJoin(b) ELSE Untouched(b)
      /\ UNCHANGED <<to2, empty, jpc, found>>
  BY DEF JmpIInv, Join
<1>2. jx \in JBlk /\ jx \in Nat
  BY <1>1 DEF ThreadTypeOK, JBlk
<1>3. /\ Untouched(jx)
      /\ jmp'= [jmp EXCEPT ![jx] = FJmp(jx)]
      /\ Dest(jx) = FDest(jx) /\ FDest(jx) \in All
      /\ Skipped(jx, jmp'[jx]) <=> Idle(jx)
  <2>1. Untouched(jx)
    BY <1>1, <1>2
  <2>2. jmp'= [jmp EXCEPT ![jx] = FJmp(jx)]
    BY <1>2, <2>1 DEF Join, FJmp, Untouched
  <2>3. jmp'[jx] = FJmp(jx)
    BY <1>1, <1>2, <2>2 DEF ThreadTypeOK
  <2>4. Dest(jx) = FDest(jx) /\ FDest(jx) \in All
    BY <1>1, <1>2, <2>1, FDestIs DEF Dest, FDest, Untouched
  <2>5. found.jmp[jx] \in {"ret0", "jmp", "jnz"} /\ jx # ret
    BY <1>1, <1>2 DEF FoundOK
  <2>6. Skipped(jx, jmp'[jx]) <=> Idle(jx)
    BY <2>3, <2>5 DEF Skipped, Idle, FJmp
  <2> QED
    BY <2>1, <2>2, <2>4, <2>6
<1>4. /\ \A c : Idle(c)' <=> Idle(c)
      /\ \A c : Meets(found, c)' = Meets(found, c)
      /\ \A b : FDest(b)' = FDest(b) /\ FJmp(b)' = FJmp(b)
  BY <1>1, MeetsKept DEF FDest, FJmp
<1>5. FoundOK'
  BY <1>1 DEF FoundOK
<1>6. Forested(uf) /\ uf[jx] = 0 /\ Root(uf, jx) = jx
  BY <1>1, <1>2, <1>3, RootIs DEF UfOK, Untouched
<1> DEFINE d == FDest(jx)
<1>7. Root(uf, d) \in All /\ Root(uf, Root(uf, d)) = Root(uf, d)
  BY <1>3, <1>6, RootIs, RootStops
(* The new forest, whichever branch is taken.                              *)
<1>8. /\ Forested(uf')
      /\ \A c \in All : uf'[c] # 0 => uf[c] # 0 \/ (c = jx /\ Idle(jx))
      /\ \A c \in All :
           Root(uf', c) = IF Idle(jx) /\ Root(uf, c) = jx THEN Root(uf, d) ELSE Root(uf, c)
      /\ to1' = [to1 EXCEPT ![jx] = IF Idle(jx) THEN Root(uf, d) ELSE d]
  <2>1. CASE Idle(jx)
    <3>1. uf' = Joined(jx, d) /\ to1' = [to1 EXCEPT ![jx] = Root(uf, d)]
      BY <1>3, <2>1 DEF Join
    <3> HIDE DEF d
    <3> QED
      BY <1>2, <1>3, <1>6, <2>1, <3>1, JoinedKeeps DEF d
  <2>2. CASE ~Idle(jx)
    <3>1. uf' = uf /\ to1' = [to1 EXCEPT ![jx] = d]
      BY <1>3, <2>2 DEF Join
    <3> HIDE DEF d
    <3> QED
      BY <1>6, <2>2, <3>1
  <2> QED
    BY <2>1, <2>2
<1>9. \A c1, c2 \in All : Root(uf, c1) = Root(uf, c2) => Root(uf', c1) = Root(uf', c2)
  BY <1>8
<1>10. UfOK'
  <2>1. \A c \in All : uf'[c] # 0 => Idle(c)'
    BY <1>1, <1>4, <1>8 DEF UfOK
  <2>2. ASSUME NEW c \in All PROVE Meets(found, Root(uf', c)) = Meets(found, c)
    <3>1. Meets(found, Root(uf, c)) = Meets(found, c) /\ Meets(found, Root(uf, d)) = Meets(found, d)
      BY <1>1, <1>3 DEF UfOK
    <3>2. ASSUME Idle(jx), Root(uf, c) = jx PROVE Meets(found, d) = Meets(found, c)
      <4>1. Meets(found, d) = Meets(found, jx)
        BY <1>1, <1>2, <3>2, FDestIs, MeetsOnward
      <4> QED
        BY <3>1, <3>2, <4>1
    <3> HIDE DEF d
    <3> QED
      BY <1>8, <3>1, <3>2
  <2> QED
    BY <1>4, <1>8, <2>1, <2>2 DEF UfOK
<1>11. \A b \in JBlk : IF b < jx' THEN AfterJoin(b)' ELSE Untouched(b)'
  <2> SUFFICES ASSUME NEW b \in JBlk
               PROVE  IF b < jx + 1 THEN AfterJoin(b)' ELSE Untouched(b)'
    BY <1>1
  <2>1. b \in Nat /\ b \in All
    OBVIOUS
  <2>2. CASE b = jx
    <3>1. to1'[jx] = IF Idle(jx) THEN Root(uf, d) ELSE d
      BY <1>1, <1>2, <1>8 DEF ThreadTypeOK
    <3>2. to1'[jx] \in All /\ Root(uf, to1'[jx]) = Root(uf, d)
      BY <1>3, <1>7, <3>1
    <3>3. Root(uf', to1'[jx]) = Root(uf', d)
      BY <1>3, <1>9, <3>2
    <3>4. Idle(jx) => Root(uf', jx) = Root(uf', d)
      BY <1>3, <1>6, <1>8, <2>1, <2>2
    <3>5. jmp'[jx] = FJmp(jx) /\ to2'[jx] = found.to2[jx]
      BY <1>1, <1>2, <1>3 DEF ThreadTypeOK, Untouched
    <3>6. /\ jmp'[b] = FJmp(b) /\ to2'[b] = found.to2[b] /\ to1'[b] \in All
          /\ Root(uf', to1'[b]) = Root(uf', FDest(b))
          /\ Idle(b) => Root(uf', b) = Root(uf', FDest(b))
      BY <2>2, <3>2, <3>3, <3>4, <3>5
    <3>7. AfterJoin(b)'
      BY <1>1, <1>4, <3>6 DEF AfterJoin, Threads
    <3>8. b < jx + 1
      BY <1>2, <2>2
    <3> QED
      BY <3>7, <3>8
  <2>3. CASE b # jx
    <3>1. jmp'[b] = jmp[b] /\ to1'[b] = to1[b] /\ to2'[b] = to2[b]
      BY <1>1, <1>3, <1>8, <2>3 DEF ThreadTypeOK
    <3>2. FDest(b) \in All
      BY <1>1, FDestIs
    <3>3. CASE b < jx
      <4>1. AfterJoin(b)
        BY <1>1, <3>3
      <4>2. AfterJoin(b)'
        BY <1>1, <1>4, <1>9, <2>1, <3>1, <3>2, <4>1 DEF AfterJoin, Threads
      <4> QED
        BY <1>2, <2>1, <3>3, <4>2
    <3>4. CASE ~(b < jx)
      <4>1. Untouched(b)
        BY <1>1, <3>4
      <4>2. Untouched(b)'
        BY <1>1, <1>8, <2>1, <2>3, <3>1, <4>1 DEF Untouched
      <4>3. ~(b < jx + 1)
        BY <1>2, <2>1, <2>3, <3>4
      <4> QED
        BY <4>2, <4>3
    <3> QED
      BY <3>3, <3>4
  <2> QED
    BY <2>2, <2>3
<1>12. ThreadTypeOK'
  <2>1. jmp' \in [JBlk -> {"ret0", "jmp", "jnz"}]
    BY <1>1, <1>2, <1>3 DEF ThreadTypeOK, FJmp, FoundOK
  <2>2. to1' \in [JBlk -> All \cup {0}]
    BY <1>1, <1>3, <1>7, <1>8 DEF ThreadTypeOK
  <2>3. jx' \in 1..NJmp + 1
    BY <1>1, <1>2 DEF ThreadTypeOK
  <2> QED
    BY <1>1, <1>8, <2>1, <2>2, <2>3 DEF ThreadTypeOK, Forested
<1> QED
  BY <1>1, <1>5, <1>10, <1>11, <1>12 DEF JmpIInv

(* The second loop keeps it: uffind moves no root, so what the blocks      *)
(* before this one were given stays what they should have.                 *)
LEMMA ResolveKeeps == ASSUME NJmp \in Nat, JmpIInv, Resolve PROVE JmpIInv'
<1> USE BlkFacts
<1>1. /\ ThreadTypeOK /\ FoundOK /\ UfOK /\ jpc = "resolve" /\ jx <= NJmp /\ jx' = jx + 1
      /\ \A b \in JBlk : IF b < jx THEN AfterResolve(b) ELSE AfterJoin(b)
      /\ UNCHANGED <<empty, jpc, found>>
  BY DEF JmpIInv, Resolve
<1>2. jx \in JBlk /\ jx \in Nat
  BY <1>1 DEF ThreadTypeOK, JBlk
<1>3. AfterJoin(jx)
  BY <1>1, <1>2
<1>4. /\ \A c : Idle(c)' <=> Idle(c)
      /\ \A c : Meets(found, c)' = Meets(found, c)
      /\ \A b : FDest(b)' = FDest(b) /\ FJmp(b)' = FJmp(b)
  BY <1>1, MeetsKept DEF FDest, FJmp
<1>5. FoundOK'
  BY <1>1 DEF FoundOK
<1> DEFINE f == Shortened(uf, to1[jx])
<1> DEFINE d1 == Root(uf, FDest(jx))
<1> DEFINE d2 == IF found.to2[jx] = 0 THEN 0 ELSE Root(uf, found.to2[jx])
<1>6. /\ to1[jx] \in All /\ to1[jx] # 0 /\ Root(uf, to1[jx]) = d1
      /\ to2[jx] = found.to2[jx] /\ to2[jx] \in All \cup {0} /\ FDest(jx) \in All
  BY <1>1, <1>2, <1>3, FDestIs DEF AfterJoin, ThreadTypeOK
<1>7. /\ Forested(f)
      /\ \A c \in All : (f[c] = 0 <=> uf[c] = 0) /\ Root(f, c) = Root(uf, c)
  BY <1>1, <1>6, ShortenedKeeps DEF UfOK
<1>8. /\ Forested(uf')
      /\ \A c \in All : (uf'[c] = 0 <=> uf[c] = 0) /\ Root(uf', c) = Root(uf, c)
  <2>1. uf' = IF to2[jx] = 0 THEN f ELSE Shortened(f, to2[jx])
    BY <1>6 DEF Resolve
  <2> HIDE DEF f
  <2>2. to2[jx] # 0 => to2[jx] \in All
    BY <1>6
  <2> QED
    BY <1>7, <2>1, <2>2, ShortenedKeeps
<1>9. /\ Resolved(uf, to1[jx]) = d1
      /\ Resolved(f, to2[jx]) = d2
      /\ d1 \in All /\ d1 # 0 /\ d2 \in All \cup {0}
  <2>1. to2[jx] # 0 => Root(f, to2[jx]) = Root(uf, found.to2[jx]) /\ Root(uf, found.to2[jx]) \in All
    BY <1>1, <1>6, <1>7, RootIs DEF UfOK
  <2>2. d1 \in All
    BY <1>1, <1>6, RootIs DEF UfOK
  <2> HIDE DEF f
  <2> QED
    BY <1>6, <2>1, <2>2 DEF Resolved
<1>10. /\ to1' = [to1 EXCEPT ![jx] = d1]
       /\ to2' = [to2 EXCEPT ![jx] = IF d1 = d2 THEN 0 ELSE d2]
       /\ jmp' = [jmp EXCEPT ![jx] = IF d1 = d2 THEN "jmp" ELSE @]
  <2>1. f = IF to1[jx] = 0 THEN uf ELSE Shortened(uf, to1[jx])
    BY <1>6
  <2>2. /\ to1' = [to1 EXCEPT ![jx] = Resolved(uf, to1[jx])]
        /\ to2' = [to2 EXCEPT ![jx] =
             IF Resolved(uf, to1[jx]) # 0 /\ Resolved(uf, to1[jx]) = Resolved(f, to2[jx])
             THEN 0 ELSE Resolved(f, to2[jx])]
        /\ jmp' = [jmp EXCEPT ![jx] =
             IF Resolved(uf, to1[jx]) # 0 /\ Resolved(uf, to1[jx]) = Resolved(f, to2[jx])
             THEN "jmp" ELSE @]
    <3> HIDE DEF f
    <3> QED
      BY <2>1 DEF Resolve
  <2> HIDE DEF f, d1, d2
  <2> QED
    BY <1>9, <2>2
<1> HIDE DEF f
<1>11. UfOK'
  <2>1. \A c \in All : uf'[c] # 0 => Idle(c)'
    BY <1>1, <1>4, <1>8 DEF UfOK
  <2>2. \A c \in All : Meets(found, Root(uf', c)) = Meets(found, c)
    BY <1>1, <1>8 DEF UfOK
  <2> QED
    BY <1>4, <1>8, <2>1, <2>2 DEF UfOK
<1>12. \A b \in JBlk : IF b < jx' THEN AfterResolve(b)' ELSE AfterJoin(b)'
  <2> SUFFICES ASSUME NEW b \in JBlk
               PROVE  IF b < jx + 1 THEN AfterResolve(b)' ELSE AfterJoin(b)'
    BY <1>1
  <2>1. b \in Nat /\ b \in All /\ FDest(b) \in All
    BY <1>1, FDestIs
  <2>2. Threads(b)' <=> Threads(b)
    BY <1>4, <1>8, <2>1 DEF Threads
  <2>3. found.to2[b] # 0 => found.to2[b] \in All
    BY <1>1 DEF FoundOK
  <2>4. CASE b = jx
    <3>1. /\ to1'[b] = d1 /\ to2'[b] = IF d1 = d2 THEN 0 ELSE d2
          /\ jmp'[b] = IF d1 = d2 THEN "jmp" ELSE jmp[b]
      <4> HIDE DEF d1, d2
      <4> QED
        BY <1>1, <1>10, <2>4 DEF ThreadTypeOK
    <3>2. jmp[b] = FJmp(b) /\ Threads(b)
      BY <1>3, <2>4 DEF AfterJoin
    <3>3. to1'[b] = Root(uf', FDest(b))
      BY <1>8, <2>1, <2>4, <3>1
    <3>4. IF found.to2[b] = 0 THEN to2'[b] = 0 /\ jmp'[b] = FJmp(b)
          ELSE IF to1'[b] = Root(uf', found.to2[b]) THEN to2'[b] = 0 /\ jmp'[b] = "jmp"
          ELSE to2'[b] = Root(uf', found.to2[b]) /\ jmp'[b] = FJmp(b)
      <4>1. CASE found.to2[b] = 0
        <5>1. d2 = 0 /\ d1 # d2
          BY <1>9, <2>4, <4>1
        <5> HIDE DEF d1, d2
        <5> QED
          BY <3>1, <3>2, <4>1, <5>1
      <4>2. CASE found.to2[b] # 0
        <5>1. d2 = Root(uf', found.to2[b])
          BY <1>8, <2>3, <2>4, <4>2
        <5> HIDE DEF d1, d2
        <5> QED
          BY <3>1, <3>2, <4>2, <5>1
      <4> QED
        BY <4>1, <4>2
    <3>5. AfterResolve(b)'
      <4> HIDE DEF d1, d2
      <4> QED
        BY <1>1, <1>4, <2>2, <3>2, <3>3, <3>4 DEF AfterResolve
    <3>6. b < jx + 1
      BY <1>2, <2>4
    <3> QED
      BY <3>5, <3>6
  <2>5. CASE b # jx
    <3>1. jmp'[b] = jmp[b] /\ to1'[b] = to1[b] /\ to2'[b] = to2[b]
      <4> HIDE DEF d1, d2
      <4> QED
        BY <1>1, <1>10, <2>5 DEF ThreadTypeOK
    <3>2. CASE b < jx
      <4>1. AfterResolve(b)
        BY <1>1, <3>2
      <4>2. AfterResolve(b)'
        BY <1>1, <1>4, <1>8, <2>1, <2>2, <2>3, <3>1, <4>1 DEF AfterResolve
      <4> QED
        BY <1>2, <2>1, <3>2, <4>2
    <3>3. CASE ~(b < jx)
      <4>1. AfterJoin(b)
        BY <1>1, <3>3
      <4>2. AfterJoin(b)'
        BY <1>1, <1>4, <1>8, <2>1, <2>2, <3>1, <4>1 DEF AfterJoin
      <4>3. ~(b < jx + 1)
        BY <1>2, <2>1, <2>5, <3>3
      <4> QED
        BY <4>2, <4>3
    <3> QED
      BY <3>2, <3>3
  <2> QED
    BY <2>4, <2>5
<1>13. ThreadTypeOK'
  <2> HIDE DEF d1, d2
  <2>1. jmp' \in [JBlk -> {"ret0", "jmp", "jnz"}]
    BY <1>1, <1>2, <1>10 DEF ThreadTypeOK
  <2>2. to1' \in [JBlk -> All \cup {0}] /\ to2' \in [JBlk -> All \cup {0}]
    BY <1>1, <1>9, <1>10 DEF ThreadTypeOK
  <2>3. jx' \in 1..NJmp + 1
    BY <1>1, <1>2 DEF ThreadTypeOK
  <2> QED
    BY <1>1, <1>8, <2>1, <2>2, <2>3 DEF ThreadTypeOK, Forested
<1> QED
  BY <1>1, <1>5, <1>11, <1>12, <1>13 DEF JmpIInv

(* Every step keeps it.                                                    *)
LEMMA StepKeeps == ASSUME NJmp \in Nat, JmpIInv, [ThreadNext]_jvars PROVE JmpIInv'
<1>1. CASE Join
  BY <1>1, JoinKeeps
<1>2. CASE Resolve
  BY <1>2, ResolveKeeps
<1>3. CASE JoinEnd \/ ResolveEnd \/ UNCHANGED jvars
  <2>1. UNCHANGED <<jmp, to1, to2, empty, uf, found>>
    BY <1>3 DEF JoinEnd, ResolveEnd, jvars
  <2>2. /\ \A c : Idle(c)' <=> Idle(c)
        /\ \A c : Meets(found, c)' = Meets(found, c)
        /\ \A b : FDest(b)' = FDest(b) /\ FJmp(b)' = FJmp(b)
    BY <2>1, MeetsKept DEF FDest, FJmp
  <2>3. FoundOK' /\ UfOK'
    BY <2>1, <2>2 DEF JmpIInv, FoundOK, UfOK
  <2>4. \A b : Threads(b)' <=> Threads(b)
    BY <2>1, <2>2 DEF Threads
  <2>5. /\ \A b : AfterJoin(b)' <=> AfterJoin(b)
        /\ \A b : AfterResolve(b)' <=> AfterResolve(b)
        /\ \A b : Untouched(b)' <=> Untouched(b)
    BY <2>1, <2>2, <2>4 DEF AfterJoin, AfterResolve, Untouched
  <2>6. jx \in 1..NJmp + 1 /\ ThreadTypeOK /\ \A b \in JBlk : b \in 1..NJmp
    BY DEF JmpIInv, ThreadTypeOK, JBlk
  <2>7. CASE JoinEnd
    <3>1. jpc = "join" /\ jx > NJmp /\ jpc' = "resolve" /\ jx' = 1
      BY <2>7 DEF JoinEnd
    <3>2. \A b \in JBlk : b < jx /\ ~(b < 1)
      BY <2>6, <3>1
    <3>3. \A b \in JBlk : AfterJoin(b)
      BY <3>1, <3>2 DEF JmpIInv
    <3>4. ThreadTypeOK'
      BY <2>1, <2>6, <3>1 DEF ThreadTypeOK
    <3> QED
      BY <2>3, <2>5, <3>1, <3>2, <3>3, <3>4 DEF JmpIInv
  <2>8. CASE ResolveEnd
    <3>1. jpc = "resolve" /\ jx > NJmp /\ jpc' = "done" /\ jx' = jx
      BY <2>8 DEF ResolveEnd
    <3>2. \A b \in JBlk : b < jx
      BY <2>6, <3>1
    <3>3. \A b \in JBlk : AfterResolve(b)
      BY <3>1, <3>2 DEF JmpIInv
    <3>4. ThreadTypeOK'
      BY <2>1, <2>6, <3>1 DEF ThreadTypeOK
    <3> QED
      BY <2>3, <2>5, <3>1, <3>3, <3>4 DEF JmpIInv
  <2>9. CASE UNCHANGED jvars
    <3>1. jpc' = jpc /\ jx' = jx
      BY <2>9 DEF jvars
    <3>2. ThreadTypeOK'
      BY <2>1, <2>6, <3>1 DEF ThreadTypeOK
    <3> QED
      BY <2>3, <2>5, <3>1, <3>2 DEF JmpIInv
  <2> QED
    BY <1>3, <2>7, <2>8, <2>9
<1> QED
  BY <1>1, <1>2, <1>3 DEF ThreadNext, ThreadWork

-----------------------------------------------------------------------------
(* When threading is done, a root meets in the new graph what every block  *)
(* below it met in the graph found; an empty root only jumps to itself.    *)
LEMMA Landing ==
  ASSUME NJmp \in Nat, JmpIInv, jpc = "done"
  PROVE  /\ Onward(Now) \in [All -> All]
         /\ \A c \in All : uf[c] = 0 /\ Idle(c) => Meets(Now, c) = 0
         /\ \A c \in All : Meets(Now, Root(uf, c)) = Meets(found, c)
<1> USE BlkFacts
<1>1. FoundOK /\ UfOK /\ \A b \in JBlk : AfterResolve(b)
  BY DEF JmpIInv
<1>2. \A b \in JBlk : FDest(b) \in All
  BY <1>1, FDestIs
<1>3. ASSUME NEW c \in All, Idle(c)
      PROVE  Onward(Now)[c] = Root(uf, c) /\ Root(uf, c) = Root(uf, FDest(c)) /\ c \in JBlk
  <2>1. c \in JBlk /\ found.jmp[c] \in {"ret0", "jmp"} /\ found.to2[c] = 0
    BY <1>1, <1>3 DEF Idle, FoundOK
  <2>2. jmp[c] = "jmp" /\ to1[c] = Root(uf, FDest(c)) /\ Root(uf, c) = Root(uf, FDest(c))
    BY <1>1, <1>3, <2>1 DEF AfterResolve, FJmp, Threads
  <2>3. Onward(Now)[c] = to1[c]
    BY <1>3, <2>2 DEF Onward, Now
  <2> QED
    BY <2>1, <2>2, <2>3
<1>4. \A c \in All : Root(uf, c) \in All /\ uf[Root(uf, c)] = 0 /\ (uf[c] = 0 => Root(uf, c) = c)
  BY <1>1, RootIs, RootStops DEF UfOK
<1>5. Onward(Now) \in [All -> All]
  <2>1. \A c \in All : Onward(Now)[c] \in All
    <3> SUFFICES ASSUME NEW c \in All PROVE Onward(Now)[c] \in All
      OBVIOUS
    <3>1. CASE Idle(c)
      BY <1>3, <1>4, <3>1
    <3>2. CASE ~Idle(c)
      BY <3>2 DEF Onward
    <3> QED
      BY <3>1, <3>2
  <2>2. Onward(Now) = [c \in All |-> Onward(Now)[c]]
    BY DEF Onward
  <2> QED
    BY <2>1, <2>2
<1>6. ASSUME NEW c \in All, uf[c] = 0, Idle(c) PROVE Meets(Now, c) = 0
  <2>1. Onward(Now)[c] = c
    BY <1>3, <1>4, <1>6
  <2> QED
    BY <1>5, <1>6, <2>1, MeetsNothing
<1>7. ASSUME NEW c \in All PROVE Meets(Now, Root(uf, c)) = Meets(found, c)
  <2> DEFINE d == Root(uf, c)
  <2>1. d \in All /\ uf[d] = 0 /\ Root(uf, d) = d /\ Meets(found, d) = Meets(found, c)
    BY <1>1, <1>4 DEF UfOK
  <2> HIDE DEF d
  <2>2. CASE ~Idle(d)
    <3>1. Meets(Now, d) = d
      BY <1>5, <2>1, <2>2, MeetsSelf
    <3>2. Meets(found, d) = d
      BY <1>1, <2>1, <2>2, FDestIs, MeetsSelf
    <3> QED
      BY <2>1, <3>1, <3>2 DEF d
  <2>3. CASE Idle(d)
    <3> DEFINE T == {e \in All : Meets(found, e) # 0 => Root(uf, e) = Meets(found, e)}
    <3>1. Onward(found) \in [All -> All]
      BY <1>1, FDestIs
    <3>2. ASSUME NEW e \in All, ~Idle(e) PROVE e \in T
      <4>1. Meets(found, e) = e
        BY <3>1, <3>2, MeetsSelf
      <4>2. Root(uf, e) = e
        BY <1>1, <1>4, <3>2 DEF UfOK
      <4> QED
        BY <4>1, <4>2
    <3>3. ASSUME NEW e \in All, Onward(found)[e] \in T PROVE e \in T
      <4>1. CASE Idle(e)
        <5>1. Onward(found)[e] = FDest(e)
          BY <1>1, <4>1, FDestIs
        <5>2. Meets(found, FDest(e)) = Meets(found, e)
          BY <3>1, <5>1, MeetsOnward
        <5>3. Root(uf, e) = Root(uf, FDest(e))
          BY <1>3, <4>1
        <5> QED
          BY <3>3, <5>1, <5>2, <5>3
      <4>2. CASE ~Idle(e)
        BY <3>2, <4>2
      <4> QED
        BY <4>1, <4>2
    <3> HIDE DEF T
    <3>4. Meets(found, d) # 0 => d \in T
      BY <2>1, <3>1, <3>2, <3>3, MeetsInduction
    <3>5. Meets(found, d) # 0 => ~Idle(Meets(found, d))
      BY <2>1, <3>1, MeetsSelf
    <3>6. Meets(found, d) = 0
      BY <2>1, <2>3, <3>4, <3>5 DEF T
    <3>7. Meets(Now, d) = 0
      BY <1>6, <2>1, <2>3
    <3> QED
      BY <2>1, <3>6, <3>7 DEF d
  <2> QED
    BY <2>2, <2>3
<1> QED
  BY <1>5, <1>6, <1>7

(* In the new graph no jump leads to a block that only jumps on.           *)
LEMMA ThreadedHolds == ASSUME NJmp \in Nat, JmpIInv PROVE Threaded
<1> USE BlkFacts
<1>1. Forest
  <2>1. ThreadTypeOK /\ Forested(uf)
    BY DEF JmpIInv, UfOK
  <2> QED
    BY <2>1, ForestEnds, Zenon DEF Forest
<1>2. ASSUME jpc = "done", NEW b \in JBlk
      PROVE  /\ to1[b] \in All /\ to1[b] # to2[b]
             /\ \A d \in {to1[b], to2[b]} \ {0} : Meets(Now, d) \in {d, 0}
  <2>1. FoundOK /\ UfOK /\ AfterResolve(b) /\ FDest(b) \in All
    BY <1>2, FDestIs DEF JmpIInv
  <2>2. \A c \in All : Root(uf, c) \in All /\ uf[Root(uf, c)] = 0
    BY <2>1, RootIs, RootStops DEF UfOK
  <2>3. found.to2[b] # 0 => found.to2[b] \in All
    BY <2>1 DEF FoundOK
  <2>4. to1[b] \in All /\ to1[b] # to2[b]
    BY <2>1, <2>2 DEF AfterResolve
  <2>5. ASSUME NEW d \in {to1[b], to2[b]} \ {0} PROVE Meets(Now, d) \in {d, 0}
    <3>1. d \in All /\ uf[d] = 0
      BY <2>1, <2>2, <2>3 DEF AfterResolve
    <3>2. CASE Idle(d)
      BY <1>2, <3>1, <3>2, Landing
    <3>3. CASE ~Idle(d)
      BY <1>2, <3>1, <3>3, Landing, MeetsSelf
    <3> QED
      BY <3>2, <3>3
  <2> QED
    BY <2>4, <2>5
<1> QED
  BY <1>1, <1>2 DEF Threaded

(* Each outcome of a jump leads where it led.                              *)
LEMMA SameFlowHolds == ASSUME NJmp \in Nat, JmpIInv PROVE SameFlow
<1> USE BlkFacts
<1> SUFFICES ASSUME jpc = "done", NEW b \in JBlk
    PROVE  CASE found.jmp[b] = "ret0" -> to1[b] = ret
             [] found.jmp[b] = "jmp" -> Meets(Now, to1[b]) = Meets(found, found.to1[b])
             [] found.jmp[b] = "jnz" ->
                  /\ Meets(Now, to1[b]) = Meets(found, found.to1[b])
                  /\ Meets(Now, IF to2[b] = 0 THEN to1[b] ELSE to2[b]) = Meets(found, found.to2[b])
  BY DEF SameFlow
<1>1. FoundOK /\ UfOK /\ AfterResolve(b) /\ FDest(b) \in All
  BY FDestIs DEF JmpIInv
<1>2. Meets(Now, to1[b]) = Meets(found, FDest(b))
  BY <1>1, Landing DEF AfterResolve
<1>3. CASE found.jmp[b] = "ret0"
  <2>1. ~Idle(ret)
    BY DEF Idle
  <2>2. uf[ret] = 0 /\ Root(uf, ret) = ret
    BY <1>1, <2>1, RootIs DEF UfOK
  <2>3. to1[b] = ret
    BY <1>1, <1>3, <2>2 DEF AfterResolve, FDest
  <2> QED
    BY <1>3, <2>3
<1>4. CASE found.jmp[b] = "jmp"
  <2>1. FDest(b) = found.to1[b]
    BY <1>4 DEF FDest
  <2> QED
    BY <1>2, <1>4, <2>1
<1>5. CASE found.jmp[b] = "jnz"
  <2>1. FDest(b) = found.to1[b] /\ found.to2[b] \in All /\ found.to2[b] # 0
    BY <1>1, <1>5 DEF FDest, FoundOK
  <2>2. Root(uf, found.to2[b]) \in All
    BY <1>1, <2>1, RootIs DEF UfOK
  <2>3. (IF to2[b] = 0 THEN to1[b] ELSE to2[b]) = Root(uf, found.to2[b])
    BY <1>1, <2>1, <2>2 DEF AfterResolve
  <2>4. Meets(Now, Root(uf, found.to2[b])) = Meets(found, found.to2[b])
    BY <2>1, Landing
  <2> QED
    BY <1>2, <1>5, <2>1, <2>3, <2>4
<1> QED
  BY <1>1, <1>3, <1>4, <1>5 DEF FoundOK

-----------------------------------------------------------------------------
(* uffind's recursion always ends, and jump threading leaves no jump to a  *)
(* block that only jumps on, unless it does so forever (cfg.c uffind,      *)
(* simpljmp).                                                              *)
THEOREM JumpsThreaded == ASSUME NJmp \in Nat PROVE ThreadSpec => []Threaded
<1>1. ThreadInit => JmpIInv
  BY InitIInv
<1>2. JmpIInv /\ [ThreadNext]_jvars => JmpIInv'
  BY StepKeeps
<1>3. JmpIInv => Threaded
  BY ThreadedHolds
<1> QED
  BY <1>1, <1>2, <1>3, PTL DEF ThreadSpec

(* Jump threading changes no execution: each outcome of each jump leads to *)
(* the block with something to do that it led to, and returns return.      *)
THEOREM FlowKept == ASSUME NJmp \in Nat PROVE ThreadSpec => []SameFlow
<1>1. ThreadInit => JmpIInv
  BY InitIInv
<1>2. JmpIInv /\ [ThreadNext]_jvars => JmpIInv'
  BY StepKeeps
<1>3. JmpIInv => SameFlow
  BY SameFlowHolds
<1> QED
  BY <1>1, <1>2, <1>3, PTL DEF ThreadSpec
=============================================================================
