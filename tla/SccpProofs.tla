----------------------------- MODULE SccpProofs -----------------------------
(***************************************************************************)
(* What Sccp.tla and SccpExec.tla say of constant propagation, proved for  *)
(* every function in SSA form, whatever its blocks and temporaries.        *)
(***************************************************************************)
EXTENDS SccpExec, Recursion

-----------------------------------------------------------------------------
(* Lists.                                                                  *)
LEMMA ListIs ==
  ASSUME NEW A, NEW s \in Seq(A)
  PROVE  /\ Len(s) \in Nat /\ DOMAIN s = 1..Len(s) /\ ToSet(s) \subseteq A
         /\ \A j \in 1..Len(s) : s[j] \in A /\ s[j] \in ToSet(s)
         /\ \A e \in ToSet(s) : \E j \in 1..Len(s) : s[j] = e
  BY DEF ToSet

(* A function on 1..m is a list.                                           *)
LEMMA MakesList ==
  ASSUME NEW A, NEW m \in Nat, NEW f, f = [j \in 1..m |-> f[j]], \A j \in 1..m : f[j] \in A
  PROVE  f \in Seq(A) /\ Len(f) = m
<1>1. f \in [1..m -> A]
  OBVIOUS
<1> QED
  BY <1>1

(* One list after the other, place by place, and as a set.                 *)
LEMMA JoinedIs ==
  ASSUME NEW A, NEW q \in Seq(A), NEW r \in Seq(A)
  PROVE  /\ q \o r \in Seq(A) /\ Len(q) \in Nat /\ Len(r) \in Nat /\ Len(q \o r) = Len(q) + Len(r)
         /\ \A j \in 1..Len(q) : (q \o r)[j] = q[j]
         /\ \A j \in 1..Len(r) : (q \o r)[Len(q) + j] = r[j]
  OBVIOUS

(* What a joined list holds.                                               *)
LEMMA JoinIs ==
  ASSUME NEW A, NEW q \in Seq(A), NEW r \in Seq(A)
  PROVE  q \o r \in Seq(A) /\ ToSet(q \o r) = ToSet(q) \cup ToSet(r)
<1>1. /\ q \o r \in Seq(A) /\ Len(q \o r) = Len(q) + Len(r)
      /\ \A j \in 1..Len(q) : (q \o r)[j] = q[j]
      /\ \A j \in 1..Len(r) : (q \o r)[Len(q) + j] = r[j]
  OBVIOUS
<1>2. ASSUME NEW e \in ToSet(q \o r) PROVE e \in ToSet(q) \cup ToSet(r)
  <2>1. PICK j \in 1..Len(q) + Len(r) : e = (q \o r)[j]
    BY <1>1 DEF ToSet
  <2>2. CASE j \in 1..Len(q)
    BY <2>1, <2>2, <1>1 DEF ToSet
  <2>3. CASE j \notin 1..Len(q)
    <3>1. j - Len(q) \in 1..Len(r) /\ Len(q) + (j - Len(q)) = j
      BY <2>3
    <3>2. e = r[j - Len(q)]
      BY <3>1, <2>1, <1>1
    <3> QED
      BY <3>1, <3>2 DEF ToSet
  <2> QED
    BY <2>2, <2>3
<1>3. ASSUME NEW e \in ToSet(q) PROVE e \in ToSet(q \o r)
  <2>1. PICK j \in 1..Len(q) : e = q[j]
    BY DEF ToSet
  <2>2. j \in 1..Len(q \o r) /\ (q \o r)[j] = e
    BY <2>1, <1>1
  <2> QED
    BY <2>2, <1>1 DEF ToSet
<1>4. ASSUME NEW e \in ToSet(r) PROVE e \in ToSet(q \o r)
  <2>1. PICK j \in 1..Len(r) : e = r[j]
    BY DEF ToSet
  <2>2. Len(q) + j \in 1..Len(q \o r) /\ (q \o r)[Len(q) + j] = e
    BY <2>1, <1>1
  <2> QED
    BY <2>2, <1>1 DEF ToSet
<1> QED
  BY <1>1, <1>2, <1>3, <1>4

(* Concat joins them all.                                                  *)
LEMMA ConcatIs ==
  ASSUME NEW A, NEW ss \in Seq(Seq(A))
  PROVE  /\ Concat(ss) \in Seq(A)
         /\ \A e : e \in ToSet(Concat(ss)) <=> \E j \in 1..Len(ss) : e \in ToSet(ss[j])
<1> DEFINE m == Len(ss)
<1> DEFINE V == Seq(A)
<1> DEFINE none == <<>>
<1> DEFINE Rec(f) == [j \in 0..Len(ss) |-> IF j = 0 THEN <<>> ELSE f[j - 1] \o ss[j]]
<1> DEFINE step == [j \in 1..m |-> [v \in V |-> v \o ss[j]]]
<1>1. m \in Nat /\ none \in V /\ \A j \in 1..m : ss[j] \in V
  OBVIOUS
<1>2. step \in [1..m -> [V -> V]]
  BY <1>1
<1>3. PICK f \in [0..m -> V] : Recurs(m, none, step, f)
  <2> HIDE DEF m, step, V, none
  <2> QED
    BY <1>1, <1>2, StepRecursion
<1>4. ASSUME NEW k \in 1..m PROVE f[k] = f[k - 1] \o ss[k]
  <2>1. k - 1 \in 0..m
    BY <1>1
  <2>2. f[k - 1] \in V
    BY <2>1
  <2>3. f[k] = step[k][f[k - 1]]
    BY <1>3 DEF Recurs
  <2> QED
    BY <2>2, <2>3
<1>5. f = Rec(f)
  <2>1. \A j \in 0..m : j # 0 => j \in 1..m
    BY <1>1
  <2>2. \A j \in 0..m : f[j] = Rec(f)[j]
    BY <1>3, <1>4, <2>1 DEF Recurs
  <2> QED
    BY <1>3, <2>2
<1> DEFINE g == CHOOSE g : g = Rec(g)
<1>6. g = Rec(g)
  BY <1>5
<1>7. Concat(ss) = g[m]
  BY DEF Concat
<1> HIDE DEF g
<1>8. g[0] = <<>> /\ \A j \in 1..m : g[j] = g[j - 1] \o ss[j]
  <2>1. \A j \in 0..m : g[j] = IF j = 0 THEN <<>> ELSE g[j - 1] \o ss[j]
    BY <1>6
  <2>2. 0 \in 0..m /\ \A j \in 1..m : j \in 0..m /\ j # 0
    BY <1>1
  <2> HIDE DEF m
  <2> QED
    BY <2>1, <2>2
<1> HIDE DEF m
<1> DEFINE OK(j) ==
      g[j] \in Seq(A) /\ \A e : e \in ToSet(g[j]) <=> \E k \in 1..j : e \in ToSet(ss[k])
<1> DEFINE T == {j \in 0..m : OK(j)}
<1>9. 0 \in T
  <2>1. <<>> \in Seq(A) /\ ToSet(<<>>) = {} /\ 1..0 = {} /\ 0 \in 0..m
    BY <1>1 DEF ToSet
  <2>2. OK(0)
    BY <2>1, <1>8
  <2> QED
    BY <2>1, <2>2
<1>10. ASSUME NEW j \in 1..m, j - 1 \in T PROVE j \in T
  <2>1. g[j - 1] \in Seq(A) /\ ss[j] \in Seq(A) /\ g[j] = g[j - 1] \o ss[j]
    BY <1>10, <1>8, <1>1
  <2>2. g[j] \in Seq(A) /\ ToSet(g[j]) = ToSet(g[j - 1]) \cup ToSet(ss[j])
    BY <2>1, JoinIs
  <2>3. 1..j = 1..j - 1 \cup {j}
    BY <1>1
  <2>4. \A e : e \in ToSet(g[j]) <=> \E k \in 1..j : e \in ToSet(ss[k])
    BY <2>2, <2>3, <1>10
  <2> QED
    BY <2>2, <2>4, <1>1
<1>11. m \in T
  <2>1. \A j \in 0..m : j \in T
    <3> HIDE DEF T
    <3> QED
      BY <1>1, <1>9, <1>10, UpTo
  <2>2. m \in 0..m
    BY <1>1
  <2> HIDE DEF T
  <2> QED
    BY <2>1, <2>2
<1> QED
  BY <1>7, <1>11 DEF m

-----------------------------------------------------------------------------
(* The lattice: Top below every constant, and every constant below Bot.    *)
Vals == {Top, Bot} \cup Nat
Leq(v, w) == v = Top \/ v = w \/ w = Bot
Join(S) ==
  IF S \subseteq {Top} THEN Top
  ELSE IF \E v \in S : S \subseteq {v, Top} /\ v # Top THEN CHOOSE v \in S : v # Top
  ELSE Bot

(* The join is above every value, it is none but Bot if two of them        *)
(* differ, and Top if nothing else is there.                               *)
LEMMA JoinFacts ==
  ASSUME NEW S \in SUBSET Vals
  PROVE  /\ Join(S) \in Vals
         /\ \A v \in S : Leq(v, Join(S))
         /\ Join(S) \in S \/ Join(S) = Bot \/ (Join(S) = Top /\ S = {})
         /\ Join(S) = Top => S \subseteq {Top}
         /\ \A w \in Vals : (\A v \in S : Leq(v, w)) => Leq(Join(S), w)
<1>0. Top \in Vals /\ Bot \in Vals /\ Top # Bot
  BY DEF Vals, Top, Bot
<1>1. CASE S \subseteq {Top}
  <2>1. Join(S) = Top
    BY <1>1 DEF Join
  <2> QED
    BY <2>1, <1>0, <1>1 DEF Leq
<1>2. CASE ~(S \subseteq {Top}) /\ \E v \in S : S \subseteq {v, Top} /\ v # Top
  <2>1. PICK v \in S : S \subseteq {v, Top} /\ v # Top
    BY <1>2
  <2>2. Join(S) = CHOOSE w \in S : w # Top
    BY <1>2 DEF Join
  <2>3. Join(S) \in S /\ Join(S) # Top
    BY <2>1, <2>2
  <2>4. Join(S) = v
    BY <2>1, <2>3
  <2> QED
    BY <2>1, <2>4, <1>0 DEF Leq
<1>3. CASE ~(S \subseteq {Top}) /\ ~\E v \in S : S \subseteq {v, Top} /\ v # Top
  <2>1. Join(S) = Bot
    BY <1>3 DEF Join
  <2>2. ASSUME NEW w \in Vals, \A v \in S : Leq(v, w) PROVE w = Bot
    <3>1. PICK v \in S : v # Top
      BY <1>3
    <3>2. PICK u \in S : u # v /\ u # Top
      BY <1>3, <3>1
    <3> QED
      BY <2>2, <3>1, <3>2 DEF Leq
  <2> QED
    BY <2>1, <2>2, <1>0 DEF Leq
<1> QED
  BY <1>1, <1>2, <1>3

(* Merging joins one more value.                                           *)
LEMMA MergeIs ==
  ASSUME NEW v \in Vals, NEW w \in Vals
  PROVE  /\ LatMerge(v, w) \in Vals /\ Leq(v, LatMerge(v, w)) /\ Leq(w, LatMerge(v, w))
         /\ \A u \in Vals : Leq(v, u) /\ Leq(w, u) => Leq(LatMerge(v, w), u)
         /\ Leq(v, w) => LatMerge(v, w) = w
  BY DEF LatMerge, Leq, Vals, Top, Bot

(* The lattice order is antisymmetric and transitive.                      *)
LEMMA LeqIs ==
  /\ \A v, w \in Vals : Leq(v, w) /\ Leq(w, v) => v = w
  /\ \A u, v, w \in Vals : Leq(u, v) /\ Leq(v, w) => Leq(u, w)
  BY DEF Leq, Vals, Top, Bot

(* latmerge with the join of S is the join of S and one value more.        *)
LEMMA JoinMerge ==
  ASSUME NEW S \in SUBSET Vals, NEW w \in Vals
  PROVE  LatMerge(Join(S), w) = Join(S \cup {w})
<1> DEFINE R == S \cup {w}
<1>1. R \in SUBSET Vals
  OBVIOUS
<1> HIDE DEF R
<1>2. /\ Join(S) \in Vals /\ \A v \in S : Leq(v, Join(S))
      /\ \A u \in Vals : (\A v \in S : Leq(v, u)) => Leq(Join(S), u)
  BY JoinFacts
<1>3. /\ Join(R) \in Vals /\ \A v \in R : Leq(v, Join(R))
      /\ \A u \in Vals : (\A v \in R : Leq(v, u)) => Leq(Join(R), u)
  BY <1>1, JoinFacts
<1> DEFINE m == LatMerge(Join(S), w)
<1>4. /\ m \in Vals /\ Leq(Join(S), m) /\ Leq(w, m)
      /\ \A u \in Vals : Leq(Join(S), u) /\ Leq(w, u) => Leq(m, u)
  BY <1>2, MergeIs
<1> HIDE DEF m
<1>5. Leq(m, Join(R))
  <2>1. \A v \in S : Leq(v, Join(R))
    BY <1>3 DEF R
  <2>2. Leq(Join(S), Join(R)) /\ Leq(w, Join(R))
    BY <2>1, <1>2, <1>3 DEF R
  <2> QED
    BY <2>2, <1>3, <1>4
<1>6. Leq(Join(R), m)
  <2>1. \A v \in S : Leq(v, m)
    BY <1>1, <1>2, <1>4, LeqIs DEF R
  <2>2. \A v \in R : Leq(v, m)
    BY <2>1, <1>4 DEF R
  <2> QED
    BY <2>2, <1>3, <1>4
<1>7. m = Join(R)
  BY <1>3, <1>4, <1>5, <1>6, LeqIs
<1> QED
  BY <1>7 DEF m, R

(* A join grows with its values.                                           *)
LEMMA JoinGrows ==
  ASSUME NEW S \in SUBSET Vals, NEW R \in SUBSET Vals, \A v \in S : \E w \in R : Leq(v, w)
  PROVE  Leq(Join(S), Join(R))
<1>1. Join(R) \in Vals /\ \A w \in R : Leq(w, Join(R))
  BY JoinFacts
<1>2. ASSUME NEW v \in S PROVE Leq(v, Join(R))
  <2>1. PICK w \in R : Leq(v, w)
    OBVIOUS
  <2> QED
    BY <2>1, <1>1, LeqIs
<1>3. \A w \in Vals : (\A v \in S : Leq(v, w)) => Leq(Join(S), w)
  BY JoinFacts
<1> QED
  BY <1>1, <1>2, <1>3

(* The values a phi merges.                                                *)
Heard(p, b) == {LatVal(p.arg[a]) : a \in {c \in DOMAIN p.blk : ~DeadEdge(p.blk[c], b)}}

(* The loop of visitphi computes the join of what the phi hears over alive *)
(* edges.                                                                  *)
LEMMA PhiIs ==
  ASSUME NEW p, NEW b, Len(p.blk) \in Nat, DOMAIN p.blk = 1..Len(p.blk),
         \A a \in 1..Len(p.blk) : LatVal(p.arg[a]) \in Vals
  PROVE  PhiValue(p, b) = Join(Heard(p, b)) /\ Heard(p, b) \in SUBSET Vals
<1> DEFINE m == Len(p.blk)
<1> DEFINE gone(a) == DeadEdge(p.blk[a], b)
<1> DEFINE x(a) == LatVal(p.arg[a])
<1> DEFINE first == Top
<1> DEFINE Rec(f) == [a \in 0..Len(p.blk) |-> IF a = 0 THEN Top
                        ELSE IF DeadEdge(p.blk[a], b) THEN f[a - 1]
                        ELSE LatMerge(f[a - 1], LatVal(p.arg[a]))]
<1> DEFINE step == [a \in 1..m |-> [v \in Vals |-> IF gone(a) THEN v ELSE LatMerge(v, x(a))]]
<1>0. m \in Nat /\ first \in Vals
  BY DEF Vals
<1>1. ASSUME NEW a \in 1..m, NEW v \in Vals
      PROVE (IF gone(a) THEN v ELSE LatMerge(v, x(a))) \in Vals
  <2>1. x(a) \in Vals
    OBVIOUS
  <2> HIDE DEF x, gone
  <2>2. LatMerge(v, x(a)) \in Vals
    BY <2>1, MergeIs
  <2> QED
    BY <2>2
<1>2. step \in [1..m -> [Vals -> Vals]]
  <2> HIDE DEF x, gone, m
  <2> QED
    BY <1>1
<1>3. PICK f \in [0..m -> Vals] : Recurs(m, first, step, f)
  <2> HIDE DEF m, step, first
  <2> QED
    BY <1>0, <1>2, StepRecursion
<1>4. ASSUME NEW a \in 1..m PROVE f[a] = IF gone(a) THEN f[a - 1] ELSE LatMerge(f[a - 1], x(a))
  <2>1. a - 1 \in 0..m
    BY <1>0
  <2>2. f[a - 1] \in Vals
    BY <2>1
  <2>3. f[a] = step[a][f[a - 1]]
    BY <1>3 DEF Recurs
  <2> HIDE DEF x, gone, m
  <2> QED
    BY <2>2, <2>3
<1>5. f = Rec(f)
  <2>1. \A a \in 0..m : a # 0 => a \in 1..m
    BY <1>0
  <2>2. \A a \in 0..m : f[a] = Rec(f)[a]
    BY <1>3, <1>4, <2>1 DEF Recurs
  <2> QED
    BY <1>3, <2>2
<1> DEFINE g == CHOOSE g : g = Rec(g)
<1>6. g = Rec(g)
  BY <1>5
<1>7. PhiValue(p, b) = g[m]
  BY DEF PhiValue
<1> HIDE DEF g
<1>8. /\ g[0] = Top
      /\ \A a \in 1..m : gone(a) => g[a] = g[a - 1]
      /\ \A a \in 1..m : ~gone(a) => g[a] = LatMerge(g[a - 1], x(a))
  <2>1. \A a \in 0..m : g[a] = IF a = 0 THEN Top ELSE IF gone(a) THEN g[a - 1] ELSE LatMerge(g[a - 1], x(a))
    BY <1>6
  <2>2. 0 \in 0..m /\ \A a \in 1..m : a \in 0..m /\ a # 0
    BY <1>0
  <2> HIDE DEF m, gone, x
  <2> QED
    BY <2>1, <2>2
<1> DEFINE Some(j) == {x(a) : a \in {c \in 1..j : ~gone(c)}}
<1> DEFINE T == {j \in 0..m : Some(j) \in SUBSET Vals /\ g[j] = Join(Some(j))}
<1>9. Some(m) = Heard(p, b)
  BY DEF Heard
<1>10. \A a \in 1..m : x(a) \in Vals
  OBVIOUS
<1> HIDE DEF m, gone, x
<1>11. 0 \in T
  <2>1. Some(0) = {} /\ 0 \in 0..m
    BY <1>0
  <2>2. Join({}) = Top
    BY DEF Join
  <2> QED
    BY <2>1, <2>2, <1>8
<1>12. ASSUME NEW j \in 1..m, j - 1 \in T PROVE j \in T
  <2>1. 1..j = 1..j - 1 \cup {j}
    BY <1>0
  <2>2. CASE gone(j)
    <3>1. Some(j) = Some(j - 1)
      BY <2>1, <2>2
    <3>2. Some(j - 1) \in SUBSET Vals /\ g[j - 1] = Join(Some(j - 1)) /\ g[j] = g[j - 1]
      BY <1>8, <1>12, <2>2
    <3>3. j \in 0..m
      BY <1>0
    <3> HIDE DEF Some
    <3> QED
      BY <3>1, <3>2, <3>3
  <2>3. CASE ~gone(j)
    <3>1. Some(j) = Some(j - 1) \cup {x(j)}
      BY <2>1, <2>3
    <3>2. Some(j - 1) \in SUBSET Vals /\ x(j) \in Vals /\ g[j] = LatMerge(Join(Some(j - 1)), x(j))
      BY <1>8, <1>10, <1>12, <2>3
    <3>3. j \in 0..m
      BY <1>0
    <3> HIDE DEF Some
    <3>4. LatMerge(Join(Some(j - 1)), x(j)) = Join(Some(j - 1) \cup {x(j)})
      BY <3>2, JoinMerge
    <3> QED
      BY <3>1, <3>2, <3>3, <3>4
  <2> QED
    BY <2>2, <2>3
<1>13. m \in T
  <2>1. \A j \in 0..m : j \in T
    <3> HIDE DEF T
    <3> QED
      BY <1>0, <1>11, <1>12, UpTo
  <2>2. m \in 0..m
    BY <1>0
  <2> HIDE DEF T
  <2> QED
    BY <2>1, <2>2
<1> QED
  BY <1>7, <1>9, <1>13

-----------------------------------------------------------------------------
(* The invariant of the search, part by part.                              *)

(* A statement as a use names it, and those t is an operand of.            *)
Statement(type, b, j) == [type |-> type, bid |-> b, idx |-> j]
PhiUses(p, t) ==
  UNION {{Statement("UPhi", b, j) : j \in {k \in DOMAIN p.phi[b] : t \in ToSet(p.phi[b][k].arg)}} :
           b \in Blocks(p)}
InsUses(p, t) ==
  UNION {{Statement("UIns", b, j) : j \in {k \in DOMAIN p.ins[b] : t \in ToSet(p.ins[b][k].arg)}} :
           b \in Blocks(p)}
JmpUses(p, t) == {Statement("UJmp", b, 1) : b \in {c \in Blocks(p) : p.arg[c] = t}}
UsesOf(p, t) == PhiUses(p, t) \cup InsUses(p, t) \cup JmpUses(p, t)
AllUses(p) == UNION {UsesOf(p, t) : t \in Temps}

(* A block an alive edge leads to, and one whose jump was visited too.     *)
Busy == pc \in {"phi", "ins", "left"}
Came(b) == visit[b] > 0 \/ (Busy /\ n = b)
Seen(b) == visit[b] > 0 \/ (pc = "left" /\ n = b)
Searching == pc \notin {"trim", "done"}

Typed ==
  /\ prog \in Programs
  /\ val \in [Temps -> Vals]
  /\ use \in [Temps -> Seq(AllUses(prog))]
  /\ \A t \in Temps : ToSet(use[t]) = UsesOf(prog, t)
  /\ usewrk \in Seq(AllUses(prog))
  /\ dead \in [Edges(prog) -> BOOLEAN]
  /\ work \in [Edges(prog) -> Edges(prog) \cup {Nil}]
  /\ flowrk \in Edges(prog) \cup {Nil}
  /\ visit \in [Blocks(prog) -> Nat]
  /\ pc \in {"loop", "phi", "ins", "left", "UPhi", "UIns", "UJmp", "trim", "done"}
  /\ n \in Blocks(prog) /\ i \in Nat \ {0}

(* Where the search is: a block's instructions are visited the first time  *)
(* only, a use when the list of edges is empty and the block was visited.  *)
Placed ==
  /\ pc = "phi" => i <= Len(prog.phi[n]) + 1
  /\ pc = "ins" => visit[n] = 0 /\ i <= Len(prog.ins[n]) + 1
  /\ pc \in {"UPhi", "UIns", "UJmp"} =>
       flowrk = Nil /\ visit[n] > 0 /\ Statement(pc, n, i) \in AllUses(prog)
  /\ ~Searching => flowrk = Nil /\ usewrk = <<>>

(* l is the list of edges.                                                 *)
IsList(l) ==
  /\ l \in Seq(Edges(prog))
  /\ \A j, k \in 1..Len(l) : l[j] = l[k] => j = k
  /\ flowrk = IF l = <<>> THEN Nil ELSE l[1]
  /\ \A j \in 1..Len(l) : work[l[j]] = IF j = Len(l) THEN Nil ELSE l[j + 1]
  /\ \A e \in Edges(prog) : (\A j \in 1..Len(l) : l[j] # e) => work[e] = Nil
AList == \E l : IsList(l)

(* An edge was queued or alive for a reason that still holds; what it      *)
(* enters came through it; and the edge of a jump without condition is     *)
(* first in the list until it is alive.                                    *)
Listed == ({flowrk} \cup {work[e] : e \in Edges(prog)}) \ {Nil}
Wanted(e) == e = Start \/ (Seen(e[1]) /\ EdgeAlive(e[1], e[2]))
EdgesOK ==
  /\ \A e \in Listed : Wanted(e)
  /\ \A e \in Edges(prog) : ~dead[e] => Wanted(e) /\ Dest(e) # Gone /\ Came(Dest(e))
  /\ ~dead[Start] \/ Start \in Listed
  /\ \A b \in Blocks(prog) : Came(b) => \E e \in Edges(prog) : ~dead[e] /\ Dest(e) = b
  /\ \A b \in Blocks(prog) : Seen(b) /\ prog.jmp[b] = "jmp" =>
       ~dead[<<b, 0>>] \/ (pc \in {"left", "loop"} /\ flowrk = <<b, 0>>)

(* The search has not left the blocks that can be reached without d, as    *)
(* long as it was not through d.                                           *)
Dominated ==
  \A d \in Blocks(prog) : \A S \in SUBSET Blocks(prog) :
    Closed(prog, S, d) /\ ~Seen(d) => \A b \in Blocks(prog) : Came(b) => b \in S \cup {d}

(* What was visited has a value.                                           *)
Defined ==
  /\ \A b \in Blocks(prog) : Seen(b) => \A t \in Defs(prog, b) : val[t] # Top
  /\ pc = "phi" => \A j \in 1..i - 1 : val[prog.phi[n][j].to] # Top
  /\ pc = "ins" => /\ \A t \in PhiDefs(prog, n) : val[t] # Top
                   /\ \A j \in 1..i - 1 : val[prog.ins[n][j].to] # Top

(* No value is further down than its operands say.                         *)
NotBelow ==
  \A b \in Blocks(prog) :
    /\ \A j \in DOMAIN prog.phi[b] : Leq(val[prog.phi[b][j].to], PhiValue(prog.phi[b][j], b))
    /\ \A j \in DOMAIN prog.ins[b] : Leq(val[prog.ins[b][j].to], InsValue(prog.ins[b][j]))

(* What was visited and is not what its operands say is about to be        *)
(* visited again.                                                          *)
Pending(type, b, j) ==
  Statement(type, b, j) \in ToSet(usewrk) \/ (pc = type /\ n = b /\ i = j)
UpToDate ==
  \A b \in Blocks(prog) :
    /\ \A j \in DOMAIN prog.phi[b] :
         Came(b) /\ (pc = "phi" /\ n = b => j < i) =>
           val[prog.phi[b][j].to] = PhiValue(prog.phi[b][j], b) \/ Pending("UPhi", b, j)
    /\ \A j \in DOMAIN prog.ins[b] :
         Seen(b) \/ (pc = "ins" /\ n = b /\ j < i) =>
           val[prog.ins[b][j].to] = InsValue(prog.ins[b][j]) \/ Pending("UIns", b, j)
    /\ \A k \in {0, 1} : Seen(b) /\ EdgeAlive(b, k) =>
         ~dead[<<b, k>>] \/ <<b, k>> \in Listed \/ Pending("UJmp", b, 1)

SearchInv ==
  Typed /\ Placed /\ AList /\ EdgesOK /\ Dominated /\ Defined /\ NotBelow /\ UpToDate

(* The function phase 2 has so far: its phis and predecessor lists agree   *)
(* with its edges, and the blocks it did not get to are as they were, but  *)
(* for the phi arguments of deleted edges.                                 *)
Consistent(p) ==
  \A d \in Blocks(prog) :
    /\ p.pred[d] = Preds(p, d)
    /\ \A j \in DOMAIN p.phi[d] :
         LET f == p.phi[d][j]
         IN Len(f.blk) = Len(f.arg) /\ IsInjective(f.blk) /\ ToSet(f.blk) = Preds(p, d)
PhisAlike(q, p, b) ==
  /\ DOMAIN q.phi[b] = DOMAIN p.phi[b]
  /\ \A j \in DOMAIN q.phi[b] :
       /\ q.phi[b][j].to = p.phi[b][j].to
       /\ \A a \in DOMAIN q.phi[b][j].blk : \E c \in DOMAIN p.phi[b][j].blk :
            /\ q.phi[b][j].blk[a] = p.phi[b][j].blk[c]
            /\ q.phi[b][j].arg[a] = p.phi[b][j].arg[c]
Like(q, p, b) ==
  /\ q.s1[b] = p.s1[b] /\ q.s2[b] = p.s2[b]
  /\ q.jmp[b] = p.jmp[b] /\ q.arg[b] = p.arg[b] /\ q.ins[b] = p.ins[b]
  /\ PhisAlike(q, p, b)
OutOK ==
  /\ Searching => out = prog
  /\ out \in Functions(prog.n) /\ Consistent(out)
  /\ pc = "trim" => \A k \in i..Len(prog.link) : Like(out, prog, prog.link[k])

IInv == SearchInv /\ OutOK

-----------------------------------------------------------------------------
(* The functions and the lists of their uses.                              *)
PhisOf(N) == [to : Temps, blk : Seq(0..N - 1), arg : Seq(Operands)]
InsOf == [to : Temps, op : {"xor", "div", "load", "nop"}, arg : Seq(Operands)]

(* The fields of a function.                                               *)
LEMMA RecordIs ==
  ASSUME NEW N, NEW p \in Functions(N)
  PROVE  /\ p.n = N /\ p.link \in Seq(0..N - 1)
         /\ p.s1 \in [0..N - 1 -> 0..N - 1 \cup {Gone}] /\ p.s2 \in [0..N - 1 -> 0..N - 1 \cup {Gone}]
         /\ p.jmp \in [0..N - 1 -> {"ret", "jmp", "jnz"}] /\ p.arg \in [0..N - 1 -> Operands]
         /\ p.phi \in [0..N - 1 -> Seq(PhisOf(N))] /\ p.ins \in [0..N - 1 -> Seq(InsOf)]
         /\ p.pred \in [0..N - 1 -> SUBSET (0..N - 1)]
  BY DEF Functions, PhisOf, InsOf

(* What the parts of a function are.                                       *)
LEMMA PartsAre ==
  ASSUME NEW N \in Nat, NEW p \in Functions(N), NEW b \in 0..N - 1
  PROVE  /\ Blocks(p) = 0..N - 1
         /\ p.arg[b] \in Operands
         /\ Len(p.phi[b]) \in Nat /\ DOMAIN p.phi[b] = 1..Len(p.phi[b])
         /\ \A j \in DOMAIN p.phi[b] :
              /\ p.phi[b][j] \in PhisOf(N) /\ p.phi[b][j].to \in Temps
              /\ p.phi[b][j].blk \in Seq(Blocks(p)) /\ p.phi[b][j].arg \in Seq(Operands)
              /\ Len(p.phi[b][j].blk) \in Nat
              /\ DOMAIN p.phi[b][j].blk = 1..Len(p.phi[b][j].blk)
         /\ Len(p.ins[b]) \in Nat /\ DOMAIN p.ins[b] = 1..Len(p.ins[b])
         /\ \A j \in DOMAIN p.ins[b] :
              /\ p.ins[b][j] \in InsOf /\ p.ins[b][j].to \in Temps
              /\ p.ins[b][j].arg \in Seq(Operands)
<1>1. Blocks(p) = 0..N - 1
  BY RecordIs DEF Blocks
<1>2. p.arg[b] \in Operands /\ p.phi[b] \in Seq(PhisOf(N)) /\ p.ins[b] \in Seq(InsOf)
  <2>1. /\ p.arg \in [0..N - 1 -> Operands]
        /\ p.phi \in [0..N - 1 -> Seq(PhisOf(N))] /\ p.ins \in [0..N - 1 -> Seq(InsOf)]
    BY RecordIs
  <2> QED
    BY <2>1
<1>3. /\ Len(p.phi[b]) \in Nat /\ DOMAIN p.phi[b] = 1..Len(p.phi[b])
      /\ \A j \in DOMAIN p.phi[b] : p.phi[b][j] \in PhisOf(N)
      /\ Len(p.ins[b]) \in Nat /\ DOMAIN p.ins[b] = 1..Len(p.ins[b])
      /\ \A j \in DOMAIN p.ins[b] : p.ins[b][j] \in InsOf
  BY <1>2
<1>4. \A f \in PhisOf(N) : /\ f.to \in Temps /\ f.blk \in Seq(0..N - 1) /\ f.arg \in Seq(Operands)
                           /\ Len(f.blk) \in Nat /\ DOMAIN f.blk = 1..Len(f.blk)
  BY DEF PhisOf
<1>5. \A s \in InsOf : s.to \in Temps /\ s.arg \in Seq(Operands)
  BY DEF InsOf
<1> QED
  BY <1>1, <1>2, <1>3, <1>4, <1>5

(* The uses filluse records for one statement: none, or that statement.    *)
LEMMA UsesInIs ==
  ASSUME NEW type, NEW b, NEW j, NEW t, NEW args \in Seq(Operands)
  PROVE  /\ UsesIn(type, b, j, args, t) \in Seq({Statement(type, b, j)})
         /\ \A u : u \in ToSet(UsesIn(type, b, j, args, t))
                     <=> u = Statement(type, b, j) /\ t \in ToSet(args)
<1> DEFINE A == {Statement(type, b, j)}
<1> DEFINE one == <<Statement(type, b, j)>>
<1> DEFINE ss == [x \in DOMAIN args |-> IF args[x] = t THEN one ELSE <<>>]
<1>1. one \in Seq(A) /\ <<>> \in Seq(A) /\ ToSet(one) = A /\ ToSet(<<>>) = {}
  BY DEF ToSet
<1>2. UsesIn(type, b, j, args, t) = Concat(ss)
  BY DEF UsesIn, Statement
<1>3. Len(args) \in Nat /\ DOMAIN args = 1..Len(args)
  OBVIOUS
<1>4. ss = [x \in 1..Len(args) |-> ss[x]] /\ \A x \in 1..Len(args) : ss[x] \in Seq(A)
  <2> HIDE DEF A, one
  <2> QED
    BY <1>1, <1>3
<1>5. /\ \A x \in 1..Len(args) : args[x] = t => ss[x] = one
      /\ \A x \in 1..Len(args) : args[x] # t => ss[x] = <<>>
  BY <1>3
<1> HIDE DEF A, one, ss
<1>6. ss \in Seq(Seq(A)) /\ Len(ss) = Len(args)
  BY <1>3, <1>4, MakesList
<1>7. /\ Concat(ss) \in Seq(A)
      /\ \A u : u \in ToSet(Concat(ss)) <=> \E x \in 1..Len(ss) : u \in ToSet(ss[x])
  BY <1>6, ConcatIs
<1>8. ASSUME NEW u
      PROVE  (\E x \in 1..Len(args) : u \in ToSet(ss[x])) <=> u \in A /\ t \in ToSet(args)
  <2>1. t \in ToSet(args) <=> \E x \in 1..Len(args) : args[x] = t
    BY <1>3 DEF ToSet
  <2>2. ASSUME NEW x \in 1..Len(args) PROVE u \in ToSet(ss[x]) <=> args[x] = t /\ u \in A
    BY <1>1, <1>5
  <2> QED
    BY <2>1, <2>2
<1>9. \A u : u \in A <=> u = Statement(type, b, j)
  BY DEF A
<1> QED
  BY <1>2, <1>6, <1>7, <1>8, <1>9 DEF A

(* The list of the uses of t in a block, and all of them.                  *)
UsesAt(p, b, t) ==
     Concat([j \in DOMAIN p.phi[b] |-> UsesIn("UPhi", b, j, p.phi[b][j].arg, t)])
  \o Concat([j \in DOMAIN p.ins[b] |-> UsesIn("UIns", b, j, p.ins[b][j].arg, t)])
  \o UsesIn("UJmp", b, 1, <<p.arg[b]>>, t)
UsedAt(p, b, t, u) ==
  \/ \E j \in DOMAIN p.phi[b] : t \in ToSet(p.phi[b][j].arg) /\ u = Statement("UPhi", b, j)
  \/ \E j \in DOMAIN p.ins[b] : t \in ToSet(p.ins[b][j].arg) /\ u = Statement("UIns", b, j)
  \/ p.arg[b] = t /\ u = Statement("UJmp", b, 1)
Statements(p, b) ==
  {Statement("UPhi", b, j) : j \in DOMAIN p.phi[b]} \cup
  {Statement("UIns", b, j) : j \in DOMAIN p.ins[b]} \cup {Statement("UJmp", b, 1)}

(* The uses filluse records for one block are the statements of the block  *)
(* that mention t.                                                         *)
LEMMA UsesAtIs ==
  ASSUME NEW N \in Nat, NEW p \in Functions(N), NEW b \in 0..N - 1, NEW t
  PROVE  /\ UsesAt(p, b, t) \in Seq(Statements(p, b))
         /\ \A u : u \in ToSet(UsesAt(p, b, t)) <=> UsedAt(p, b, t, u)
<1> DEFINE A == Statements(p, b)
<1> DEFINE phis == [j \in DOMAIN p.phi[b] |-> UsesIn("UPhi", b, j, p.phi[b][j].arg, t)]
<1> DEFINE inss == [j \in DOMAIN p.ins[b] |-> UsesIn("UIns", b, j, p.ins[b][j].arg, t)]
<1> DEFINE jmps == UsesIn("UJmp", b, 1, <<p.arg[b]>>, t)
<1>1. /\ p.arg[b] \in Operands
      /\ Len(p.phi[b]) \in Nat /\ DOMAIN p.phi[b] = 1..Len(p.phi[b])
      /\ \A j \in DOMAIN p.phi[b] : p.phi[b][j].arg \in Seq(Operands)
      /\ Len(p.ins[b]) \in Nat /\ DOMAIN p.ins[b] = 1..Len(p.ins[b])
      /\ \A j \in DOMAIN p.ins[b] : p.ins[b][j].arg \in Seq(Operands)
  BY PartsAre
<1>2. /\ \A j \in DOMAIN p.phi[b] : Statement("UPhi", b, j) \in A
      /\ \A j \in DOMAIN p.ins[b] : Statement("UIns", b, j) \in A
      /\ Statement("UJmp", b, 1) \in A
  BY DEF Statements
<1>3. ASSUME NEW u \in A PROVE Seq({u}) \subseteq Seq(A)
  OBVIOUS
<1> HIDE DEF A
<1>4. /\ Concat(phis) \in Seq(A)
      /\ \A u : u \in ToSet(Concat(phis))
                  <=> \E j \in DOMAIN p.phi[b] : t \in ToSet(p.phi[b][j].arg) /\ u = Statement("UPhi", b, j)
  <2>1. ASSUME NEW j \in DOMAIN p.phi[b]
        PROVE  /\ phis[j] \in Seq(A)
               /\ \A u : u \in ToSet(phis[j]) <=> u = Statement("UPhi", b, j) /\ t \in ToSet(p.phi[b][j].arg)
    <3>1. phis[j] = UsesIn("UPhi", b, j, p.phi[b][j].arg, t) /\ p.phi[b][j].arg \in Seq(Operands)
      BY <1>1
    <3> HIDE DEF phis
    <3> DEFINE q == UsesIn("UPhi", b, j, p.phi[b][j].arg, t)
    <3>2. /\ q \in Seq({Statement("UPhi", b, j)})
          /\ \A u : u \in ToSet(q) <=> u = Statement("UPhi", b, j) /\ t \in ToSet(p.phi[b][j].arg)
      BY <3>1, UsesInIs
    <3>3. Seq({Statement("UPhi", b, j)}) \subseteq Seq(A)
      BY <1>2, <1>3
    <3> QED
      BY <3>1, <3>2, <3>3
  <2>2. phis = [j \in 1..Len(p.phi[b]) |-> phis[j]]
    BY <1>1
  <2> HIDE DEF phis
  <2>3. phis \in Seq(Seq(A)) /\ Len(phis) = Len(p.phi[b])
    <3>1. \A j \in 1..Len(p.phi[b]) : phis[j] \in Seq(A)
      BY <1>1, <2>1
    <3>2. phis \in [1..Len(p.phi[b]) -> Seq(A)]
      BY <2>2, <3>1
    <3> QED
      BY <1>1, <3>2
  <2>4. /\ Concat(phis) \in Seq(A)
        /\ \A u : u \in ToSet(Concat(phis)) <=> \E j \in 1..Len(phis) : u \in ToSet(phis[j])
    BY <2>3, ConcatIs
  <2> QED
    BY <2>1, <2>3, <2>4, <1>1
<1>5. /\ Concat(inss) \in Seq(A)
      /\ \A u : u \in ToSet(Concat(inss))
                  <=> \E j \in DOMAIN p.ins[b] : t \in ToSet(p.ins[b][j].arg) /\ u = Statement("UIns", b, j)
  <2>1. ASSUME NEW j \in DOMAIN p.ins[b]
        PROVE  /\ inss[j] \in Seq(A)
               /\ \A u : u \in ToSet(inss[j]) <=> u = Statement("UIns", b, j) /\ t \in ToSet(p.ins[b][j].arg)
    <3>1. inss[j] = UsesIn("UIns", b, j, p.ins[b][j].arg, t) /\ p.ins[b][j].arg \in Seq(Operands)
      BY <1>1
    <3> HIDE DEF inss
    <3> DEFINE q == UsesIn("UIns", b, j, p.ins[b][j].arg, t)
    <3>2. /\ q \in Seq({Statement("UIns", b, j)})
          /\ \A u : u \in ToSet(q) <=> u = Statement("UIns", b, j) /\ t \in ToSet(p.ins[b][j].arg)
      BY <3>1, UsesInIs
    <3>3. Seq({Statement("UIns", b, j)}) \subseteq Seq(A)
      BY <1>2, <1>3
    <3> QED
      BY <3>1, <3>2, <3>3
  <2>2. inss = [j \in 1..Len(p.ins[b]) |-> inss[j]]
    BY <1>1
  <2> HIDE DEF inss
  <2>3. inss \in Seq(Seq(A)) /\ Len(inss) = Len(p.ins[b])
    <3>1. \A j \in 1..Len(p.ins[b]) : inss[j] \in Seq(A)
      BY <1>1, <2>1
    <3>2. inss \in [1..Len(p.ins[b]) -> Seq(A)]
      BY <2>2, <3>1
    <3> QED
      BY <1>1, <3>2
  <2>4. /\ Concat(inss) \in Seq(A)
        /\ \A u : u \in ToSet(Concat(inss)) <=> \E j \in 1..Len(inss) : u \in ToSet(inss[j])
    BY <2>3, ConcatIs
  <2> QED
    BY <2>1, <2>3, <2>4, <1>1
<1>6. /\ jmps \in Seq(A)
      /\ \A u : u \in ToSet(jmps) <=> p.arg[b] = t /\ u = Statement("UJmp", b, 1)
  <2>1. <<p.arg[b]>> \in Seq(Operands) /\ ToSet(<<p.arg[b]>>) = {p.arg[b]}
    BY <1>1 DEF ToSet
  <2>2. /\ jmps \in Seq({Statement("UJmp", b, 1)})
        /\ \A u : u \in ToSet(jmps) <=> u = Statement("UJmp", b, 1) /\ t \in ToSet(<<p.arg[b]>>)
    BY <2>1, UsesInIs
  <2> HIDE DEF jmps
  <2> QED
    BY <2>1, <2>2, <1>2, <1>3
<1>7. UsesAt(p, b, t) = (Concat(phis) \o Concat(inss)) \o jmps
  BY DEF UsesAt
<1> HIDE DEF phis, inss, jmps
<1> DEFINE both == Concat(phis) \o Concat(inss)
<1>8. both \in Seq(A) /\ ToSet(both) = ToSet(Concat(phis)) \cup ToSet(Concat(inss))
  BY <1>4, <1>5, JoinIs
<1>9. UsesAt(p, b, t) = both \o jmps
  BY <1>7
<1> HIDE DEF both
<1>10. both \o jmps \in Seq(A) /\ ToSet(both \o jmps) = ToSet(both) \cup ToSet(jmps)
  BY <1>8, <1>6, JoinIs
<1>11. \A u : u \in ToSet(UsesAt(p, b, t)) <=> UsedAt(p, b, t, u)
  BY <1>4, <1>5, <1>6, <1>8, <1>9, <1>10 DEF UsedAt
<1> QED
  BY <1>9, <1>10, <1>11 DEF A

(* The list filluse makes for t holds exactly the statements that mention  *)
(* t.                                                                      *)
LEMMA UsesAre ==
  ASSUME NEW p, WellFormed(p), NEW t \in Temps
  PROVE  Uses(p, t) \in Seq(AllUses(p)) /\ ToSet(Uses(p, t)) = UsesOf(p, t)
<1> DEFINE ss == [x \in DOMAIN p.link |-> UsesAt(p, p.link[x], t)]
<1> DEFINE A == UNION {Statements(p, b) : b \in Blocks(p)}
<1>1. /\ p.n \in Nat /\ p \in Functions(p.n) /\ p.link \in Seq(0..p.n - 1)
      /\ Blocks(p) = 0..p.n - 1 /\ ToSet(p.link) = Blocks(p)
  BY RecordIs DEF WellFormed, Blocks
<1>2. Len(p.link) \in Nat /\ DOMAIN p.link = 1..Len(p.link) /\ \A x \in 1..Len(p.link) : p.link[x] \in Blocks(p)
  BY <1>1
<1>3. Uses(p, t) = Concat(ss)
  BY DEF Uses, UsesAt
<1>4. ASSUME NEW x \in 1..Len(p.link)
      PROVE  /\ ss[x] \in Seq(A)
             /\ \A u : u \in ToSet(ss[x]) <=> UsedAt(p, p.link[x], t, u)
  <2>1. ss[x] = UsesAt(p, p.link[x], t) /\ p.link[x] \in 0..p.n - 1
    BY <1>1, <1>2
  <2>2. Statements(p, p.link[x]) \subseteq A
    BY <1>2
  <2> HIDE DEF ss, A
  <2>3. /\ ss[x] \in Seq(Statements(p, p.link[x]))
        /\ \A u : u \in ToSet(ss[x]) <=> UsedAt(p, p.link[x], t, u)
    BY <2>1, <1>1, UsesAtIs
  <2> QED
    BY <2>2, <2>3
<1>5. ss = [x \in 1..Len(p.link) |-> ss[x]]
  BY <1>2
<1> HIDE DEF ss
<1>6. ss \in Seq(Seq(A)) /\ Len(ss) = Len(p.link)
  <2> HIDE DEF A
  <2> QED
    BY <1>2, <1>4, <1>5, MakesList
<1>7. /\ Concat(ss) \in Seq(A)
      /\ \A u : u \in ToSet(Concat(ss)) <=> \E x \in 1..Len(ss) : u \in ToSet(ss[x])
  <2> HIDE DEF A
  <2> QED
    BY <1>6, ConcatIs
<1>8. \A u : u \in ToSet(Concat(ss)) <=> \E b \in Blocks(p) : UsedAt(p, b, t, u)
  <2>1. \A b \in Blocks(p) : \E x \in 1..Len(p.link) : p.link[x] = b
    BY <1>1, <1>2 DEF ToSet
  <2>2. ASSUME NEW u, NEW b \in Blocks(p), UsedAt(p, b, t, u) PROVE u \in ToSet(Concat(ss))
    <3>1. PICK x \in 1..Len(p.link) : p.link[x] = b
      BY <2>1
    <3>2. u \in ToSet(ss[x])
      BY <1>4, <2>2, <3>1
    <3> QED
      BY <1>6, <1>7, <3>2
  <2>3. ASSUME NEW u \in ToSet(Concat(ss)) PROVE \E b \in Blocks(p) : UsedAt(p, b, t, u)
    <3>1. PICK x \in 1..Len(p.link) : u \in ToSet(ss[x])
      BY <1>6, <1>7
    <3>2. UsedAt(p, p.link[x], t, u)
      BY <1>4, <3>1
    <3> QED
      BY <1>2, <3>2
  <2> QED
    BY <2>2, <2>3
<1>9. \A u : u \in UsesOf(p, t) <=> \E b \in Blocks(p) : UsedAt(p, b, t, u)
  BY DEF UsesOf, PhiUses, InsUses, JmpUses, UsedAt
<1>10. ToSet(Uses(p, t)) = UsesOf(p, t)
  BY <1>3, <1>8, <1>9
<1>11. Uses(p, t) \in Seq(UsesOf(p, t))
  <2> DEFINE q == Uses(p, t)
  <2>1. q \in Seq(A)
    BY <1>3, <1>7
  <2>2. ToSet(q) = UsesOf(p, t)
    BY <1>10
  <2> HIDE DEF q, A
  <2>3. /\ Len(q) \in Nat /\ DOMAIN q = 1..Len(q)
        /\ \A j \in 1..Len(q) : q[j] \in UsesOf(p, t)
    BY <2>1, <2>2, ListIs
  <2>4. q = [j \in 1..Len(q) |-> q[j]]
    BY <2>1, <2>3
  <2>5. q \in [1..Len(q) -> UsesOf(p, t)]
    BY <2>3, <2>4
  <2>6. q \in Seq(UsesOf(p, t))
    BY <2>3, <2>5
  <2> QED
    BY <2>6 DEF q
<1>12. UsesOf(p, t) \subseteq AllUses(p)
  BY DEF AllUses
<1> QED
  BY <1>10, <1>11, <1>12

-----------------------------------------------------------------------------
(* What the invariant says of the function, its edges and its operands.    *)
LEMMA ProgIs ==
  ASSUME Typed
  PROVE  /\ WellFormed(prog) /\ DefinedOnce(prog) /\ DefinedBefore(prog)
         /\ prog.n \in Nat \ {0} /\ prog \in Functions(prog.n)
         /\ Blocks(prog) = 0..prog.n - 1 /\ 0 \in Blocks(prog)
<1>1. WellFormed(prog) /\ DefinedOnce(prog) /\ DefinedBefore(prog)
  BY SccpAssumption DEF Typed
<1>2. prog.n \in Nat \ {0} /\ prog \in Functions(prog.n)
  BY <1>1 DEF WellFormed
<1> QED
  BY <1>1, <1>2 DEF Blocks

(* What a phi of the function is.                                          *)
LEMMA PhiAt ==
  ASSUME Typed, NEW b \in Blocks(prog), NEW j \in DOMAIN prog.phi[b]
  PROVE  LET f == prog.phi[b][j]
         IN /\ f.to \in Temps /\ f.to \in PhiDefs(prog, b) /\ f.arg \in Seq(Operands)
            /\ Len(f.blk) \in Nat /\ DOMAIN f.blk = 1..Len(f.blk) /\ Len(f.arg) = Len(f.blk)
            /\ DOMAIN f.arg = DOMAIN f.blk
            /\ \A a \in DOMAIN f.blk : f.blk[a] \in Blocks(prog) /\ f.arg[a] \in Operands
            /\ ToSet(f.blk) = Preds(prog, b) /\ IsInjective(f.blk)
            /\ Len(prog.phi[b]) \in Nat /\ j \in 1..Len(prog.phi[b])
<1> DEFINE f == prog.phi[b][j]
<1>1. /\ prog.n \in Nat /\ prog \in Functions(prog.n) /\ b \in 0..prog.n - 1
      /\ WellFormed(prog)
  BY ProgIs
<1>2. /\ f.to \in Temps /\ f.blk \in Seq(Blocks(prog)) /\ f.arg \in Seq(Operands)
      /\ Len(prog.phi[b]) \in Nat /\ DOMAIN prog.phi[b] = 1..Len(prog.phi[b])
  BY <1>1, PartsAre
<1>3. Len(f.blk) = Len(f.arg) /\ IsInjective(f.blk) /\ ToSet(f.blk) = Preds(prog, b)
  BY <1>1 DEF WellFormed
<1>4. f.to \in PhiDefs(prog, b)
  BY DEF PhiDefs
<1> HIDE DEF f
<1>5. /\ Len(f.blk) \in Nat /\ DOMAIN f.blk = 1..Len(f.blk) /\ DOMAIN f.arg = 1..Len(f.arg)
      /\ \A a \in 1..Len(f.blk) : f.blk[a] \in Blocks(prog)
      /\ \A a \in 1..Len(f.arg) : f.arg[a] \in Operands
  BY <1>2
<1>6. /\ f.to \in Temps /\ f.to \in PhiDefs(prog, b) /\ f.arg \in Seq(Operands)
      /\ Len(f.blk) \in Nat /\ DOMAIN f.blk = 1..Len(f.blk) /\ Len(f.arg) = Len(f.blk)
      /\ DOMAIN f.arg = DOMAIN f.blk
      /\ \A a \in DOMAIN f.blk : f.blk[a] \in Blocks(prog) /\ f.arg[a] \in Operands
      /\ ToSet(f.blk) = Preds(prog, b) /\ IsInjective(f.blk)
      /\ Len(prog.phi[b]) \in Nat /\ j \in 1..Len(prog.phi[b])
  BY <1>2, <1>3, <1>4, <1>5
<1> QED
  BY <1>6 DEF f

(* What an instruction of the function is.                                 *)
LEMMA InsAt ==
  ASSUME Typed, NEW b \in Blocks(prog), NEW j \in DOMAIN prog.ins[b]
  PROVE  LET s == prog.ins[b][j]
         IN /\ s.to \in Temps /\ s.to \in InsDefs(prog, b) /\ s.op \in {"xor", "div", "load"}
            /\ s.arg \in Seq(Operands) /\ Len(s.arg) = 2 /\ ToSet(s.arg) = {s.arg[1], s.arg[2]}
            /\ s.arg[1] \in Operands /\ s.arg[2] \in Operands
            /\ Len(prog.ins[b]) \in Nat /\ j \in 1..Len(prog.ins[b])
<1> DEFINE s == prog.ins[b][j]
<1>1. /\ prog.n \in Nat /\ prog \in Functions(prog.n) /\ b \in 0..prog.n - 1
      /\ WellFormed(prog)
  BY ProgIs
<1>2. /\ s \in InsOf /\ s.to \in Temps /\ s.arg \in Seq(Operands)
      /\ Len(prog.ins[b]) \in Nat /\ DOMAIN prog.ins[b] = 1..Len(prog.ins[b])
  BY <1>1, PartsAre
<1>3. s.op # "nop" /\ Len(s.arg) = 2
  BY <1>1 DEF WellFormed
<1>4. s.to \in InsDefs(prog, b)
  BY DEF InsDefs
<1> HIDE DEF s
<1>5. s.op \in {"xor", "div", "load"}
  BY <1>2, <1>3 DEF InsOf
<1>6. DOMAIN s.arg = {1, 2} /\ s.arg[1] \in Operands /\ s.arg[2] \in Operands
  BY <1>2, <1>3
<1>7. ToSet(s.arg) = {s.arg[1], s.arg[2]}
  BY <1>6 DEF ToSet
<1> QED
  BY <1>2, <1>3, <1>4, <1>5, <1>6, <1>7 DEF s

(* What a jump of the function is.                                         *)
LEMMA JmpAt ==
  ASSUME Typed, NEW b \in Blocks(prog)
  PROVE  /\ prog.jmp[b] \in {"ret", "jmp", "jnz"} /\ prog.arg[b] \in Operands
         /\ prog.s1[b] \in Blocks(prog) \cup {Gone} /\ prog.s2[b] \in Blocks(prog) \cup {Gone}
         /\ prog.jmp[b] = "ret" => prog.s1[b] = Gone /\ prog.s2[b] = Gone
         /\ prog.jmp[b] = "jmp" => prog.s1[b] # Gone /\ prog.s2[b] = Gone /\ prog.arg[b] = 0
         /\ prog.jmp[b] = "jnz" => prog.s1[b] # Gone /\ prog.s2[b] # Gone
         /\ Gone \notin Blocks(prog)
<1>1. /\ prog.n \in Nat /\ prog \in Functions(prog.n) /\ b \in 0..prog.n - 1
      /\ WellFormed(prog) /\ Blocks(prog) = 0..prog.n - 1
  BY ProgIs
<1>2. /\ prog.s1 \in [0..prog.n - 1 -> 0..prog.n - 1 \cup {Gone}]
      /\ prog.s2 \in [0..prog.n - 1 -> 0..prog.n - 1 \cup {Gone}]
      /\ prog.jmp \in [0..prog.n - 1 -> {"ret", "jmp", "jnz"}] /\ prog.arg \in [0..prog.n - 1 -> Operands]
  BY <1>1, RecordIs
<1>3. /\ prog.jmp[b] \in {"ret", "jmp", "jnz"} /\ prog.arg[b] \in Operands
      /\ prog.s1[b] \in Blocks(prog) \cup {Gone} /\ prog.s2[b] \in Blocks(prog) \cup {Gone}
  BY <1>1, <1>2
<1>4. Gone \notin Blocks(prog)
  BY <1>1 DEF Gone
<1> QED
  BY <1>1, <1>3, <1>4 DEF WellFormed

(* An edge is the one into the start or one of the two of a block.         *)
LEMMA EdgeIs ==
  ASSUME Typed
  PROVE  /\ Start \in Edges(prog) /\ Dest(Start) = 0 /\ Nil \notin Edges(prog)
         /\ \A b \in Blocks(prog) : \A k \in {0, 1} :
              /\ <<b, k>> \in Edges(prog) /\ <<b, k>> # Start
              /\ Dest(<<b, k>>) = Succ(prog, b, k) /\ Succ(prog, b, k) \in Blocks(prog) \cup {Gone}
              /\ Succ(prog, b, k) # Gone => Succ(prog, b, k) \in Succs(prog, b)
         /\ \A e \in Edges(prog) : e # Start =>
              /\ e[1] \in Blocks(prog) /\ e[2] \in {0, 1} /\ e = <<e[1], e[2]>>
              /\ Dest(e) = Succ(prog, e[1], e[2])
<1>1. Blocks(prog) = 0..prog.n - 1 /\ prog.n \in Nat
  BY ProgIs
<1>2. \A b \in Blocks(prog) : \A k \in {0, 1} : <<b, k>> # Start
  BY <1>1 DEF Start
<1>3. Start \in Edges(prog) /\ Dest(Start) = 0 /\ Nil \notin Edges(prog)
  BY DEF Edges, Start, Nil, Dest
<1>4. ASSUME NEW b \in Blocks(prog), NEW k \in {0, 1}
      PROVE  /\ <<b, k>> \in Edges(prog) /\ <<b, k>> # Start
             /\ Dest(<<b, k>>) = Succ(prog, b, k) /\ Succ(prog, b, k) \in Blocks(prog) \cup {Gone}
             /\ Succ(prog, b, k) # Gone => Succ(prog, b, k) \in Succs(prog, b)
  <2>1. Dest(<<b, k>>) = Succ(prog, b, k)
    BY <1>2 DEF Dest
  <2>2. prog.s1[b] \in Blocks(prog) \cup {Gone} /\ prog.s2[b] \in Blocks(prog) \cup {Gone}
    BY JmpAt
  <2> QED
    BY <1>2, <2>1, <2>2 DEF Edges, Succ, Succs
<1>5. ASSUME NEW e \in Edges(prog), e # Start
      PROVE  /\ e[1] \in Blocks(prog) /\ e[2] \in {0, 1} /\ e = <<e[1], e[2]>>
             /\ Dest(e) = Succ(prog, e[1], e[2])
  BY <1>5 DEF Edges, Dest
<1> QED
  BY <1>3, <1>4, <1>5

(* An edge enters a block or nothing.                                      *)
LEMMA DestIs ==
  ASSUME Typed, NEW e \in Edges(prog)
  PROVE  Dest(e) \in Blocks(prog) \cup {Gone}
<1>1. CASE e = Start
  <2>1. Dest(Start) = 0 /\ 0 \in Blocks(prog)
    BY EdgeIs, ProgIs
  <2> QED
    BY <2>1, <1>1
<1>2. CASE e # Start
  <2>1. e[1] \in Blocks(prog) /\ e[2] \in {0, 1} /\ Dest(e) = Succ(prog, e[1], e[2])
    BY <1>2, EdgeIs
  <2>2. Succ(prog, e[1], e[2]) \in Blocks(prog) \cup {Gone}
    BY <2>1, EdgeIs
  <2> QED
    BY <2>1, <2>2
<1> QED
  BY <1>1, <1>2

(* A constant is itself, and neither Top nor Bot.                          *)
LEMMA LatIs ==
  ASSUME Typed
  PROVE  /\ \A e \in Operands : LatVal(e) \in Vals
         /\ \A e \in Operands \ Temps : LatVal(e) = e /\ e \in Nat
         /\ \A e \in Temps : LatVal(e) = val[e] /\ e \in Operands
         /\ \A e \in Nat : LatVal(e) = e /\ e \notin Temps /\ e # Top /\ e # Bot
  BY SccpAssumption DEF Typed, LatVal, Operands, Vals, Top, Bot

(* What an instruction makes of two values.                                *)
InsVal(op, l, r) ==
  IF op = "load" \/ l = Bot \/ r = Bot THEN Bot
  ELSE IF l = Top \/ r = Top THEN Top ELSE OpFold(op, l, r)

(* Folding gives a constant or gives up.                                   *)
LEMMA OpFoldIs ==
  ASSUME NEW op \in {"xor", "div"}, NEW l \in Nat, NEW r \in Nat
  PROVE  OpFold(op, l, r) \in Nat \cup {Bot}
<1>1. CASE op = "xor"
  <2>1. OpFold(op, l, r) = (l + r) % 2
    BY <1>1 DEF OpFold
  <2> QED
    BY <2>1
<1>2. CASE op = "div" /\ r = 0
  <2>1. OpFold(op, l, r) = Bot
    BY <1>2 DEF OpFold
  <2> QED
    BY <2>1
<1>3. CASE op = "div" /\ r # 0
  <2>1. OpFold(op, l, r) = l \div r
    BY <1>3 DEF OpFold
  <2>2. r > 0
    BY <1>3
  <2> QED
    BY <2>1, <2>2
<1> QED
  BY <1>1, <1>2, <1>3

(* What an instruction makes is a lattice value, not Top if its operands   *)
(* are not, and monotone.                                                  *)
LEMMA InsValIs ==
  ASSUME NEW op \in {"xor", "div", "load"}, NEW l \in Vals, NEW r \in Vals
  PROVE  /\ InsVal(op, l, r) \in Vals
         /\ l # Top /\ r # Top => InsVal(op, l, r) # Top
         /\ \A u, w \in Vals : Leq(l, u) /\ Leq(r, w) => Leq(InsVal(op, l, r), InsVal(op, u, w))
<1>1. \A u \in Vals : u = Top \/ u = Bot \/ u \in Nat
  BY DEF Vals
<1>2. Top \in Vals /\ Bot \in Vals /\ Top # Bot /\ Top \notin Nat /\ Bot \notin Nat /\ Nat \subseteq Vals
  BY DEF Vals, Top, Bot
<1>3. \A u, w \in Nat : op # "load" => OpFold(op, u, w) \in Nat \cup {Bot}
  BY OpFoldIs
<1>4. InsVal(op, l, r) \in Vals /\ (l # Top /\ r # Top => InsVal(op, l, r) # Top)
  BY <1>1, <1>2, <1>3 DEF InsVal
<1>5. ASSUME NEW u \in Vals, NEW w \in Vals, Leq(l, u), Leq(r, w)
      PROVE  Leq(InsVal(op, l, r), InsVal(op, u, w))
  <2>1. CASE op = "load" \/ u = Bot \/ w = Bot
    BY <2>1 DEF InsVal, Leq
  <2>2. CASE op # "load" /\ l # Bot /\ r # Bot /\ (l = Top \/ r = Top)
    BY <2>2 DEF InsVal, Leq
  <2>3. CASE op # "load" /\ u # Bot /\ w # Bot /\ ~(l # Bot /\ r # Bot /\ (l = Top \/ r = Top))
    <3>1. l = u /\ r = w
      BY <1>2, <1>5, <2>3 DEF Leq
    <3> QED
      BY <3>1 DEF Leq
  <2> QED
    BY <2>1, <2>2, <2>3
<1> QED
  BY <1>4, <1>5

(* The same of an instruction of the function.                             *)
LEMMA InsValueIs ==
  ASSUME Typed, NEW b \in Blocks(prog), NEW j \in DOMAIN prog.ins[b]
  PROVE  LET s == prog.ins[b][j]
         IN /\ InsValue(s) = InsVal(s.op, LatVal(s.arg[1]), LatVal(s.arg[2]))
            /\ InsValue(s) \in Vals
            /\ LatVal(s.arg[1]) # Top /\ LatVal(s.arg[2]) # Top => InsValue(s) # Top
<1> DEFINE s == prog.ins[b][j]
<1>1. s.op \in {"xor", "div", "load"} /\ s.arg[1] \in Operands /\ s.arg[2] \in Operands
  BY InsAt
<1> HIDE DEF s
<1>2. LatVal(s.arg[1]) \in Vals /\ LatVal(s.arg[2]) \in Vals
  BY <1>1, LatIs
<1>3. InsValue(s) = InsVal(s.op, LatVal(s.arg[1]), LatVal(s.arg[2]))
  BY DEF InsValue, InsVal
<1>4. /\ InsVal(s.op, LatVal(s.arg[1]), LatVal(s.arg[2])) \in Vals
      /\ LatVal(s.arg[1]) # Top /\ LatVal(s.arg[2]) # Top
           => InsVal(s.op, LatVal(s.arg[1]), LatVal(s.arg[2])) # Top
  BY <1>1, <1>2, InsValIs
<1> QED
  BY <1>3, <1>4 DEF s

(* The value visitphi finds is the join of what the phi hears.             *)
LEMMA PhiValueIs ==
  ASSUME Typed, NEW b \in Blocks(prog), NEW j \in DOMAIN prog.phi[b]
  PROVE  LET f == prog.phi[b][j]
         IN /\ PhiValue(f, b) = Join(Heard(f, b)) /\ Heard(f, b) \in SUBSET Vals
            /\ PhiValue(f, b) \in Vals
<1> DEFINE f == prog.phi[b][j]
<1>1. /\ Len(f.blk) \in Nat /\ DOMAIN f.blk = 1..Len(f.blk)
      /\ \A a \in DOMAIN f.blk : f.arg[a] \in Operands
  BY PhiAt
<1> HIDE DEF f
<1>2. \A a \in 1..Len(f.blk) : LatVal(f.arg[a]) \in Vals
  BY <1>1, LatIs
<1>3. PhiValue(f, b) = Join(Heard(f, b)) /\ Heard(f, b) \in SUBSET Vals
  BY <1>1, <1>2, PhiIs
<1>4. Join(Heard(f, b)) \in Vals
  BY <1>3, JoinFacts
<1> QED
  BY <1>3, <1>4 DEF f

(* A phi has a value as soon as an edge to it is alive and its argument    *)
(* has one.                                                                *)
LEMMA PhiHasValue ==
  ASSUME Typed, NEW b \in Blocks(prog), NEW j \in DOMAIN prog.phi[b],
         NEW a \in DOMAIN prog.phi[b][j].blk,
         ~DeadEdge(prog.phi[b][j].blk[a], b), LatVal(prog.phi[b][j].arg[a]) # Top
  PROVE  PhiValue(prog.phi[b][j], b) # Top
<1> DEFINE f == prog.phi[b][j]
<1>1. PhiValue(f, b) = Join(Heard(f, b)) /\ Heard(f, b) \in SUBSET Vals
  BY PhiValueIs
<1>2. LatVal(f.arg[a]) \in Heard(f, b)
  BY DEF Heard
<1> HIDE DEF f
<1>3. Join(Heard(f, b)) = Top => Heard(f, b) \subseteq {Top}
  BY <1>1, JoinFacts
<1> QED
  BY <1>1, <1>2, <1>3 DEF f

(* update.                                                                 *)
LEMMA UpdateIs ==
  ASSUME Typed, NEW t \in Temps, NEW m \in Vals, Update(t, m)
  PROVE  /\ val' \in [Temps -> Vals]
         /\ \A e \in Temps : e # t => val'[e] = val[e]
         /\ val'[t] = LatMerge(val[t], m)
         /\ \A e \in Temps : Leq(val[e], val'[e])
         /\ usewrk' \in Seq(AllUses(prog))
         /\ ToSet(usewrk) \subseteq ToSet(usewrk')
         /\ val'[t] # val[t] => UsesOf(prog, t) \subseteq ToSet(usewrk')
<1> DEFINE v == LatMerge(val[t], m)
<1> DEFINE A == AllUses(prog)
<1>1. /\ val \in [Temps -> Vals] /\ use[t] \in Seq(A) /\ ToSet(use[t]) = UsesOf(prog, t)
      /\ usewrk \in Seq(A) /\ val[t] \in Vals
  BY DEF Typed
<1>2. v \in Vals /\ Leq(val[t], v)
  BY <1>1, MergeIs
<1>3. val' = [val EXCEPT ![t] = v] /\ usewrk' = IF v = val[t] THEN usewrk ELSE usewrk \o use[t]
  BY DEF Update
<1> HIDE DEF v, A
<1>4. /\ val' \in [Temps -> Vals] /\ val'[t] = v
      /\ \A e \in Temps : e # t => val'[e] = val[e]
  BY <1>1, <1>2, <1>3
<1>5. \A e \in Temps : Leq(val[e], val'[e])
  BY <1>2, <1>4 DEF Leq
<1>6. usewrk \o use[t] \in Seq(A) /\ ToSet(usewrk \o use[t]) = ToSet(usewrk) \cup ToSet(use[t])
  BY <1>1, JoinIs
<1>7. /\ usewrk' \in Seq(A) /\ ToSet(usewrk) \subseteq ToSet(usewrk')
      /\ v # val[t] => UsesOf(prog, t) \subseteq ToSet(usewrk')
  BY <1>1, <1>3, <1>6
<1> QED
  BY <1>4, <1>5, <1>7 DEF v, A

-----------------------------------------------------------------------------
(* What is used has a value: a definition that dominates a block was       *)
(* visited before the block.                                               *)
LEMMA SeenCame == ASSUME NEW b, Seen(b) PROVE Came(b)
  BY DEF Seen, Came, Busy

(* A definition that dominates a block reached has a value.                *)
LEMMA AvailableDefined ==
  ASSUME Dominated, Defined, NEW b \in Blocks(prog), Came(b), NEW t \in Available(prog, b)
  PROVE  val[t] # Top
<1>1. PICK d \in Blocks(prog) : SDom(prog, d, b) /\ t \in Defs(prog, d)
  BY DEF Available
<1>2. PICK S \in SUBSET (Blocks(prog) \ {b, d}) : Closed(prog, S, d)
  BY <1>1 DEF SDom
<1>3. b \notin S \cup {d} /\ S \in SUBSET Blocks(prog)
  BY <1>1, <1>2 DEF SDom
<1>4. Seen(d)
  BY <1>2, <1>3 DEF Dominated
<1> QED
  BY <1>1, <1>4 DEF Defined

(* An alive edge leaves a block whose jump was visited and enters one that *)
(* was reached.                                                            *)
LEMMA AliveFrom ==
  ASSUME Typed, EdgesOK, NEW a \in Blocks(prog), NEW b \in Blocks(prog), ~DeadEdge(a, b)
  PROVE  Seen(a) /\ Came(b) /\ b \in Succs(prog, a)
<1>1. PICK k \in {0, 1} : Succ(prog, a, k) = b /\ ~dead[<<a, k>>]
  BY DEF DeadEdge
<1>2. <<a, k>> \in Edges(prog) /\ <<a, k>> # Start /\ Dest(<<a, k>>) = b
  BY <1>1, EdgeIs
<1>3. Wanted(<<a, k>>) /\ Came(b)
  BY <1>1, <1>2 DEF EdgesOK
<1>4. Seen(a)
  BY <1>2, <1>3 DEF Wanted
<1>5. b \in Succs(prog, a)
  <2>1. b # Gone
    BY JmpAt
  <2> QED
    BY <1>1, <2>1 DEF Succ, Succs
<1> QED
  BY <1>3, <1>4, <1>5

(* A phi hears no Top: the argument of an alive edge has a value.          *)
LEMMA HeardDefined ==
  ASSUME Typed, EdgesOK, Dominated, Defined,
         NEW b \in Blocks(prog), NEW j \in DOMAIN prog.phi[b], NEW a \in DOMAIN prog.phi[b][j].blk,
         ~DeadEdge(prog.phi[b][j].blk[a], b)
  PROVE  LatVal(prog.phi[b][j].arg[a]) # Top
<1> DEFINE f == prog.phi[b][j]
<1> DEFINE c == f.blk[a]
<1> DEFINE e == f.arg[a]
<1>1. c \in Blocks(prog) /\ e \in Operands
  BY PhiAt
<1>2. Seen(c)
  BY <1>1, AliveFrom
<1>3. e \in Temps => e \in Available(prog, c) \cup Defs(prog, c)
  BY ProgIs DEF DefinedBefore
<1> HIDE DEF c, e
<1>4. CASE e \in Temps
  <2>1. val[e] # Top
    BY <1>1, <1>2, <1>3, <1>4, SeenCame, AvailableDefined DEF Defined
  <2> QED
    BY <1>4, <2>1, LatIs DEF e
<1>5. CASE e \notin Temps
  <2>1. LatVal(e) # Top
    BY <1>1, <1>5, LatIs
  <2> QED
    BY <2>1 DEF e
<1> QED
  BY <1>4, <1>5

(* The operands of a visited jump or instruction.                          *)
LEMMA OperandsDefined ==
  ASSUME Typed, Dominated, Defined, NEW b \in Blocks(prog), Came(b),
         \A t \in PhiDefs(prog, b) : val[t] # Top
  PROVE  /\ (\A t \in InsDefs(prog, b) : val[t] # Top) => LatVal(prog.arg[b]) # Top
         /\ \A j \in DOMAIN prog.ins[b] :
              (\A k \in 1..j - 1 : val[prog.ins[b][k].to] # Top) =>
                LatVal(prog.ins[b][j].arg[1]) # Top /\ LatVal(prog.ins[b][j].arg[2]) # Top
<1>1. \A t \in Available(prog, b) : val[t] # Top
  BY AvailableDefined
<1>2. ASSUME NEW e \in Operands, e \in Temps => val[e] # Top PROVE LatVal(e) # Top
  BY <1>2, LatIs
<1>3. ASSUME \A t \in InsDefs(prog, b) : val[t] # Top PROVE LatVal(prog.arg[b]) # Top
  <2>1. prog.arg[b] \in Operands
    BY JmpAt
  <2>2. prog.arg[b] \in Temps =>
          prog.arg[b] \in Available(prog, b) \cup PhiDefs(prog, b) \cup InsDefs(prog, b)
    BY ProgIs DEF DefinedBefore
  <2>3. prog.arg[b] \in Temps => val[prog.arg[b]] # Top
    BY <2>2, <1>1, <1>3
  <2> QED
    BY <2>1, <2>3, <1>2
<1>4. ASSUME NEW j \in DOMAIN prog.ins[b],
             \A k \in 1..j - 1 : val[prog.ins[b][k].to] # Top,
             NEW e \in ToSet(prog.ins[b][j].arg)
      PROVE  LatVal(e) # Top
  <2>1. e \in Operands
    <3>1. ToSet(prog.ins[b][j].arg) = {prog.ins[b][j].arg[1], prog.ins[b][j].arg[2]}
          /\ prog.ins[b][j].arg[1] \in Operands /\ prog.ins[b][j].arg[2] \in Operands
      BY InsAt
    <3> QED
      BY <3>1, <1>4
  <2>2. ToSet(prog.ins[b][j].arg) \cap Temps
          \subseteq Available(prog, b) \cup PhiDefs(prog, b) \cup {prog.ins[b][k].to : k \in 1..j - 1}
    BY ProgIs DEF DefinedBefore
  <2>3. e \in Temps => e \in Available(prog, b) \/ e \in PhiDefs(prog, b)
                       \/ \E k \in 1..j - 1 : e = prog.ins[b][k].to
    BY <2>2
  <2>4. e \in Temps => val[e] # Top
    BY <2>3, <1>1, <1>4
  <2> QED
    BY <2>1, <2>4, <1>2
<1>5. \A j \in DOMAIN prog.ins[b] : ToSet(prog.ins[b][j].arg) = {prog.ins[b][j].arg[1], prog.ins[b][j].arg[2]}
  BY InsAt
<1> QED
  BY <1>3, <1>4, <1>5

(* The argument of a visited jump has a value.                             *)
LEMMA JmpDefined ==
  ASSUME Typed, Dominated, Defined, NEW b \in Blocks(prog), Seen(b)
  PROVE  LatVal(prog.arg[b]) # Top
<1>1. Came(b) /\ \A t \in PhiDefs(prog, b) \cup InsDefs(prog, b) : val[t] # Top
  BY SeenCame DEF Defined, Defs
<1> QED
  BY <1>1, OperandsDefined

-----------------------------------------------------------------------------
(* Values fall and edges come alive, and so does what is made of them.     *)
(* The edges a jump may take.                                              *)
Takes(b, k) ==
  \/ prog.jmp[b] = "jmp" /\ k = 0
  \/ prog.jmp[b] = "jnz" /\ (LatVal(prog.arg[b]) = Bot \/ (k = 1 <=> LatVal(prog.arg[b]) = 0))

(* The edges visitjmp queues, in order, are those the jump may take.       *)
LEMMA AliveIs ==
  ASSUME Typed, NEW b \in Blocks(prog), NEW k \in {0, 1}
  PROVE  EdgeAlive(b, k) <=> Takes(b, k)
<1>1. prog.jmp[b] \in {"ret", "jmp", "jnz"}
  BY JmpAt
<1>2. Taken(b) = IF prog.jmp[b] = "ret" THEN <<>> ELSE IF prog.jmp[b] = "jmp" THEN <<0>>
                 ELSE IF LatVal(prog.arg[b]) = Bot THEN <<0, 1>>
                 ELSE IF LatVal(prog.arg[b]) = 0 THEN <<1>> ELSE <<0>>
  BY <1>1 DEF Taken
<1>3. CASE prog.jmp[b] = "ret"
  <2>1. Taken(b) = <<>>
    BY <1>2, <1>3
  <2> QED
    BY <1>3, <2>1 DEF EdgeAlive, Takes
<1>4. CASE prog.jmp[b] = "jmp"
  <2>1. Taken(b) = <<0>>
    BY <1>2, <1>4
  <2> QED
    BY <1>4, <2>1 DEF EdgeAlive, Takes
<1>5. CASE prog.jmp[b] = "jnz"
  <2>1. CASE LatVal(prog.arg[b]) = Bot
    <3>1. Taken(b) = <<0, 1>>
      BY <1>2, <1>5, <2>1
    <3>2. DOMAIN Taken(b) = {1, 2} /\ Taken(b)[1] = 0 /\ Taken(b)[2] = 1
      BY <3>1
    <3> QED
      BY <1>5, <2>1, <3>2 DEF EdgeAlive, Takes
  <2>2. CASE LatVal(prog.arg[b]) # Bot
    <3>1. Taken(b) = IF LatVal(prog.arg[b]) = 0 THEN <<1>> ELSE <<0>>
      BY <1>2, <1>5, <2>2
    <3>2. DOMAIN Taken(b) = {1} /\ Taken(b)[1] = IF LatVal(prog.arg[b]) = 0 THEN 1 ELSE 0
      BY <3>1
    <3> QED
      BY <1>5, <2>2, <3>2 DEF EdgeAlive, Takes
  <2> QED
    BY <2>1, <2>2
<1> QED
  BY <1>1, <1>3, <1>4, <1>5

ValueFacts ==
  /\ \A e \in Operands : LatVal(e) \in Vals
  /\ \A b \in Blocks(prog) : \A j \in DOMAIN prog.phi[b] :
       LET f == prog.phi[b][j]
       IN PhiValue(f, b) = Join(Heard(f, b)) /\ Heard(f, b) \in SUBSET Vals
  /\ \A b \in Blocks(prog) : \A j \in DOMAIN prog.ins[b] :
       LET s == prog.ins[b][j]
       IN InsValue(s) = InsVal(s.op, LatVal(s.arg[1]), LatVal(s.arg[2]))
  /\ \A b \in Blocks(prog) : \A k \in {0, 1} : EdgeAlive(b, k) <=> Takes(b, k)

(* The facts above, in one formula, to cite of the next state.             *)
LEMMA Facts == Typed => ValueFacts
  BY LatIs, PhiValueIs, InsValueIs, AliveIs DEF ValueFacts

(* Every statement makes a value of the lattice.                           *)
Produced ==
  /\ \A b \in Blocks(prog) : \A j \in DOMAIN prog.phi[b] : PhiValue(prog.phi[b][j], b) \in Vals
  /\ \A b \in Blocks(prog) : \A j \in DOMAIN prog.ins[b] : InsValue(prog.ins[b][j]) \in Vals

(* What a phi or an instruction produces is a lattice value.               *)
LEMMA Produces == Typed => Produced
  BY PhiValueIs, InsValueIs DEF Produced

Growing ==
  /\ prog' = prog
  /\ \A e \in Temps : Leq(val[e], val'[e])
  /\ \A e \in Edges(prog) : ~dead[e] => ~dead'[e]

(* When values fall and edges come alive, phis, instructions and jumps     *)
(* follow.                                                                 *)
LEMMA GrowIs ==
  ASSUME Typed, Typed', Growing
  PROVE  /\ \A e \in Operands : Leq(LatVal(e), LatVal(e)')
         /\ \A b \in Blocks(prog) : \A j \in DOMAIN prog.phi[b] :
              Leq(PhiValue(prog.phi[b][j], b), PhiValue(prog.phi[b][j], b)')
         /\ \A b \in Blocks(prog) : \A j \in DOMAIN prog.ins[b] :
              Leq(InsValue(prog.ins[b][j]), InsValue(prog.ins[b][j])')
         /\ \A b \in Blocks(prog) : \A k \in {0, 1} :
              LatVal(prog.arg[b]) # Top /\ EdgeAlive(b, k) => EdgeAlive(b, k)'
<1>1. ValueFacts /\ ValueFacts'
  <2>1. ValueFacts
    BY Facts
  <2>2. ValueFacts'
    BY Facts, PTL
  <2> QED
    BY <2>1, <2>2
<1>2. \A e \in Operands : /\ LatVal(e) \in Vals /\ LatVal(e)' \in Vals
                          /\ Leq(LatVal(e), LatVal(e)')
  <2>1. \A e \in Operands : LatVal(e) \in Vals /\ LatVal(e)' \in Vals
    BY <1>1 DEF ValueFacts
  <2>2. \A e \in Operands : Leq(LatVal(e), LatVal(e)')
    BY DEF LatVal, Growing, Leq
  <2> QED
    BY <2>1, <2>2
<1>3. ASSUME NEW b \in Blocks(prog), NEW j \in DOMAIN prog.phi[b]
      PROVE  Leq(PhiValue(prog.phi[b][j], b), PhiValue(prog.phi[b][j], b)')
  <2>1. PICK f : f = prog.phi[b][j]
    OBVIOUS
  <2>2. f = (prog.phi[b][j])' /\ (b \in Blocks(prog) /\ j \in DOMAIN prog.phi[b])'
    BY <2>1 DEF Growing
  <2>3. \A a \in DOMAIN f.blk : f.blk[a] \in Blocks(prog) /\ f.arg[a] \in Operands
    BY <2>1, PhiAt
  <2>4. PhiValue(f, b) = Join(Heard(f, b)) /\ Heard(f, b) \in SUBSET Vals
    BY <1>1, <2>1 DEF ValueFacts
  <2>5. PhiValue(f, b)' = Join(Heard(f, b)') /\ Heard(f, b)' \in SUBSET Vals
    BY <1>1, <2>2 DEF ValueFacts
  <2>6. ASSUME NEW v \in Heard(f, b) PROVE \E w \in Heard(f, b)' : Leq(v, w)
    <3>1. PICK a \in DOMAIN f.blk : ~DeadEdge(f.blk[a], b) /\ v = LatVal(f.arg[a])
      BY DEF Heard
    <3>2. ~DeadEdge(f.blk[a], b)'
      <4>1. PICK k \in {0, 1} : Succ(prog, f.blk[a], k) = b /\ ~dead[<<f.blk[a], k>>]
        BY <3>1 DEF DeadEdge
      <4>2. <<f.blk[a], k>> \in Edges(prog)
        BY <2>3, EdgeIs
      <4> QED
        BY <4>1, <4>2 DEF DeadEdge, Growing
    <3>3. LatVal(f.arg[a])' \in Heard(f, b)'
      BY <3>2 DEF Heard
    <3> QED
      BY <3>1, <3>3, <2>3, <1>2
  <2>7. Leq(Join(Heard(f, b)), Join(Heard(f, b)'))
    BY <2>4, <2>5, <2>6, JoinGrows
  <2>8. Leq(PhiValue(f, b), PhiValue(f, b)')
    BY <2>4, <2>5, <2>7
  <2> QED
    BY <2>1, <2>2, <2>8
<1>4. ASSUME NEW b \in Blocks(prog), NEW j \in DOMAIN prog.ins[b]
      PROVE  Leq(InsValue(prog.ins[b][j]), InsValue(prog.ins[b][j])')
  <2>1. PICK s : s = prog.ins[b][j]
    OBVIOUS
  <2>2. s = (prog.ins[b][j])' /\ (b \in Blocks(prog) /\ j \in DOMAIN prog.ins[b])'
    BY <2>1 DEF Growing
  <2>3. s.op \in {"xor", "div", "load"} /\ s.arg[1] \in Operands /\ s.arg[2] \in Operands
    BY <2>1, InsAt
  <2>4. InsValue(s) = InsVal(s.op, LatVal(s.arg[1]), LatVal(s.arg[2]))
    BY <1>1, <2>1 DEF ValueFacts
  <2>5. InsValue(s)' = InsVal(s.op, LatVal(s.arg[1])', LatVal(s.arg[2])')
    BY <1>1, <2>2 DEF ValueFacts
  <2>6. Leq(InsValue(s), InsValue(s)')
    BY <1>2, <2>3, <2>4, <2>5, InsValIs
  <2> QED
    BY <2>1, <2>2, <2>6
<1>5. ASSUME NEW b \in Blocks(prog), NEW k \in {0, 1},
             LatVal(prog.arg[b]) # Top, EdgeAlive(b, k)
      PROVE  EdgeAlive(b, k)'
  <2>1. PICK e \in Operands : e = prog.arg[b]
    BY JmpAt
  <2>2. e = (prog.arg[b])' /\ (b \in Blocks(prog))' /\ prog'.jmp[b] = prog.jmp[b]
    BY <2>1 DEF Growing
  <2>3. LatVal(e)' = LatVal(e) \/ LatVal(e)' = Bot
    BY <1>2, <1>5, <2>1 DEF Leq
  <2>4. Takes(b, k)
    BY <1>1, <1>5 DEF ValueFacts
  <2>5. Takes(b, k)'
    BY <2>1, <2>2, <2>3, <2>4 DEF Takes
  <2> QED
    BY <1>1, <2>2, <2>5 DEF ValueFacts
<1> QED
  BY <1>2, <1>3, <1>4, <1>5

-----------------------------------------------------------------------------
(* Visiting a phi or an instruction.                                       *)

(* A statement is what its operands say, or a use of it is queued.         *)
PhiFine(b, j) ==
  val[prog.phi[b][j].to] = PhiValue(prog.phi[b][j], b) \/ Statement("UPhi", b, j) \in ToSet(usewrk)
InsFine(b, j) ==
  val[prog.ins[b][j].to] = InsValue(prog.ins[b][j]) \/ Statement("UIns", b, j) \in ToSet(usewrk)

(* m is the value of the statement that defines t.                         *)
Defines(t, m) ==
  \/ \E b \in Blocks(prog) : \E j \in DOMAIN prog.phi[b] :
       prog.phi[b][j].to = t /\ m = PhiValue(prog.phi[b][j], b)
  \/ \E b \in Blocks(prog) : \E j \in DOMAIN prog.ins[b] :
       prog.ins[b][j].to = t /\ m = InsValue(prog.ins[b][j])

(* A value whose operands stay as they are stays too.                      *)
LEMMA PhiStays ==
  ASSUME Typed, Typed', prog' = prog,
         NEW b \in Blocks(prog), NEW j \in DOMAIN prog.phi[b],
         \A c \in Blocks(prog) : DeadEdge(c, b)' <=> DeadEdge(c, b),
         \A e \in ToSet(prog.phi[b][j].arg) : LatVal(e)' = LatVal(e)
  PROVE  PhiValue(prog.phi[b][j], b)' = PhiValue(prog.phi[b][j], b)
<1>1. ValueFacts /\ ValueFacts'
  <2>1. ValueFacts
    BY Facts
  <2>2. ValueFacts'
    BY Facts, PTL
  <2> QED
    BY <2>1, <2>2
<1>2. PICK f : f = prog.phi[b][j]
  OBVIOUS
<1>3. f = (prog.phi[b][j])' /\ (b \in Blocks(prog) /\ j \in DOMAIN prog.phi[b])'
  BY <1>2
<1>4. \A a \in DOMAIN f.blk : f.arg[a] \in ToSet(f.arg)
  <2>1. DOMAIN f.arg = DOMAIN f.blk /\ DOMAIN f.blk = 1..Len(f.blk) /\ Len(f.arg) = Len(f.blk)
    BY <1>2, PhiAt
  <2> QED
    BY <2>1 DEF ToSet
<1>5. \A a \in DOMAIN f.blk : LatVal(f.arg[a])' = LatVal(f.arg[a])
  BY <1>2, <1>4
<1>6. \A a \in DOMAIN f.blk : DeadEdge(f.blk[a], b)' <=> DeadEdge(f.blk[a], b)
  <2>1. \A a \in DOMAIN f.blk : f.blk[a] \in Blocks(prog)
    BY <1>2, PhiAt
  <2> QED
    BY <2>1
<1>7. Heard(f, b)' = Heard(f, b)
  BY <1>5, <1>6 DEF Heard
<1>8. PhiValue(f, b) = Join(Heard(f, b))
  BY <1>1, <1>2 DEF ValueFacts
<1>9. PhiValue(f, b)' = Join(Heard(f, b)')
  BY <1>1, <1>3 DEF ValueFacts
<1>10. PhiValue(f, b)' = PhiValue(f, b)
  BY <1>7, <1>8, <1>9
<1> QED
  BY <1>2, <1>3, <1>10

(* An instruction whose operands keep their values keeps its own.          *)
LEMMA InsStays ==
  ASSUME Typed, Typed', prog' = prog,
         NEW b \in Blocks(prog), NEW j \in DOMAIN prog.ins[b],
         \A e \in ToSet(prog.ins[b][j].arg) : LatVal(e)' = LatVal(e)
  PROVE  InsValue(prog.ins[b][j])' = InsValue(prog.ins[b][j])
<1>1. PICK s : s = prog.ins[b][j]
  OBVIOUS
<1>2. s = (prog.ins[b][j])'
  BY <1>1
<1>3. LatVal(s.arg[1])' = LatVal(s.arg[1]) /\ LatVal(s.arg[2])' = LatVal(s.arg[2])
  BY <1>1, InsAt
<1>4. InsValue(s)' = InsValue(s)
  BY <1>3 DEF InsValue
<1> QED
  BY <1>1, <1>2, <1>4

(* There is only one such statement.                                       *)
LEMMA OneDefinition ==
  ASSUME Typed, NEW t \in Temps, NEW m, Defines(t, m)
  PROVE  /\ m \in Vals
         /\ \A b \in Blocks(prog) : \A j \in DOMAIN prog.phi[b] :
              prog.phi[b][j].to = t => m = PhiValue(prog.phi[b][j], b)
         /\ \A b \in Blocks(prog) : \A j \in DOMAIN prog.ins[b] :
              prog.ins[b][j].to = t => m = InsValue(prog.ins[b][j])
<1>1. DefinedOnce(prog)
  BY ProgIs
<1>2. \A b \in Blocks(prog) : \A j \in DOMAIN prog.phi[b] : prog.phi[b][j].to \in PhiDefs(prog, b)
  BY DEF PhiDefs
<1>3. \A b \in Blocks(prog) : \A j \in DOMAIN prog.ins[b] : prog.ins[b][j].to \in InsDefs(prog, b)
  BY DEF InsDefs
<1>4. CASE \E b \in Blocks(prog) : \E j \in DOMAIN prog.phi[b] :
             prog.phi[b][j].to = t /\ m = PhiValue(prog.phi[b][j], b)
  <2>0. PICK b \in Blocks(prog) : \E j \in DOMAIN prog.phi[b] :
               prog.phi[b][j].to = t /\ m = PhiValue(prog.phi[b][j], b)
    BY <1>4
  <2>1. PICK j \in DOMAIN prog.phi[b] : prog.phi[b][j].to = t /\ m = PhiValue(prog.phi[b][j], b)
    BY <2>0
  <2>2. m \in Vals
    BY <2>1, PhiValueIs
  <2>3. ASSUME NEW c \in Blocks(prog), NEW k \in DOMAIN prog.phi[c], prog.phi[c][k].to = t
        PROVE  m = PhiValue(prog.phi[c][k], c)
    <3>1. c = b
      BY <1>1, <1>2, <2>1, <2>3 DEF DefinedOnce, Defs
    <3>2. k = j
      BY <1>1, <2>1, <2>3, <3>1 DEF DefinedOnce
    <3> QED
      BY <2>1, <3>1, <3>2
  <2>4. ASSUME NEW c \in Blocks(prog), NEW k \in DOMAIN prog.ins[c], prog.ins[c][k].to = t
        PROVE  FALSE
    <3>1. c = b
      BY <1>1, <1>2, <1>3, <2>1, <2>4 DEF DefinedOnce, Defs
    <3> QED
      BY <1>1, <1>2, <1>3, <2>1, <2>4, <3>1 DEF DefinedOnce
  <2> QED
    BY <2>2, <2>3, <2>4
<1>5. CASE \E b \in Blocks(prog) : \E j \in DOMAIN prog.ins[b] :
             prog.ins[b][j].to = t /\ m = InsValue(prog.ins[b][j])
  <2>0. PICK b \in Blocks(prog) : \E j \in DOMAIN prog.ins[b] :
               prog.ins[b][j].to = t /\ m = InsValue(prog.ins[b][j])
    BY <1>5
  <2>1. PICK j \in DOMAIN prog.ins[b] : prog.ins[b][j].to = t /\ m = InsValue(prog.ins[b][j])
    BY <2>0
  <2>2. m \in Vals
    BY <2>1, InsValueIs
  <2>3. ASSUME NEW c \in Blocks(prog), NEW k \in DOMAIN prog.ins[c], prog.ins[c][k].to = t
        PROVE  m = InsValue(prog.ins[c][k])
    <3>1. c = b
      BY <1>1, <1>3, <2>1, <2>3 DEF DefinedOnce, Defs
    <3>2. k = j
      BY <1>1, <2>1, <2>3, <3>1 DEF DefinedOnce
    <3> QED
      BY <2>1, <3>1, <3>2
  <2>4. ASSUME NEW c \in Blocks(prog), NEW k \in DOMAIN prog.phi[c], prog.phi[c][k].to = t
        PROVE  FALSE
    <3>1. c = b
      BY <1>1, <1>2, <1>3, <2>1, <2>4 DEF DefinedOnce, Defs
    <3> QED
      BY <1>1, <1>2, <1>3, <2>1, <2>4, <3>1 DEF DefinedOnce
  <2> QED
    BY <2>2, <2>3, <2>4
<1> QED
  BY <1>4, <1>5 DEF Defines

(* What is not what its operands say after a visit was not before, or its  *)
(* use was queued.                                                         *)
LEMMA VisitKeeps ==
  ASSUME Typed, Typed', NotBelow, prog' = prog, dead' = dead,
         NEW t \in Temps, NEW m, Defines(t, m), Update(t, m)
  PROVE  /\ NotBelow' /\ Growing /\ val'[t] = m
         /\ ToSet(usewrk) \subseteq ToSet(usewrk')
         /\ \A b \in Blocks(prog) : \A j \in DOMAIN prog.phi[b] :
              PhiFine(b, j) \/ prog.phi[b][j].to = t => PhiFine(b, j)'
         /\ \A b \in Blocks(prog) : \A j \in DOMAIN prog.ins[b] :
              InsFine(b, j) \/ prog.ins[b][j].to = t => InsFine(b, j)'
         /\ \A b \in Blocks(prog) : \A k \in {0, 1} :
              EdgeAlive(b, k)' => EdgeAlive(b, k) \/ Statement("UJmp", b, 1) \in ToSet(usewrk')
<1>1. /\ m \in Vals
      /\ \A b \in Blocks(prog) : \A j \in DOMAIN prog.phi[b] :
           prog.phi[b][j].to = t => m = PhiValue(prog.phi[b][j], b)
      /\ \A b \in Blocks(prog) : \A j \in DOMAIN prog.ins[b] :
           prog.ins[b][j].to = t => m = InsValue(prog.ins[b][j])
  BY OneDefinition
<1>2. /\ val' \in [Temps -> Vals] /\ val \in [Temps -> Vals]
      /\ \A e \in Temps : e # t => val'[e] = val[e]
      /\ val'[t] = LatMerge(val[t], m)
      /\ \A e \in Temps : Leq(val[e], val'[e])
      /\ ToSet(usewrk) \subseteq ToSet(usewrk')
      /\ val'[t] # val[t] => UsesOf(prog, t) \subseteq ToSet(usewrk')
  BY <1>1, UpdateIs DEF Typed
<1>3. Leq(val[t], m)
  BY <1>1 DEF Defines, NotBelow
<1>4. val'[t] = m
  BY <1>1, <1>2, <1>3, MergeIs
<1>5. Growing
  BY <1>2 DEF Growing
<1>6. /\ \A b \in Blocks(prog) : \A j \in DOMAIN prog.phi[b] :
           /\ PhiValue(prog.phi[b][j], b) \in Vals /\ PhiValue(prog.phi[b][j], b)' \in Vals
           /\ Leq(PhiValue(prog.phi[b][j], b), PhiValue(prog.phi[b][j], b)')
      /\ \A b \in Blocks(prog) : \A j \in DOMAIN prog.ins[b] :
           /\ InsValue(prog.ins[b][j]) \in Vals /\ InsValue(prog.ins[b][j])' \in Vals
           /\ Leq(InsValue(prog.ins[b][j]), InsValue(prog.ins[b][j])')
  <2>1. /\ \A b \in Blocks(prog) : \A j \in DOMAIN prog.phi[b] :
             Leq(PhiValue(prog.phi[b][j], b), PhiValue(prog.phi[b][j], b)')
        /\ \A b \in Blocks(prog) : \A j \in DOMAIN prog.ins[b] :
             Leq(InsValue(prog.ins[b][j]), InsValue(prog.ins[b][j])')
    BY <1>5, GrowIs
  <2>2. Produced /\ Produced'
    <3>1. Produced
      BY Produces
    <3>2. Produced'
      BY Produces, PTL
    <3> QED
      BY <3>1, <3>2
  <2> QED
    BY <2>1, <2>2 DEF Produced
<1>7. /\ \A b \in Blocks(prog) : \A j \in DOMAIN prog.phi[b] : prog.phi[b][j].to \in Temps
      /\ \A b \in Blocks(prog) : \A j \in DOMAIN prog.ins[b] : prog.ins[b][j].to \in Temps
  BY PhiAt, InsAt
<1>8. ASSUME NEW b \in Blocks(prog), NEW j \in DOMAIN prog.phi[b]
      PROVE  Leq(val'[prog.phi[b][j].to], PhiValue(prog.phi[b][j], b)')
  <2>1. CASE prog.phi[b][j].to = t
    BY <2>1, <1>1, <1>4, <1>6
  <2>2. CASE prog.phi[b][j].to # t
    <3>1. Leq(val[prog.phi[b][j].to], PhiValue(prog.phi[b][j], b))
      BY DEF NotBelow
    <3>2. val'[prog.phi[b][j].to] = val[prog.phi[b][j].to] /\ val[prog.phi[b][j].to] \in Vals
      BY <2>2, <1>2, <1>7
    <3> QED
      BY <3>1, <3>2, <1>6, LeqIs
  <2> QED
    BY <2>1, <2>2
<1>9. ASSUME NEW b \in Blocks(prog), NEW j \in DOMAIN prog.ins[b]
      PROVE  Leq(val'[prog.ins[b][j].to], InsValue(prog.ins[b][j])')
  <2>1. CASE prog.ins[b][j].to = t
    BY <2>1, <1>1, <1>4, <1>6
  <2>2. CASE prog.ins[b][j].to # t
    <3>1. Leq(val[prog.ins[b][j].to], InsValue(prog.ins[b][j]))
      BY DEF NotBelow
    <3>2. val'[prog.ins[b][j].to] = val[prog.ins[b][j].to] /\ val[prog.ins[b][j].to] \in Vals
      BY <2>2, <1>2, <1>7
    <3> QED
      BY <3>1, <3>2, <1>6, LeqIs
  <2> QED
    BY <2>1, <2>2
<1>10. NotBelow'
  BY <1>8, <1>9 DEF NotBelow
<1>11. ASSUME NEW e, e # t \/ val'[t] = val[t] PROVE LatVal(e)' = LatVal(e)
  BY <1>2, <1>11 DEF LatVal
<1>12. ASSUME NEW b \in Blocks(prog), NEW j \in DOMAIN prog.phi[b],
              PhiFine(b, j) \/ prog.phi[b][j].to = t
       PROVE  PhiFine(b, j)'
  <2>1. CASE t \in ToSet(prog.phi[b][j].arg) /\ val'[t] # val[t]
    <3>1. Statement("UPhi", b, j) \in UsesOf(prog, t)
      BY <2>1 DEF UsesOf, PhiUses
    <3> QED
      BY <3>1, <2>1, <1>2 DEF PhiFine
  <2>2. CASE ~(t \in ToSet(prog.phi[b][j].arg) /\ val'[t] # val[t])
    <3>1. PhiValue(prog.phi[b][j], b)' = PhiValue(prog.phi[b][j], b)
      <4>1. \A e \in ToSet(prog.phi[b][j].arg) : LatVal(e)' = LatVal(e)
        BY <2>2, <1>11
      <4>2. \A c : DeadEdge(c, b)' <=> DeadEdge(c, b)
        BY DEF DeadEdge
      <4> QED
        BY <4>1, <4>2, PhiStays
    <3>2. CASE prog.phi[b][j].to = t
      <4>1. val'[prog.phi[b][j].to] = PhiValue(prog.phi[b][j], b)'
        BY <3>1, <3>2, <1>1, <1>4
      <4> QED
        BY <4>1 DEF PhiFine
    <3>3. CASE prog.phi[b][j].to # t
      <4>1. val'[prog.phi[b][j].to] = val[prog.phi[b][j].to]
        BY <3>3, <1>2, <1>7
      <4> QED
        BY <4>1, <3>1, <3>3, <1>2, <1>12 DEF PhiFine
    <3> QED
      BY <3>2, <3>3
  <2> QED
    BY <2>1, <2>2
<1>13. ASSUME NEW b \in Blocks(prog), NEW j \in DOMAIN prog.ins[b],
              InsFine(b, j) \/ prog.ins[b][j].to = t
       PROVE  InsFine(b, j)'
  <2>1. CASE t \in ToSet(prog.ins[b][j].arg) /\ val'[t] # val[t]
    <3>1. Statement("UIns", b, j) \in UsesOf(prog, t)
      BY <2>1 DEF UsesOf, InsUses
    <3> QED
      BY <3>1, <2>1, <1>2 DEF InsFine
  <2>2. CASE ~(t \in ToSet(prog.ins[b][j].arg) /\ val'[t] # val[t])
    <3>1. InsValue(prog.ins[b][j])' = InsValue(prog.ins[b][j])
      <4>1. \A e \in ToSet(prog.ins[b][j].arg) : LatVal(e)' = LatVal(e)
        BY <2>2, <1>11
      <4> QED
        BY <4>1, InsStays
    <3>2. CASE prog.ins[b][j].to = t
      <4>1. val'[prog.ins[b][j].to] = InsValue(prog.ins[b][j])'
        BY <3>1, <3>2, <1>1, <1>4
      <4> QED
        BY <4>1 DEF InsFine
    <3>3. CASE prog.ins[b][j].to # t
      <4>1. val'[prog.ins[b][j].to] = val[prog.ins[b][j].to]
        BY <3>3, <1>2, <1>7
      <4> QED
        BY <4>1, <3>1, <3>3, <1>2, <1>13 DEF InsFine
    <3> QED
      BY <3>2, <3>3
  <2> QED
    BY <2>1, <2>2
<1>14. ASSUME NEW b \in Blocks(prog), NEW k \in {0, 1}, EdgeAlive(b, k)'
       PROVE  EdgeAlive(b, k) \/ Statement("UJmp", b, 1) \in ToSet(usewrk')
  <2>1. CASE prog.arg[b] = t /\ val'[t] # val[t]
    <3>1. Statement("UJmp", b, 1) \in UsesOf(prog, t)
      BY <2>1 DEF UsesOf, JmpUses
    <3> QED
      BY <3>1, <2>1, <1>2
  <2>2. CASE ~(prog.arg[b] = t /\ val'[t] # val[t])
    <3>1. LatVal(prog.arg[b])' = LatVal(prog.arg[b])
      <4>1. PICK e : e = prog.arg[b]
        OBVIOUS
      <4>2. LatVal(e)' = LatVal(e)
        BY <4>1, <2>2, <1>11
      <4>3. e = (prog.arg[b])'
        BY <4>1
      <4> QED
        BY <4>1, <4>2, <4>3
    <3>2. EdgeAlive(b, k)' <=> EdgeAlive(b, k)
      BY <3>1 DEF EdgeAlive, Taken
    <3> QED
      BY <3>2, <1>14
  <2> QED
    BY <2>1, <2>2
<1> QED
  BY <1>2, <1>4, <1>5, <1>10, <1>12, <1>13, <1>14

-----------------------------------------------------------------------------
(* The list of edges.                                                      *)
LEMMA ListedIs ==
  ASSUME NEW l, IsList(l)
  PROVE  /\ Listed = ToSet(l) /\ (flowrk = Nil <=> l = <<>>)
         /\ l # <<>> => flowrk = l[1]
<1>0. Nil \notin Edges(prog)
  BY DEF Edges, Start, Nil
<1>1. /\ l \in Seq(Edges(prog)) /\ Len(l) \in Nat /\ DOMAIN l = 1..Len(l)
      /\ \A j \in 1..Len(l) : l[j] \in Edges(prog) /\ l[j] # Nil
      /\ l # <<>> => 1 \in 1..Len(l)
  BY <1>0 DEF IsList
<1>2. (l # <<>> => flowrk = l[1] /\ flowrk # Nil) /\ (l = <<>> => flowrk = Nil)
  BY <1>1 DEF IsList
<1>3. ASSUME NEW j \in 1..Len(l) PROVE l[j] \in Listed
  <2>1. CASE j = 1
    <3>1. l # <<>>
      BY <1>1
    <3> QED
      BY <2>1, <3>1, <1>1, <1>2 DEF Listed
  <2>2. CASE j # 1
    <3>1. j - 1 \in 1..Len(l) /\ j - 1 # Len(l) /\ (j - 1) + 1 = j
      BY <2>2, <1>1
    <3>2. work[l[j - 1]] = l[j]
      BY <3>1 DEF IsList
    <3> QED
      BY <3>1, <3>2, <1>1 DEF Listed
  <2> QED
    BY <2>1, <2>2
<1>4. ASSUME NEW e \in Listed PROVE \E j \in 1..Len(l) : l[j] = e
  <2>1. CASE e = flowrk
    BY <2>1, <1>1, <1>2 DEF Listed
  <2>2. CASE e # flowrk
    <3>1. PICK d \in Edges(prog) : e = work[d] /\ e # Nil
      BY <2>2 DEF Listed
    <3>2. PICK j \in 1..Len(l) : l[j] = d
      BY <3>1 DEF IsList
    <3>3. j # Len(l) /\ e = l[j + 1]
      BY <3>1, <3>2 DEF IsList
    <3>4. Len(l) \in Nat /\ j \in 1..Len(l) /\ j # Len(l)
      BY <3>2, <3>3, <1>1
    <3>5. j + 1 \in 1..Len(l)
      BY <3>4
    <3> QED
      BY <3>3, <3>5
  <2> QED
    BY <2>1, <2>2
<1> QED
  BY <1>1, <1>2, <1>3, <1>4 DEF ToSet

ListFact == \A l : IsList(l) => Listed = ToSet(l)

(* ListedIs, to cite of the next state.                                    *)
LEMMA ListFacts == ListFact
  BY ListedIs DEF ListFact

(* The first edge of the list is taken out.                                *)
LEMMA PopIs ==
  ASSUME Typed, AList, flowrk # Nil, prog' = prog,
         flowrk' = work[flowrk], work' = [work EXCEPT ![flowrk] = Nil]
  PROVE  /\ AList' /\ Listed' = Listed \ {flowrk} /\ flowrk \in Listed
         /\ flowrk' \in Edges(prog) \cup {Nil} /\ work' \in [Edges(prog) -> Edges(prog) \cup {Nil}]
<1>1. PICK l : IsList(l)
  BY DEF AList
<1>2. l # <<>> /\ flowrk = l[1] /\ Listed = ToSet(l)
  BY <1>1, ListedIs
<1> DEFINE r == Tail(l)
<1>3. /\ l \in Seq(Edges(prog)) /\ Len(l) \in Nat \ {0} /\ r \in Seq(Edges(prog)) /\ Len(r) = Len(l) - 1
      /\ \A j \in 1..Len(r) : r[j] = l[j + 1]
  BY <1>1, <1>2 DEF IsList
<1> HIDE DEF r
<1>4. /\ flowrk \in Edges(prog) /\ work[flowrk] \in Edges(prog) \cup {Nil}
      /\ work' \in [Edges(prog) -> Edges(prog) \cup {Nil}]
      /\ work'[flowrk] = Nil /\ \A e \in Edges(prog) : e # flowrk => work'[e] = work[e]
  BY DEF Typed
<1>5. \A j, k \in 1..Len(r) : r[j] = r[k] => j = k
  <2>1. \A j \in 1..Len(r) : j + 1 \in 1..Len(l)
    BY <1>3
  <2>2. ASSUME NEW j \in 1..Len(r), NEW k \in 1..Len(r), r[j] = r[k] PROVE j = k
    <3>1. l[j + 1] = l[k + 1]
      BY <2>2, <1>3
    <3>2. j + 1 = k + 1
      BY <2>1, <3>1, <1>1 DEF IsList
    <3> QED
      BY <3>2, <1>3
  <2> QED
    BY <2>2
<1>6. flowrk' = IF r = <<>> THEN Nil ELSE r[1]
  <2>1. work[l[1]] = IF 1 = Len(l) THEN Nil ELSE l[1 + 1]
    BY <1>1, <1>3 DEF IsList
  <2>2. r = <<>> <=> 1 = Len(l)
    BY <1>3
  <2>3. r # <<>> => r[1] = l[1 + 1]
    BY <1>3
  <2> QED
    BY <2>1, <2>2, <2>3, <1>2
<1>7. ASSUME NEW j \in 1..Len(r) PROVE work'[r[j]] = IF j = Len(r) THEN Nil ELSE r[j + 1]
  <2>1. j + 1 \in 1..Len(l) /\ r[j] = l[j + 1] /\ j + 1 # 1 /\ 1 \in 1..Len(l)
    BY <1>3
  <2>2. r[j] # flowrk /\ r[j] \in Edges(prog)
    <3>1. l[j + 1] # l[1]
      BY <2>1, <1>1 DEF IsList
    <3> QED
      BY <3>1, <2>1, <1>2, <1>3
  <2>3. work'[r[j]] = IF j + 1 = Len(l) THEN Nil ELSE l[(j + 1) + 1]
    BY <2>1, <2>2, <1>1, <1>4 DEF IsList
  <2>4. j # Len(r) => r[j + 1] = l[(j + 1) + 1]
    BY <1>3
  <2>5. j + 1 = Len(l) <=> j = Len(r)
    BY <1>3
  <2> QED
    BY <2>3, <2>4, <2>5
<1>8. \A j \in 1..Len(l) : j # 1 => j - 1 \in 1..Len(r) /\ r[j - 1] = l[j]
  BY <1>3
<1>9. ASSUME NEW e \in Edges(prog), \A j \in 1..Len(r) : r[j] # e PROVE work'[e] = Nil
  <2>1. CASE e = flowrk
    BY <2>1, <1>4
  <2>2. CASE e # flowrk
    <3>1. \A j \in 1..Len(l) : l[j] # e
      BY <1>8, <1>9, <1>2, <2>2
    <3>2. work[e] = Nil
      BY <3>1, <1>1 DEF IsList
    <3> QED
      BY <3>2, <2>2, <1>4
  <2> QED
    BY <2>1, <2>2
<1>10. IsList(r)'
  BY <1>3, <1>5, <1>6, <1>7, <1>9 DEF IsList
<1>11. Listed' = ToSet(r)
  <2>1. ListFact'
    BY ListFacts, PTL
  <2> QED
    BY <2>1, <1>10 DEF ListFact
<1>12. ToSet(r) = ToSet(l) \ {l[1]}
  <2>1. ASSUME NEW j \in 1..Len(r) PROVE r[j] \in ToSet(l) /\ r[j] # l[1]
    <3>1. j + 1 \in 1..Len(l) /\ r[j] = l[j + 1] /\ j + 1 # 1 /\ 1 \in 1..Len(l)
      BY <1>3
    <3>2. l[j + 1] # l[1]
      BY <3>1, <1>1 DEF IsList
    <3>3. DOMAIN l = 1..Len(l)
      BY <1>3
    <3> QED
      BY <3>1, <3>2, <3>3 DEF ToSet
  <2>2. ToSet(r) \subseteq ToSet(l) \ {l[1]}
    BY <2>1, <1>3 DEF ToSet
  <2>3. ToSet(l) \ {l[1]} \subseteq ToSet(r)
    BY <1>3, <1>8 DEF ToSet
  <2> QED
    BY <2>2, <2>3
<1>13. l[1] \in ToSet(l)
  BY <1>3 DEF ToSet
<1>14. AList'
  BY <1>10 DEF AList
<1> QED
  BY <1>2, <1>4, <1>11, <1>12, <1>13, <1>14

(* Edges of a block that are not listed are put in front of the list.      *)
LEMMA PushIs ==
  ASSUME Typed, AList, NEW b \in Blocks(prog), NEW ks \in Seq({0, 1}),
         \A x, y \in 1..Len(ks) : ks[x] = ks[y] => x = y,
         \A x \in 1..Len(ks) : <<b, ks[x]>> \notin Listed,
         PushEdges(b, ks), prog' = prog
  PROVE  /\ AList' /\ Listed' = Listed \cup {<<b, ks[x]>> : x \in 1..Len(ks)}
         /\ flowrk' \in Edges(prog) \cup {Nil} /\ work' \in [Edges(prog) -> Edges(prog) \cup {Nil}]
         /\ ks # <<>> => flowrk' = <<b, ks[1]>>
<1>1. PICK l : IsList(l)
  BY DEF AList
<1>2. Listed = ToSet(l) /\ (flowrk = Nil <=> l = <<>>) /\ (l # <<>> => flowrk = l[1])
  BY <1>1, ListedIs
<1>3. /\ work \in [Edges(prog) -> Edges(prog) \cup {Nil}] /\ flowrk \in Edges(prog) \cup {Nil}
      /\ l \in Seq(Edges(prog)) /\ Len(l) \in Nat /\ DOMAIN l = 1..Len(l) /\ Len(ks) \in Nat
      /\ DOMAIN ks = 1..Len(ks)
  BY <1>1 DEF IsList, Typed
<1>4. CASE ks = <<>>
  <2>1. flowrk' = flowrk /\ work' = work
    BY <1>4 DEF PushEdges
  <2>2. IsList(l)'
    BY <1>1, <2>1 DEF IsList
  <2>3. Listed' = Listed
    BY <2>1 DEF Listed
  <2>4. {<<b, ks[x]>> : x \in 1..Len(ks)} = {}
    BY <1>4
  <2> QED
    BY <2>1, <2>2, <2>3, <2>4, <1>3, <1>4 DEF AList
<1>5. CASE ks # <<>>
  <2> DEFINE es == [x \in 1..Len(ks) |-> <<b, ks[x]>>]
  <2> DEFINE m == es \o l
  <2>1. Len(ks) \in Nat \ {0} /\ \A x \in 1..Len(ks) : <<b, ks[x]>> \in Edges(prog)
    <3>1. Len(ks) # 0
      BY <1>5
    <3>2. \A x \in 1..Len(ks) : ks[x] \in {0, 1}
      OBVIOUS
    <3>3. \A k \in {0, 1} : <<b, k>> \in Edges(prog)
      BY EdgeIs
    <3> QED
      BY <3>1, <3>2, <3>3, <1>3
  <2>2. /\ es \in Seq(Edges(prog)) /\ Len(es) = Len(ks)
        /\ \A x \in 1..Len(ks) : es[x] = <<b, ks[x]>> /\ es[x] \in Edges(prog)
    <3>1. es \in [1..Len(ks) -> Edges(prog)]
      BY <2>1
    <3> QED
      BY <3>1, <2>1
  <2>3. \A x, y \in 1..Len(ks) : es[x] = es[y] => x = y
    BY <2>2
  <2>4. \A x \in 1..Len(ks) : \A j \in 1..Len(l) : es[x] # l[j]
    BY <2>2, <1>2, <1>3 DEF ToSet
  <2>5. /\ flowrk' = es[1]
        /\ work' \in [Edges(prog) -> Edges(prog) \cup {Nil}]
        /\ \A x \in 1..Len(ks) : work'[es[x]] = IF x = Len(ks) THEN flowrk ELSE es[x + 1]
        /\ \A e \in Edges(prog) : (\A x \in 1..Len(ks) : es[x] # e) => work'[e] = work[e]
    <3> DEFINE W(e) == IF \E x \in DOMAIN ks : e = <<b, ks[x]>>
                       THEN LET x == CHOOSE x \in DOMAIN ks : e = <<b, ks[x]>>
                            IN IF x < Len(ks) THEN <<b, ks[x + 1]>> ELSE flowrk
                       ELSE work[e]
    <3>1. flowrk' = <<b, ks[1]>> /\ work' = [e \in Edges(prog) |-> W(e)]
      BY <1>3, <1>5 DEF PushEdges
    <3>2. ASSUME NEW x \in 1..Len(ks) PROVE W(es[x]) = IF x = Len(ks) THEN flowrk ELSE es[x + 1]
      <4> DEFINE y == CHOOSE y \in DOMAIN ks : es[x] = <<b, ks[y]>>
      <4>1. x \in DOMAIN ks /\ es[x] = <<b, ks[x]>>
        BY <1>3, <2>2
      <4>2. y \in DOMAIN ks /\ es[x] = <<b, ks[y]>>
        BY <4>1
      <4>3. W(es[x]) = IF y < Len(ks) THEN <<b, ks[y + 1]>> ELSE flowrk
        BY <4>1
      <4> HIDE DEF y, es, W
      <4>4. y = x
        BY <4>1, <4>2, <1>3
      <4>5. x # Len(ks) => x < Len(ks) /\ es[x + 1] = <<b, ks[x + 1]>>
        BY <2>1, <2>2
      <4> QED
        BY <4>3, <4>4, <4>5, <2>1
    <3>3. ASSUME NEW e \in Edges(prog), \A x \in 1..Len(ks) : es[x] # e PROVE W(e) = work[e]
      BY <3>3, <1>3, <2>2
    <3>4. ASSUME NEW e \in Edges(prog) PROVE W(e) \in Edges(prog) \cup {Nil}
      <4>1. CASE \A x \in 1..Len(ks) : es[x] # e
        BY <3>3, <4>1, <1>3
      <4>2. CASE \E x \in 1..Len(ks) : es[x] = e
        <5>1. PICK x \in 1..Len(ks) : es[x] = e
          BY <4>2
        <5>2. W(e) = IF x = Len(ks) THEN flowrk ELSE es[x + 1]
          BY <5>1, <3>2
        <5>3. x # Len(ks) => x + 1 \in 1..Len(ks)
          BY <2>1
        <5> HIDE DEF W, es
        <5> QED
          BY <5>2, <5>3, <1>3, <2>2
      <4> QED
        BY <4>1, <4>2
    <3>5. 1 \in 1..Len(ks)
      BY <2>1
    <3> HIDE DEF W, es
    <3> QED
      BY <3>1, <3>2, <3>3, <3>4, <3>5, <2>2
  <2>6. /\ m \in Seq(Edges(prog)) /\ Len(m) = Len(ks) + Len(l) /\ m # <<>>
        /\ \A x \in 1..Len(ks) : m[x] = es[x]
        /\ \A j \in 1..Len(l) : m[Len(ks) + j] = l[j]
    <3> HIDE DEF es
    <3>1. m \in Seq(Edges(prog)) /\ Len(m) = Len(es) + Len(l)
      BY <2>2, <1>3
    <3>2. \A x \in 1..Len(es) : m[x] = es[x]
      BY <2>2, <1>3
    <3>3. \A j \in 1..Len(l) : m[Len(es) + j] = l[j]
      BY <2>2, <1>3
    <3> QED
      BY <3>1, <3>2, <3>3, <2>1, <2>2, <1>3
  <2> HIDE DEF m, es
  <2>7. \A j \in 1..Len(m) : \/ j \in 1..Len(ks) /\ m[j] = es[j]
                             \/ j - Len(ks) \in 1..Len(l) /\ m[j] = l[j - Len(ks)]
    <3>1. \A j \in 1..Len(m) : j \notin 1..Len(ks) => j - Len(ks) \in 1..Len(l) /\ Len(ks) + (j - Len(ks)) = j
      BY <2>6, <1>3
    <3> QED
      BY <3>1, <2>6
  <2>8. ASSUME NEW j \in 1..Len(m), NEW k \in 1..Len(m), m[j] = m[k] PROVE j = k
    <3>1. CASE j \in 1..Len(ks) /\ m[j] = es[j] /\ k \in 1..Len(ks) /\ m[k] = es[k]
      BY <3>1, <2>3, <2>8
    <3>2. CASE j - Len(ks) \in 1..Len(l) /\ m[j] = l[j - Len(ks)]
               /\ k - Len(ks) \in 1..Len(l) /\ m[k] = l[k - Len(ks)]
      <4>1. j - Len(ks) = k - Len(ks)
        BY <3>2, <2>8, <1>1 DEF IsList
      <4> QED
        BY <4>1, <1>3
    <3> QED
      BY <3>1, <3>2, <2>4, <2>7, <2>8
  <2>9. ASSUME NEW j \in 1..Len(m) PROVE work'[m[j]] = IF j = Len(m) THEN Nil ELSE m[j + 1]
    <3>1. CASE j \in 1..Len(ks) /\ m[j] = es[j]
      <4>1. work'[m[j]] = IF j = Len(ks) THEN flowrk ELSE es[j + 1]
        BY <3>1, <2>5
      <4>2. CASE j # Len(ks)
        <5>0. /\ Len(ks) \in Nat /\ Len(l) \in Nat /\ Len(m) = Len(ks) + Len(l)
              /\ j \in 1..Len(ks) /\ j # Len(ks)
          BY <4>2, <3>1, <2>6, <1>3
        <5>1. j + 1 \in 1..Len(ks) /\ j # Len(m)
          BY <5>0
        <5> QED
          BY <5>1, <4>1, <4>2, <2>6
      <4>3. CASE j = Len(ks) /\ l = <<>>
        <5>1. Len(l) = 0
          BY <4>3
        <5>2. j = Len(m)
          BY <5>1, <4>3, <2>1, <2>6
        <5> QED
          BY <5>2, <4>1, <4>3, <1>2
      <4>4. CASE j = Len(ks) /\ l # <<>>
        <5>1. 1 \in 1..Len(l) /\ j # Len(m)
          BY <4>4, <2>1, <2>6, <1>3
        <5>2. m[j + 1] = l[1]
          BY <5>1, <4>4, <2>6
        <5> QED
          BY <5>1, <5>2, <4>1, <4>4, <1>2
      <4> QED
        BY <4>2, <4>3, <4>4
    <3>2. CASE j - Len(ks) \in 1..Len(l) /\ m[j] = l[j - Len(ks)]
      <4>1. \A x \in 1..Len(ks) : es[x] # m[j]
        BY <3>2, <2>4
      <4>0. l[j - Len(ks)] \in Edges(prog)
        BY <3>2, <1>3
      <4>2. work'[m[j]] = work[m[j]]
        BY <4>0, <4>1, <3>2, <2>5
      <4>3. work[m[j]] = IF j - Len(ks) = Len(l) THEN Nil ELSE l[(j - Len(ks)) + 1]
        BY <3>2, <1>1 DEF IsList
      <4>4. j - Len(ks) = Len(l) <=> j = Len(m)
        BY <2>6, <1>3
      <4>5. ASSUME j - Len(ks) # Len(l) PROVE l[(j - Len(ks)) + 1] = m[j + 1]
        <5>1. (j - Len(ks)) + 1 \in 1..Len(l) /\ Len(ks) + ((j - Len(ks)) + 1) = j + 1
          BY <4>5, <3>2, <1>3
        <5> QED
          BY <5>1, <2>6
      <4> QED
        BY <4>2, <4>3, <4>4, <4>5
    <3> QED
      BY <3>1, <3>2, <2>7
  <2>10. ASSUME NEW e \in Edges(prog), \A j \in 1..Len(m) : m[j] # e PROVE work'[e] = Nil
    <3>1. \A x \in 1..Len(ks) : x \in 1..Len(m) /\ m[x] = es[x]
      BY <2>1, <2>6, <1>3
    <3>2. \A j \in 1..Len(l) : Len(ks) + j \in 1..Len(m) /\ m[Len(ks) + j] = l[j]
      BY <2>1, <2>6, <1>3
    <3>3. work'[e] = work[e]
      BY <3>1, <2>5, <2>10
    <3>4. work[e] = Nil
      BY <3>2, <2>10, <1>1 DEF IsList
    <3> QED
      BY <3>3, <3>4
  <2>11. flowrk' = m[1]
    BY <2>1, <2>5, <2>6
  <2>12. IsList(m)'
    BY <2>6, <2>8, <2>9, <2>10, <2>11 DEF IsList
  <2>13. Listed' = ToSet(m)
    <3>1. ListFact'
      BY ListFacts, PTL
    <3> QED
      BY <3>1, <2>12 DEF ListFact
  <2>14. ToSet(m) = ToSet(es) \cup ToSet(l)
    BY <2>2, <1>3, JoinIs DEF m
  <2>15. ToSet(es) = {<<b, ks[x]>> : x \in 1..Len(ks)}
    <3>1. DOMAIN es = 1..Len(ks)
      BY <2>2
    <3>2. ToSet(es) = {es[x] : x \in 1..Len(ks)}
      BY <3>1 DEF ToSet
    <3>3. \A x \in 1..Len(ks) : es[x] = <<b, ks[x]>>
      BY <2>2
    <3>4. ASSUME NEW e PROVE e \in ToSet(es) <=> \E x \in 1..Len(ks) : e = <<b, ks[x]>>
      BY <3>2, <3>3
    <3>5. ASSUME NEW e
          PROVE  e \in {<<b, ks[x]>> : x \in 1..Len(ks)} <=> \E x \in 1..Len(ks) : e = <<b, ks[x]>>
      OBVIOUS
    <3> QED
      BY <3>4, <3>5
  <2>16. es[1] = <<b, ks[1]>> /\ es[1] \in Edges(prog)
    BY <2>1, <2>2
  <2>17. AList'
    BY <2>12 DEF AList
  <2> QED
    BY <2>5, <2>13, <2>14, <2>15, <2>16, <2>17, <1>2
<1> QED
  BY <1>4, <1>5

-----------------------------------------------------------------------------
(* What a queued use is.                                                   *)
LEMMA UseIs ==
  ASSUME Typed, NEW u \in AllUses(prog)
  PROVE  /\ u.type \in {"UPhi", "UIns", "UJmp"} /\ u.bid \in Blocks(prog) /\ u.idx \in Nat \ {0}
         /\ u = Statement(u.type, u.bid, u.idx)
         /\ u.type = "UPhi" => u.idx \in DOMAIN prog.phi[u.bid]
         /\ u.type = "UIns" => u.idx \in DOMAIN prog.ins[u.bid]
<1>1. PICK t \in Temps : u \in UsesOf(prog, t)
  BY DEF AllUses
<1>2. CASE u \in PhiUses(prog, t)
  <2>1. PICK b \in Blocks(prog) : u \in {Statement("UPhi", b, j) :
          j \in {k \in DOMAIN prog.phi[b] : t \in ToSet(prog.phi[b][k].arg)}}
    BY <1>2 DEF PhiUses
  <2>2. PICK j \in DOMAIN prog.phi[b] : u = Statement("UPhi", b, j)
    BY <2>1
  <2>3. j \in Nat \ {0}
    <3>1. Len(prog.phi[b]) \in Nat /\ j \in 1..Len(prog.phi[b])
      BY PhiAt
    <3> QED
      BY <3>1
  <2> QED
    BY <2>2, <2>3 DEF Statement
<1>3. CASE u \in InsUses(prog, t)
  <2>1. PICK b \in Blocks(prog) : u \in {Statement("UIns", b, j) :
          j \in {k \in DOMAIN prog.ins[b] : t \in ToSet(prog.ins[b][k].arg)}}
    BY <1>3 DEF InsUses
  <2>2. PICK j \in DOMAIN prog.ins[b] : u = Statement("UIns", b, j)
    BY <2>1
  <2>3. j \in Nat \ {0}
    <3>1. Len(prog.ins[b]) \in Nat /\ j \in 1..Len(prog.ins[b])
      BY InsAt
    <3> QED
      BY <3>1
  <2> QED
    BY <2>2, <2>3 DEF Statement
<1>4. CASE u \in JmpUses(prog, t)
  <2>1. PICK b \in Blocks(prog) : u = Statement("UJmp", b, 1)
    BY <1>4 DEF JmpUses
  <2> QED
    BY <2>1 DEF Statement
<1> QED
  BY <1>1, <1>2, <1>3, <1>4 DEF UsesOf

(* What does not touch the list of edges.                                  *)
LEMMA ListStays ==
  ASSUME prog' = prog, flowrk' = flowrk, work' = work
  PROVE  Listed' = Listed /\ (AList => AList')
<1>1. Listed' = Listed
  BY DEF Listed
<1>2. \A l : IsList(l) => IsList(l)'
  BY DEF IsList
<1> QED
  BY <1>1, <1>2 DEF AList

(* What is listed is an edge.                                              *)
LEMMA ListedEdges == ASSUME Typed PROVE Listed \subseteq Edges(prog)
  BY DEF Listed, Typed

(* What does not touch edges, visits or the place.                         *)
LEMMA EdgesStay ==
  ASSUME Typed, Typed', EdgesOK, Dominated, Defined, Growing,
         flowrk' = flowrk, work' = work, dead' = dead,
         \A b \in Blocks(prog) : (Seen(b)' <=> Seen(b)) /\ (Came(b)' <=> Came(b)),
         pc \in {"left", "loop"} => pc' \in {"left", "loop"} \/ flowrk = Nil
  PROVE  EdgesOK' /\ Dominated'
<1>1. prog' = prog
  BY DEF Growing
<1>2. Listed' = Listed
  BY <1>1, ListStays
<1>3. ASSUME NEW e \in Edges(prog), Wanted(e) PROVE Wanted(e)'
  <2>1. CASE e = Start
    BY <2>1 DEF Wanted
  <2>2. CASE e # Start
    <3>1. e[1] \in Blocks(prog) /\ e[2] \in {0, 1} /\ Seen(e[1]) /\ EdgeAlive(e[1], e[2])
      BY <2>2, <1>3, EdgeIs DEF Wanted
    <3>2. PICK b \in Blocks(prog), k \in {0, 1} : b = e[1] /\ k = e[2]
      BY <3>1
    <3>3. LatVal(prog.arg[b]) # Top
      BY <3>1, <3>2, JmpDefined
    <3>4. EdgeAlive(b, k)'
      BY <3>1, <3>2, <3>3, GrowIs
    <3> QED
      BY <3>1, <3>2, <3>4 DEF Wanted
  <2> QED
    BY <2>1, <2>2
<1>4. Listed \subseteq Edges(prog)
  BY ListedEdges
<1>5. \A e \in Listed' : Wanted(e)'
  BY <1>2, <1>3, <1>4 DEF EdgesOK
<1>6. ASSUME NEW e \in Edges(prog), ~dead[e]
      PROVE  Wanted(e)' /\ Dest(e)' # Gone /\ Came(Dest(e))'
  <2>1. Wanted(e) /\ Dest(e) # Gone /\ Came(Dest(e))
    BY <1>6 DEF EdgesOK
  <2>2. PICK b : b = Dest(e)
    OBVIOUS
  <2>3. b \in Blocks(prog) /\ Dest(e)' = b
    <3>1. Dest(e) \in Blocks(prog) \cup {Gone}
      BY DestIs
    <3>2. Dest(e)' = Dest(e)
      BY <1>1 DEF Dest
    <3> QED
      BY <2>1, <2>2, <3>1, <3>2
  <2> QED
    BY <2>1, <2>2, <2>3, <1>3
<1>7. ~dead'[Start] \/ Start \in Listed'
  BY <1>2 DEF EdgesOK
<1>8. ASSUME NEW b \in Blocks(prog), Came(b)'
      PROVE  \E e \in Edges(prog) : ~dead'[e] /\ Dest(e)' = b
  BY <1>1, <1>8 DEF EdgesOK, Dest
<1>9. ASSUME NEW b \in Blocks(prog), Seen(b)', prog.jmp[b] = "jmp"
      PROVE  ~dead'[<<b, 0>>] \/ (pc' \in {"left", "loop"} /\ flowrk' = <<b, 0>>)
  <2>1. <<b, 0>> # Nil
    BY EdgeIs
  <2>2. Seen(b)
    BY <1>9
  <2>3. ~dead[<<b, 0>>] \/ (pc \in {"left", "loop"} /\ flowrk = <<b, 0>>)
    BY <2>2, <1>9 DEF EdgesOK
  <2> QED
    BY <2>1, <2>3
<1>10. EdgesOK'
  BY <1>1, <1>5, <1>6, <1>7, <1>8, <1>9 DEF EdgesOK
<1>11. Dominated'
  <2>1. \A S, d : Closed(prog, S, d)' <=> Closed(prog, S, d)
    BY <1>1
  <2> QED
    BY <1>1, <2>1 DEF Dominated
<1> QED
  BY <1>10, <1>11

(* The four steps that visit a phi or an instruction.                      *)
LEMMA VisitStep ==
  ASSUME SearchInv, Typed', prog' = prog, n' = n, visit' = visit,
         dead' = dead, work' = work, flowrk' = flowrk,
         NEW t \in Temps, NEW m, Defines(t, m), Update(t, m),
         \/ pc \in {"phi", "ins"} /\ pc' = pc /\ i' = i + 1 /\ m # Top
         \/ pc \in {"UPhi", "UIns"} /\ pc' = "loop",
         pc \in {"phi", "UPhi"} => i \in DOMAIN prog.phi[n] /\ t = prog.phi[n][i].to,
         pc \in {"ins", "UIns"} => i \in DOMAIN prog.ins[n] /\ t = prog.ins[n][i].to
  PROVE  AList' /\ EdgesOK' /\ Dominated' /\ Defined' /\ NotBelow' /\ UpToDate'
<1>1. /\ Typed /\ AList /\ EdgesOK /\ Dominated /\ Defined /\ NotBelow /\ UpToDate
      /\ i \in Nat \ {0} /\ n \in Blocks(prog)
  BY DEF SearchInv, Typed
<1>2. /\ NotBelow' /\ Growing /\ val'[t] = m
      /\ ToSet(usewrk) \subseteq ToSet(usewrk')
      /\ \A b \in Blocks(prog) : \A j \in DOMAIN prog.phi[b] :
           PhiFine(b, j) \/ prog.phi[b][j].to = t => PhiFine(b, j)'
      /\ \A b \in Blocks(prog) : \A j \in DOMAIN prog.ins[b] :
           InsFine(b, j) \/ prog.ins[b][j].to = t => InsFine(b, j)'
      /\ \A b \in Blocks(prog) : \A k \in {0, 1} :
           EdgeAlive(b, k)' => EdgeAlive(b, k) \/ Statement("UJmp", b, 1) \in ToSet(usewrk')
  BY <1>1, VisitKeeps
<1>3. \A b : (Seen(b)' <=> Seen(b)) /\ (Came(b)' <=> Came(b))
  BY DEF Seen, Came, Busy
<1>4. Listed' = Listed /\ AList'
  BY <1>1, ListStays
<1>5. EdgesOK' /\ Dominated'
  BY <1>1, <1>2, <1>3, EdgesStay
<1>6. Defined'
  <2>1. \A e \in Temps : val[e] # Top => val'[e] # Top
    BY <1>2 DEF Growing, Leq, Top, Bot
  <2>2. /\ \A b \in Blocks(prog) : Defs(prog, b) \subseteq Temps /\ PhiDefs(prog, b) \subseteq Temps
        /\ \A b \in Blocks(prog) : \A j \in DOMAIN prog.phi[b] : prog.phi[b][j].to \in Temps
        /\ \A b \in Blocks(prog) : \A j \in DOMAIN prog.ins[b] : prog.ins[b][j].to \in Temps
    BY <1>1, PhiAt, InsAt DEF Defs, PhiDefs, InsDefs
  <2>3. ASSUME NEW b \in Blocks(prog), Seen(b)', NEW e \in Defs(prog, b) PROVE val'[e] # Top
    BY <1>1, <1>3, <2>1, <2>2, <2>3 DEF Defined
  <2>4. ASSUME pc' = "phi", NEW j \in 1..i' - 1 PROVE val'[prog.phi[n][j].to] # Top
    <3>1. pc = "phi" /\ i' = i + 1 /\ i \in DOMAIN prog.phi[n] /\ t = prog.phi[n][i].to /\ m # Top
      BY <2>4
    <3>2. CASE j = i
      BY <3>1, <3>2, <1>2
    <3>3. CASE j # i
      <4>1. j \in 1..i - 1
        BY <3>1, <3>3, <1>1
      <4>2. j \in DOMAIN prog.phi[n]
        <5>1. DOMAIN prog.phi[n] = 1..Len(prog.phi[n]) /\ Len(prog.phi[n]) \in Nat
          BY <1>1, ProgIs, PartsAre
        <5> QED
          BY <5>1, <4>1, <3>1, <1>1
      <4> QED
        BY <4>1, <4>2, <3>1, <1>1, <2>1, <2>2 DEF Defined
    <3> QED
      BY <3>2, <3>3
  <2>5. ASSUME pc' = "ins", NEW e \in PhiDefs(prog, n) PROVE val'[e] # Top
    <3>1. pc = "ins"
      BY <2>5
    <3> QED
      BY <3>1, <1>1, <2>1, <2>2 DEF Defined
  <2>6. ASSUME pc' = "ins", NEW j \in 1..i' - 1 PROVE val'[prog.ins[n][j].to] # Top
    <3>1. pc = "ins" /\ i' = i + 1 /\ i \in DOMAIN prog.ins[n] /\ t = prog.ins[n][i].to /\ m # Top
      BY <2>6
    <3>2. CASE j = i
      BY <3>1, <3>2, <1>2
    <3>3. CASE j # i
      <4>1. j \in 1..i - 1
        BY <3>1, <3>3, <1>1
      <4>2. j \in DOMAIN prog.ins[n]
        <5>1. DOMAIN prog.ins[n] = 1..Len(prog.ins[n]) /\ Len(prog.ins[n]) \in Nat
          BY <1>1, ProgIs, PartsAre
        <5> QED
          BY <5>1, <4>1, <3>1, <1>1
      <4> QED
        BY <4>1, <4>2, <3>1, <1>1, <2>1, <2>2 DEF Defined
    <3> QED
      BY <3>2, <3>3
  <2> QED
    BY <2>3, <2>4, <2>5, <2>6 DEF Defined
<1>7. ASSUME NEW b \in Blocks(prog), NEW j \in DOMAIN prog.phi[b],
             Came(b)', (pc' = "phi" /\ n = b) => j < i'
      PROVE  PhiFine(b, j)'
  <2>1. CASE pc \in {"phi", "UPhi"} /\ n = b /\ i = j
    BY <2>1, <1>2
  <2>2. CASE ~(pc \in {"phi", "UPhi"} /\ n = b /\ i = j)
    <3>1. pc = "phi" /\ n = b => j < i
      <4>1. ASSUME pc = "phi", n = b PROVE j < i
        <5>1. j < i + 1 /\ j # i
          BY <4>1, <2>2, <1>7
        <5>2. j \in Nat
          BY <1>1, PhiAt
        <5> QED
          BY <5>1, <5>2, <1>1
      <4> QED
        BY <4>1
    <3>2. val[prog.phi[b][j].to] = PhiValue(prog.phi[b][j], b) \/ Pending("UPhi", b, j)
      BY <3>1, <1>1, <1>3, <1>7 DEF UpToDate
    <3>3. PhiFine(b, j)
      BY <3>2, <2>2 DEF Pending, PhiFine
    <3> QED
      BY <3>3, <1>2
  <2> QED
    BY <2>1, <2>2
<1>8. ASSUME NEW b \in Blocks(prog), NEW j \in DOMAIN prog.ins[b],
             Seen(b)' \/ (pc' = "ins" /\ n = b /\ j < i')
      PROVE  InsFine(b, j)'
  <2>1. CASE pc \in {"ins", "UIns"} /\ n = b /\ i = j
    BY <2>1, <1>2
  <2>2. CASE ~(pc \in {"ins", "UIns"} /\ n = b /\ i = j)
    <3>1. Seen(b) \/ (pc = "ins" /\ n = b /\ j < i)
      <4>1. ASSUME pc' = "ins", n = b, j < i' PROVE pc = "ins" /\ j < i
        <5>1. pc = "ins" /\ j < i + 1 /\ j # i
          BY <4>1, <2>2
        <5>2. j \in Nat
          BY <1>1, InsAt
        <5> QED
          BY <5>1, <5>2, <1>1
      <4> QED
        BY <4>1, <1>3, <1>8
    <3>2. val[prog.ins[b][j].to] = InsValue(prog.ins[b][j]) \/ Pending("UIns", b, j)
      BY <3>1, <1>1 DEF UpToDate
    <3>3. InsFine(b, j)
      BY <3>2, <2>2 DEF Pending, InsFine
    <3> QED
      BY <3>3, <1>2
  <2> QED
    BY <2>1, <2>2
<1>9. ASSUME NEW b \in Blocks(prog), NEW k \in {0, 1}, Seen(b)', EdgeAlive(b, k)'
      PROVE  ~dead'[<<b, k>>] \/ <<b, k>> \in Listed' \/ Statement("UJmp", b, 1) \in ToSet(usewrk')
  <2>1. CASE Statement("UJmp", b, 1) \in ToSet(usewrk')
    BY <2>1
  <2>2. CASE EdgeAlive(b, k)
    <3>1. ~dead[<<b, k>>] \/ <<b, k>> \in Listed \/ Pending("UJmp", b, 1)
      BY <2>2, <1>1, <1>3, <1>9 DEF UpToDate
    <3> QED
      BY <3>1, <1>2, <1>4 DEF Pending
  <2> QED
    BY <2>1, <2>2, <1>2, <1>9
<1>10. UpToDate'
  BY <1>7, <1>8, <1>9 DEF UpToDate, PhiFine, InsFine, Pending
<1> QED
  BY <1>2, <1>4, <1>5, <1>6, <1>10

(* The value a visited phi is given: an edge came to its block.            *)
LEMMA PhiVisited ==
  ASSUME Typed, EdgesOK, Dominated, Defined, NEW b \in Blocks(prog), NEW j \in DOMAIN prog.phi[b],
         Came(b)
  PROVE  PhiValue(prog.phi[b][j], b) # Top
<1>1. PICK e \in Edges(prog) : ~dead[e] /\ Dest(e) = b
  BY DEF EdgesOK
<1>2. e # Start
  <2>1. prog.phi[0] = <<>>
    BY ProgIs DEF WellFormed
  <2>2. b # 0
    BY <2>1
  <2> QED
    BY <1>1, <2>2, EdgeIs
<1>3. /\ e[1] \in Blocks(prog) /\ e[2] \in {0, 1} /\ e = <<e[1], e[2]>>
      /\ Dest(e) = Succ(prog, e[1], e[2])
  BY <1>2, EdgeIs
<1>4. PICK a \in Blocks(prog), k \in {0, 1} : e = <<a, k>> /\ Succ(prog, a, k) = b
  BY <1>1, <1>3
<1>5. ~DeadEdge(a, b) /\ b \in Succs(prog, a)
  BY <1>1, <1>4, AliveFrom DEF DeadEdge
<1>6. a \in ToSet(prog.phi[b][j].blk)
  <2>1. ToSet(prog.phi[b][j].blk) = Preds(prog, b)
    BY PhiAt
  <2> QED
    BY <2>1, <1>5 DEF Preds
<1>7. PICK x \in DOMAIN prog.phi[b][j].blk : prog.phi[b][j].blk[x] = a
  BY <1>6 DEF ToSet
<1>8. LatVal(prog.phi[b][j].arg[x]) # Top
  BY <1>5, <1>7, HeardDefined
<1> QED
  BY <1>5, <1>7, <1>8, PhiHasValue

(* Visiting a phi through an edge keeps the invariant.                     *)
LEMMA EdgePhiKeeps == ASSUME SearchInv, EdgePhi PROVE SearchInv'
<1>1. /\ Typed /\ Placed /\ EdgesOK /\ Dominated /\ Defined /\ n \in Blocks(prog) /\ i \in Nat \ {0}
      /\ pc = "phi" /\ i <= Len(prog.phi[n])
  BY DEF SearchInv, Typed, EdgePhi
<1>2. /\ prog' = prog /\ n' = n /\ visit' = visit /\ dead' = dead /\ work' = work /\ flowrk' = flowrk
      /\ use' = use /\ pc' = pc /\ i' = i + 1
  BY DEF EdgePhi, VisitPhi
<1>3. Len(prog.phi[n]) \in Nat /\ i \in DOMAIN prog.phi[n]
  BY <1>1, ProgIs, PartsAre
<1> DEFINE t == prog.phi[n][i].to
<1> DEFINE m == PhiValue(prog.phi[n][i], n)
<1>4. t \in Temps /\ m \in Vals /\ Update(t, m) /\ Defines(t, m) /\ m # Top
  <2>1. Came(n)
    BY <1>1 DEF Came, Busy
  <2>2. t \in Temps
    BY <1>1, <1>3, PhiAt
  <2>3. m \in Vals
    BY <1>1, <1>3, PhiValueIs
  <2>4. m # Top
    BY <1>1, <1>3, <2>1, PhiVisited
  <2>5. Update(t, m)
    BY DEF EdgePhi, VisitPhi
  <2>6. Defines(t, m)
    BY <1>1, <1>3 DEF Defines
  <2> QED
    BY <2>2, <2>3, <2>4, <2>5, <2>6
<1>5. t = prog.phi[n][i].to
  OBVIOUS
<1> HIDE DEF t, m
<1>6. Typed'
  <2>1. val' \in [Temps -> Vals] /\ usewrk' \in Seq(AllUses(prog))
    BY <1>1, <1>4, UpdateIs
  <2> QED
    BY <2>1, <1>1, <1>2 DEF Typed
<1>7. AList' /\ EdgesOK' /\ Dominated' /\ Defined' /\ NotBelow' /\ UpToDate'
  BY <1>1, <1>2, <1>3, <1>4, <1>5, <1>6, VisitStep
<1>8. Placed'
  BY <1>1, <1>2, <1>3 DEF Placed, Searching
<1> QED
  BY <1>6, <1>7, <1>8 DEF SearchInv

(* Visiting an instruction of a block entered for the first time keeps it. *)
LEMMA EdgeInsKeeps == ASSUME SearchInv, EdgeIns PROVE SearchInv'
<1>1. /\ Typed /\ Placed /\ EdgesOK /\ Dominated /\ Defined /\ n \in Blocks(prog) /\ i \in Nat \ {0}
      /\ pc = "ins" /\ i <= Len(prog.ins[n])
  BY DEF SearchInv, Typed, EdgeIns
<1>2. /\ prog' = prog /\ n' = n /\ visit' = visit /\ dead' = dead /\ work' = work /\ flowrk' = flowrk
      /\ use' = use /\ pc' = pc /\ i' = i + 1
  BY DEF EdgeIns, VisitIns
<1>3. Len(prog.ins[n]) \in Nat /\ i \in DOMAIN prog.ins[n]
  BY <1>1, ProgIs, PartsAre
<1> DEFINE t == prog.ins[n][i].to
<1> DEFINE m == InsValue(prog.ins[n][i])
<1>4. t \in Temps /\ m \in Vals /\ Update(t, m) /\ Defines(t, m) /\ m # Top
  <2>1. Came(n)
    BY <1>1 DEF Came, Busy
  <2>2. t \in Temps
    BY <1>1, <1>3, InsAt
  <2>3. m \in Vals
    BY <1>1, <1>3, InsValueIs
  <2>4. m # Top
    <3>1. LatVal(prog.ins[n][i].arg[1]) # Top /\ LatVal(prog.ins[n][i].arg[2]) # Top
      BY <1>1, <1>3, <2>1, OperandsDefined DEF Defined
    <3> QED
      BY <3>1, <1>1, <1>3, InsValueIs
  <2>5. Update(t, m)
    BY DEF EdgeIns, VisitIns
  <2>6. Defines(t, m)
    BY <1>1, <1>3 DEF Defines
  <2> QED
    BY <2>2, <2>3, <2>4, <2>5, <2>6
<1>5. t = prog.ins[n][i].to
  OBVIOUS
<1> HIDE DEF t, m
<1>6. Typed'
  <2>1. val' \in [Temps -> Vals] /\ usewrk' \in Seq(AllUses(prog))
    BY <1>1, <1>4, UpdateIs
  <2> QED
    BY <2>1, <1>1, <1>2 DEF Typed
<1>7. AList' /\ EdgesOK' /\ Dominated' /\ Defined' /\ NotBelow' /\ UpToDate'
  BY <1>1, <1>2, <1>3, <1>4, <1>5, <1>6, VisitStep
<1>8. Placed'
  BY <1>1, <1>2, <1>3 DEF Placed, Searching
<1> QED
  BY <1>6, <1>7, <1>8 DEF SearchInv

(* A use is of a statement of a visited block.                             *)
LEMMA UseAt ==
  ASSUME SearchInv, pc \in {"UPhi", "UIns", "UJmp"}
  PROVE  /\ Typed /\ EdgesOK /\ Dominated /\ Defined /\ n \in Blocks(prog)
         /\ flowrk = Nil /\ visit[n] > 0 /\ Seen(n) /\ Came(n)
         /\ pc = "UPhi" => i \in DOMAIN prog.phi[n]
         /\ pc = "UIns" => i \in DOMAIN prog.ins[n]
<1>1. /\ Typed /\ EdgesOK /\ Dominated /\ Defined /\ n \in Blocks(prog)
      /\ flowrk = Nil /\ visit[n] > 0 /\ Statement(pc, n, i) \in AllUses(prog)
  BY DEF SearchInv, Placed, Typed
<1>2. PICK u \in AllUses(prog) : u = Statement(pc, n, i)
  BY <1>1
<1>3. u.type = pc /\ u.bid = n /\ u.idx = i
  BY <1>2 DEF Statement
<1>4. (u.type = "UPhi" => u.idx \in DOMAIN prog.phi[u.bid]) /\ (u.type = "UIns" => u.idx \in DOMAIN prog.ins[u.bid])
  BY <1>1, UseIs
<1> QED
  BY <1>1, <1>3, <1>4 DEF Seen, Came

(* Visiting a phi as a use keeps it.                                       *)
LEMMA UsePhiKeeps == ASSUME SearchInv, UsePhi PROVE SearchInv'
<1>1. /\ Typed /\ EdgesOK /\ Dominated /\ Defined /\ n \in Blocks(prog) /\ pc = "UPhi"
      /\ flowrk = Nil /\ i \in DOMAIN prog.phi[n]
  BY UseAt DEF UsePhi
<1>2. /\ prog' = prog /\ n' = n /\ visit' = visit /\ dead' = dead /\ work' = work /\ flowrk' = flowrk
      /\ use' = use /\ pc' = "loop" /\ i' = i
  BY DEF UsePhi, VisitPhi
<1> DEFINE t == prog.phi[n][i].to
<1> DEFINE m == PhiValue(prog.phi[n][i], n)
<1>3. t \in Temps /\ m \in Vals /\ Update(t, m) /\ Defines(t, m)
  <2>1. t \in Temps
    BY <1>1, PhiAt
  <2>2. m \in Vals
    BY <1>1, PhiValueIs
  <2>3. Update(t, m)
    BY DEF UsePhi, VisitPhi
  <2>4. Defines(t, m)
    BY <1>1 DEF Defines
  <2> QED
    BY <2>1, <2>2, <2>3, <2>4
<1>4. t = prog.phi[n][i].to
  OBVIOUS
<1> HIDE DEF t, m
<1>5. Typed'
  <2>1. val' \in [Temps -> Vals] /\ usewrk' \in Seq(AllUses(prog))
    BY <1>1, <1>3, UpdateIs
  <2> QED
    BY <2>1, <1>1, <1>2 DEF Typed
<1>6. AList' /\ EdgesOK' /\ Dominated' /\ Defined' /\ NotBelow' /\ UpToDate'
  BY <1>1, <1>2, <1>3, <1>4, <1>5, VisitStep
<1>7. Placed'
  BY <1>2 DEF Placed, Searching
<1> QED
  BY <1>5, <1>6, <1>7 DEF SearchInv

(* Visiting an instruction as a use keeps it.                              *)
LEMMA UseInsKeeps == ASSUME SearchInv, UseIns PROVE SearchInv'
<1>1. /\ Typed /\ EdgesOK /\ Dominated /\ Defined /\ n \in Blocks(prog) /\ pc = "UIns"
      /\ flowrk = Nil /\ i \in DOMAIN prog.ins[n]
  BY UseAt DEF UseIns
<1>2. /\ prog' = prog /\ n' = n /\ visit' = visit /\ dead' = dead /\ work' = work /\ flowrk' = flowrk
      /\ use' = use /\ pc' = "loop" /\ i' = i
  BY DEF UseIns, VisitIns
<1> DEFINE t == prog.ins[n][i].to
<1> DEFINE m == InsValue(prog.ins[n][i])
<1>3. t \in Temps /\ m \in Vals /\ Update(t, m) /\ Defines(t, m)
  <2>1. t \in Temps
    BY <1>1, InsAt
  <2>2. m \in Vals
    BY <1>1, InsValueIs
  <2>3. Update(t, m)
    BY DEF UseIns, VisitIns
  <2>4. Defines(t, m)
    BY <1>1 DEF Defines
  <2> QED
    BY <2>1, <2>2, <2>3, <2>4
<1>4. t = prog.ins[n][i].to
  OBVIOUS
<1> HIDE DEF t, m
<1>5. Typed'
  <2>1. val' \in [Temps -> Vals] /\ usewrk' \in Seq(AllUses(prog))
    BY <1>1, <1>3, UpdateIs
  <2> QED
    BY <2>1, <1>1, <1>2 DEF Typed
<1>6. AList' /\ EdgesOK' /\ Dominated' /\ Defined' /\ NotBelow' /\ UpToDate'
  BY <1>1, <1>2, <1>3, <1>4, <1>5, VisitStep
<1>7. Placed'
  BY <1>2 DEF Placed, Searching
<1> QED
  BY <1>5, <1>6, <1>7 DEF SearchInv

-----------------------------------------------------------------------------
(* The steps that change neither values nor edges.                         *)
LEMMA ValuesStay ==
  ASSUME Typed, Typed', prog' = prog, val' = val, dead' = dead
  PROVE  /\ Growing
         /\ \A e : LatVal(e)' = LatVal(e)
         /\ \A b \in Blocks(prog) : \A j \in DOMAIN prog.phi[b] :
              PhiValue(prog.phi[b][j], b)' = PhiValue(prog.phi[b][j], b)
         /\ \A b \in Blocks(prog) : \A j \in DOMAIN prog.ins[b] :
              InsValue(prog.ins[b][j])' = InsValue(prog.ins[b][j])
         /\ \A b, k : EdgeAlive(b, k)' <=> EdgeAlive(b, k)
<1>1. \A e : LatVal(e)' = LatVal(e)
  BY DEF LatVal
<1>2. Growing
  BY DEF Growing, Leq
<1>3. \A b, k : EdgeAlive(b, k)' <=> EdgeAlive(b, k)
  BY DEF EdgeAlive, Taken, LatVal
<1>4. \A b, c : DeadEdge(c, b)' <=> DeadEdge(c, b)
  BY DEF DeadEdge
<1> QED
  BY <1>1, <1>2, <1>3, <1>4, PhiStays, InsStays

(* A step that changes no value, edge or list keeps the parts about them.  *)
LEMMA QuietStep ==
  ASSUME SearchInv, Typed', prog' = prog, val' = val, dead' = dead,
         work' = work, flowrk' = flowrk,
         \A b \in Blocks(prog) : (Seen(b)' <=> Seen(b)) /\ (Came(b)' <=> Came(b)),
         pc \in {"left", "loop"} => pc' \in {"left", "loop"} \/ flowrk = Nil
  PROVE  AList' /\ Listed' = Listed /\ EdgesOK' /\ Dominated' /\ NotBelow'
<1>1. Typed /\ AList /\ EdgesOK /\ Dominated /\ Defined /\ NotBelow
  BY DEF SearchInv
<1>2. Growing
  BY <1>1, ValuesStay
<1>3. AList' /\ Listed' = Listed
  BY <1>1, ListStays
<1>4. EdgesOK' /\ Dominated'
  BY <1>1, <1>2, EdgesStay
<1>5. NotBelow'
  BY <1>1, ValuesStay DEF NotBelow
<1> QED
  BY <1>3, <1>4, <1>5

(* Going on from the phis to the instructions keeps the invariant.         *)
LEMMA EdgePhisSeenKeeps == ASSUME SearchInv, EdgePhisSeen PROVE SearchInv'
<1>1. /\ Typed /\ Placed /\ EdgesOK /\ Dominated /\ Defined /\ UpToDate /\ n \in Blocks(prog)
      /\ i \in Nat \ {0} /\ pc = "phi" /\ i > Len(prog.phi[n]) /\ visit[n] \in Nat
  BY DEF SearchInv, Typed, EdgePhisSeen
<1>2. /\ prog' = prog /\ n' = n /\ visit' = visit /\ dead' = dead /\ work' = work /\ flowrk' = flowrk
      /\ use' = use /\ usewrk' = usewrk /\ val' = val
      /\ i' = 1 /\ pc' = IF visit[n] = 0 THEN "ins" ELSE "left"
  BY DEF EdgePhisSeen, lists
<1>3. Typed'
  BY <1>1, <1>2 DEF Typed
<1>4. \A b \in Blocks(prog) : (Seen(b)' <=> Seen(b)) /\ (Came(b)' <=> Came(b))
  BY <1>1, <1>2 DEF Seen, Came, Busy
<1>5. AList' /\ Listed' = Listed /\ EdgesOK' /\ Dominated' /\ NotBelow'
  BY <1>1, <1>2, <1>3, <1>4, QuietStep
<1>6. Placed'
  <2>1. Len(prog.ins[n]) \in Nat
    BY <1>1, ProgIs, PartsAre
  <2> QED
    BY <2>1, <1>1, <1>2 DEF Placed, Searching
<1>7. \A j \in DOMAIN prog.phi[n] : j \in 1..i - 1 /\ j < i
  <2>1. Len(prog.phi[n]) \in Nat /\ DOMAIN prog.phi[n] = 1..Len(prog.phi[n])
    BY <1>1, ProgIs, PartsAre
  <2> QED
    BY <2>1, <1>1
<1>8. Defined'
  <2>1. \A t \in PhiDefs(prog, n) : val[t] # Top
    BY <1>1, <1>7 DEF Defined, PhiDefs
  <2>2. \A j \in 1..i' - 1 : FALSE
    BY <1>2
  <2> QED
    BY <2>1, <2>2, <1>1, <1>2, <1>4 DEF Defined
<1>9. UpToDate'
  <2>1. /\ \A b \in Blocks(prog) : \A j \in DOMAIN prog.phi[b] :
             PhiValue(prog.phi[b][j], b)' = PhiValue(prog.phi[b][j], b)
        /\ \A b \in Blocks(prog) : \A j \in DOMAIN prog.ins[b] :
             InsValue(prog.ins[b][j])' = InsValue(prog.ins[b][j])
        /\ \A b, k : EdgeAlive(b, k)' <=> EdgeAlive(b, k)
    BY <1>1, <1>2, <1>3, ValuesStay
  <2>2. \A type \in {"UPhi", "UIns", "UJmp"} : \A b, j : Pending(type, b, j) => Pending(type, b, j)'
    BY <1>1, <1>2 DEF Pending
  <2>3. ASSUME NEW b \in Blocks(prog), NEW j \in DOMAIN prog.phi[b], Came(b)'
        PROVE  val'[prog.phi[b][j].to] = PhiValue(prog.phi[b][j], b)' \/ Pending("UPhi", b, j)'
    BY <2>1, <2>2, <2>3, <1>1, <1>2, <1>4, <1>7 DEF UpToDate
  <2>4. ASSUME NEW b \in Blocks(prog), NEW j \in DOMAIN prog.ins[b],
               Seen(b)' \/ (pc' = "ins" /\ n' = b /\ j < i')
        PROVE  val'[prog.ins[b][j].to] = InsValue(prog.ins[b][j])' \/ Pending("UIns", b, j)'
    <3>1. Len(prog.ins[b]) \in Nat /\ j \in 1..Len(prog.ins[b])
      BY <1>1, InsAt
    <3>2. Seen(b)
      BY <3>1, <2>4, <1>2, <1>4
    <3> QED
      BY <3>2, <2>1, <2>2, <1>1, <1>2 DEF UpToDate
  <2>5. ASSUME NEW b \in Blocks(prog), NEW k \in {0, 1}, Seen(b)', EdgeAlive(b, k)'
        PROVE  ~dead'[<<b, k>>] \/ <<b, k>> \in Listed' \/ Pending("UJmp", b, 1)'
    BY <2>1, <2>2, <2>5, <1>1, <1>2, <1>4, <1>5 DEF UpToDate
  <2> QED
    BY <2>3, <2>4, <2>5, <1>2 DEF UpToDate
<1> QED
  BY <1>3, <1>5, <1>6, <1>8, <1>9 DEF SearchInv

(* fold.c:229 does not fail: an edge is first in the list until it is      *)
(* alive if its jump has no condition.                                     *)
LEMMA EdgeLeftKeeps == ASSUME SearchInv, EdgeLeft PROVE SearchInv'
<1>1. /\ Typed /\ Placed /\ EdgesOK /\ Dominated /\ Defined /\ UpToDate /\ n \in Blocks(prog)
      /\ i \in Nat \ {0} /\ pc = "left" /\ visit \in [Blocks(prog) -> Nat]
  BY DEF SearchInv, Typed, EdgeLeft
<1>2. /\ prog' = prog /\ n' = n /\ dead' = dead /\ work' = work /\ flowrk' = flowrk
      /\ use' = use /\ usewrk' = usewrk /\ val' = val /\ i' = i
      /\ visit' = [visit EXCEPT ![n] = visit[n] + 1]
  BY DEF EdgeLeft, lists
<1>3. pc' = "loop"
  <2>1. Seen(n)
    BY <1>1 DEF Seen
  <2>2. prog.jmp[n] = "jmp" => ~dead[<<n, 0>>] \/ flowrk = <<n, 0>>
    BY <2>1, <1>1 DEF EdgesOK
  <2> QED
    BY <2>2 DEF EdgeLeft
<1>4. Typed'
  BY <1>1, <1>2, <1>3 DEF Typed
<1>5. \A b \in Blocks(prog) : (Seen(b)' <=> Seen(b)) /\ (Came(b)' <=> Came(b))
  <2>1. visit'[n] > 0 /\ \A b \in Blocks(prog) : b # n => visit'[b] = visit[b]
    BY <1>1, <1>2
  <2> QED
    BY <2>1, <1>1, <1>2, <1>3 DEF Seen, Came, Busy
<1>6. AList' /\ Listed' = Listed /\ EdgesOK' /\ Dominated' /\ NotBelow'
  BY <1>1, <1>2, <1>3, <1>4, <1>5, QuietStep
<1>7. Placed'
  BY <1>3 DEF Placed, Searching
<1>8. Defined'
  BY <1>1, <1>2, <1>3, <1>5 DEF Defined
<1>9. UpToDate'
  <2>1. /\ \A b \in Blocks(prog) : \A j \in DOMAIN prog.phi[b] :
             PhiValue(prog.phi[b][j], b)' = PhiValue(prog.phi[b][j], b)
        /\ \A b \in Blocks(prog) : \A j \in DOMAIN prog.ins[b] :
             InsValue(prog.ins[b][j])' = InsValue(prog.ins[b][j])
        /\ \A b, k : EdgeAlive(b, k)' <=> EdgeAlive(b, k)
    BY <1>1, <1>2, <1>4, ValuesStay
  <2>2. \A type \in {"UPhi", "UIns", "UJmp"} : \A b, j : Pending(type, b, j) => Pending(type, b, j)'
    BY <1>1, <1>2 DEF Pending
  <2>3. ASSUME NEW b \in Blocks(prog), NEW j \in DOMAIN prog.phi[b], Came(b)'
        PROVE  val'[prog.phi[b][j].to] = PhiValue(prog.phi[b][j], b)' \/ Pending("UPhi", b, j)'
    BY <2>1, <2>2, <2>3, <1>1, <1>2, <1>5 DEF UpToDate
  <2>4. ASSUME NEW b \in Blocks(prog), NEW j \in DOMAIN prog.ins[b], Seen(b)'
        PROVE  val'[prog.ins[b][j].to] = InsValue(prog.ins[b][j])' \/ Pending("UIns", b, j)'
    BY <2>1, <2>2, <2>4, <1>1, <1>2, <1>5 DEF UpToDate
  <2>5. ASSUME NEW b \in Blocks(prog), NEW k \in {0, 1}, Seen(b)', EdgeAlive(b, k)'
        PROVE  ~dead'[<<b, k>>] \/ <<b, k>> \in Listed' \/ Pending("UJmp", b, 1)'
    BY <2>1, <2>2, <2>5, <1>1, <1>2, <1>5, <1>6 DEF UpToDate
  <2> QED
    BY <2>3, <2>4, <2>5, <1>2, <1>3 DEF UpToDate
<1> QED
  BY <1>4, <1>6, <1>7, <1>8, <1>9 DEF SearchInv

(* Taking the last use keeps it.                                           *)
LEMMA PopUseKeeps == ASSUME SearchInv, PopUse PROVE SearchInv'
<1>1. /\ Typed /\ Placed /\ EdgesOK /\ Dominated /\ Defined /\ UpToDate /\ pc = "loop"
      /\ flowrk = Nil /\ usewrk \in Seq(AllUses(prog)) /\ usewrk # <<>> /\ visit \in [Blocks(prog) -> Nat]
  BY DEF SearchInv, Typed, PopUse
<1> DEFINE q == usewrk
<1> DEFINE A == AllUses(prog)
<1>2. /\ Len(q) \in Nat \ {0} /\ DOMAIN q = 1..Len(q) /\ Front(q) \in Seq(A)
      /\ q[Len(q)] \in A
      /\ \A x \in 1..Len(q) : x = Len(q) \/ q[x] \in ToSet(Front(q))
  <2>1. q \in Seq(A) /\ q # <<>>
    BY <1>1
  <2> HIDE DEF q, A
  <2>2. Len(q) \in Nat \ {0} /\ DOMAIN q = 1..Len(q) /\ Front(q) = SubSeq(q, 1, Len(q) - 1)
    BY <2>1 DEF Front
  <2>3. Front(q) \in Seq(A) /\ Len(Front(q)) = Len(q) - 1
    BY <2>1, <2>2
  <2>4. \A x \in 1..Len(q) - 1 : Front(q)[x] = q[x]
    BY <2>1, <2>2
  <2>5. DOMAIN Front(q) = 1..Len(q) - 1
    BY <2>3
  <2>6. \A x \in 1..Len(q) : x = Len(q) \/ q[x] \in ToSet(Front(q))
    <3>0. Len(q) \in Nat
      BY <2>2
    <3>1. \A x \in 1..Len(q) : x # Len(q) => x \in 1..Len(q) - 1
      BY <3>0
    <3> QED
      BY <3>1, <2>4, <2>5 DEF ToSet
  <2>7. q[Len(q)] \in A
    BY <2>1, <2>2
  <2> QED
    BY <2>2, <2>3, <2>6, <2>7
<1>3. PICK u \in A : u = usewrk[Len(usewrk)]
  BY <1>2
<1>4. /\ prog' = prog /\ dead' = dead /\ work' = work /\ flowrk' = flowrk
      /\ use' = use /\ usewrk' = Front(q) /\ val' = val /\ visit' = visit
      /\ n' = u.bid /\ i' = u.idx /\ pc' = IF visit[u.bid] = 0 THEN "loop" ELSE u.type
  BY <1>3 DEF PopUse, LastUse
<1>5. /\ u.type \in {"UPhi", "UIns", "UJmp"} /\ u.bid \in Blocks(prog) /\ u.idx \in Nat \ {0}
      /\ u = Statement(u.type, u.bid, u.idx)
  BY <1>1, UseIs
<1>6. \A e \in ToSet(usewrk) : e = u \/ e \in ToSet(usewrk')
  BY <1>2, <1>3, <1>4 DEF ToSet
<1>7. usewrk' \in Seq(AllUses(prog)) /\ u \in AllUses(prog)
  BY <1>2, <1>4
<1> HIDE DEF q, A
<1>8. Typed'
  <2>1. pc' \in {"loop", "UPhi", "UIns", "UJmp"}
    BY <1>4, <1>5
  <2> QED
    BY <2>1, <1>1, <1>4, <1>5, <1>7 DEF Typed
<1>9. \A b \in Blocks(prog) : (Seen(b)' <=> Seen(b)) /\ (Came(b)' <=> Came(b))
  <2>1. pc' \in {"loop", "UPhi", "UIns", "UJmp"}
    BY <1>4, <1>5
  <2> QED
    BY <2>1, <1>1, <1>4 DEF Seen, Came, Busy
<1>10. AList' /\ Listed' = Listed /\ EdgesOK' /\ Dominated' /\ NotBelow'
  BY <1>1, <1>4, <1>8, <1>9, QuietStep
<1>11. Placed'
  <2>1. visit[u.bid] \in Nat
    BY <1>1, <1>5
  <2>2. CASE visit[u.bid] = 0
    BY <2>2, <1>4 DEF Placed, Searching
  <2>3. CASE visit[u.bid] # 0
    <3>1. pc' = u.type /\ visit'[n'] > 0 /\ Statement(pc', n', i') = u
      BY <2>1, <2>3, <1>4, <1>5
    <3>2. Statement(pc', n', i') \in AllUses(prog)
      BY <3>1, <1>7
    <3> QED
      BY <3>1, <3>2, <1>1, <1>4, <1>5 DEF Placed, Searching
  <2> QED
    BY <2>2, <2>3
<1>12. Defined'
  <2>1. pc' \in {"loop", "UPhi", "UIns", "UJmp"}
    BY <1>4, <1>5
  <2> QED
    BY <2>1, <1>1, <1>4, <1>9 DEF Defined
<1>13. UpToDate'
  <2>1. /\ \A b \in Blocks(prog) : \A j \in DOMAIN prog.phi[b] :
             PhiValue(prog.phi[b][j], b)' = PhiValue(prog.phi[b][j], b)
        /\ \A b \in Blocks(prog) : \A j \in DOMAIN prog.ins[b] :
             InsValue(prog.ins[b][j])' = InsValue(prog.ins[b][j])
        /\ \A b, k : EdgeAlive(b, k)' <=> EdgeAlive(b, k)
    BY <1>1, <1>4, <1>8, ValuesStay
  <2>2. ASSUME NEW type \in {"UPhi", "UIns", "UJmp"}, NEW b \in Blocks(prog), NEW j,
               Came(b), Pending(type, b, j)
        PROVE  Pending(type, b, j)'
    <3>1. Statement(type, b, j) \in ToSet(usewrk)
      BY <2>2, <1>1 DEF Pending
    <3>2. CASE Statement(type, b, j) \in ToSet(usewrk')
      BY <3>2 DEF Pending
    <3>3. CASE Statement(type, b, j) = u
      <4>1. u.type = type /\ u.bid = b /\ u.idx = j
        BY <3>3 DEF Statement
      <4>2. visit[b] # 0
        BY <2>2, <1>1 DEF Came, Busy
      <4> QED
        BY <4>1, <4>2, <1>4 DEF Pending
    <3> QED
      BY <3>1, <3>2, <3>3, <1>6
  <2>3. ASSUME NEW b \in Blocks(prog), NEW j \in DOMAIN prog.phi[b], Came(b)'
        PROVE  val'[prog.phi[b][j].to] = PhiValue(prog.phi[b][j], b)' \/ Pending("UPhi", b, j)'
    BY <2>1, <2>2, <2>3, <1>1, <1>4, <1>9 DEF UpToDate
  <2>4. ASSUME NEW b \in Blocks(prog), NEW j \in DOMAIN prog.ins[b], Seen(b)'
        PROVE  val'[prog.ins[b][j].to] = InsValue(prog.ins[b][j])' \/ Pending("UIns", b, j)'
    BY <2>1, <2>2, <2>4, <1>1, <1>4, <1>9, SeenCame DEF UpToDate
  <2>5. ASSUME NEW b \in Blocks(prog), NEW k \in {0, 1}, Seen(b)', EdgeAlive(b, k)'
        PROVE  ~dead'[<<b, k>>] \/ <<b, k>> \in Listed' \/ Pending("UJmp", b, 1)'
    BY <2>1, <2>2, <2>5, <1>1, <1>4, <1>9, <1>10, SeenCame DEF UpToDate
  <2>6. pc' \in {"loop", "UPhi", "UIns", "UJmp"}
    BY <1>4, <1>5
  <2> QED
    BY <2>3, <2>4, <2>5, <2>6, <1>4 DEF UpToDate
<1> QED
  BY <1>8, <1>10, <1>11, <1>12, <1>13 DEF SearchInv

(* The end of the search keeps it.                                         *)
LEMMA SearchDoneKeeps == ASSUME SearchInv, SearchDone PROVE SearchInv'
<1>1. /\ Typed /\ Placed /\ EdgesOK /\ Dominated /\ Defined /\ UpToDate
      /\ pc = "loop" /\ flowrk = Nil /\ usewrk = <<>>
  BY DEF SearchInv, SearchDone
<1>2. /\ prog' = prog /\ n' = n /\ visit' = visit /\ dead' = dead /\ work' = work /\ flowrk' = flowrk
      /\ use' = use /\ usewrk' = usewrk /\ val' = val /\ i' = 1 /\ pc' = "trim"
  BY DEF SearchDone, lists
<1>3. Typed'
  BY <1>1, <1>2 DEF Typed
<1>4. \A b \in Blocks(prog) : (Seen(b)' <=> Seen(b)) /\ (Came(b)' <=> Came(b))
  BY <1>1, <1>2 DEF Seen, Came, Busy
<1>5. AList' /\ Listed' = Listed /\ EdgesOK' /\ Dominated' /\ NotBelow'
  BY <1>1, <1>2, <1>3, <1>4, QuietStep
<1>6. Placed'
  BY <1>1, <1>2 DEF Placed, Searching
<1>7. Defined'
  BY <1>1, <1>2, <1>4 DEF Defined
<1>8. UpToDate'
  <2>1. /\ \A b \in Blocks(prog) : \A j \in DOMAIN prog.phi[b] :
             PhiValue(prog.phi[b][j], b)' = PhiValue(prog.phi[b][j], b)
        /\ \A b \in Blocks(prog) : \A j \in DOMAIN prog.ins[b] :
             InsValue(prog.ins[b][j])' = InsValue(prog.ins[b][j])
        /\ \A b, k : EdgeAlive(b, k)' <=> EdgeAlive(b, k)
    BY <1>1, <1>2, <1>3, ValuesStay
  <2>2. \A type \in {"UPhi", "UIns", "UJmp"} : \A b, j : Pending(type, b, j) => Pending(type, b, j)'
    BY <1>1, <1>2 DEF Pending
  <2>3. ASSUME NEW b \in Blocks(prog), NEW j \in DOMAIN prog.phi[b], Came(b)'
        PROVE  val'[prog.phi[b][j].to] = PhiValue(prog.phi[b][j], b)' \/ Pending("UPhi", b, j)'
    BY <2>1, <2>2, <2>3, <1>1, <1>2, <1>4 DEF UpToDate
  <2>4. ASSUME NEW b \in Blocks(prog), NEW j \in DOMAIN prog.ins[b], Seen(b)'
        PROVE  val'[prog.ins[b][j].to] = InsValue(prog.ins[b][j])' \/ Pending("UIns", b, j)'
    BY <2>1, <2>2, <2>4, <1>1, <1>2, <1>4 DEF UpToDate
  <2>5. ASSUME NEW b \in Blocks(prog), NEW k \in {0, 1}, Seen(b)', EdgeAlive(b, k)'
        PROVE  ~dead'[<<b, k>>] \/ <<b, k>> \in Listed' \/ Pending("UJmp", b, 1)'
    BY <2>1, <2>2, <2>5, <1>1, <1>2, <1>4, <1>5 DEF UpToDate
  <2> QED
    BY <2>3, <2>4, <2>5, <1>2 DEF UpToDate
<1> QED
  BY <1>3, <1>5, <1>6, <1>7, <1>8 DEF SearchInv

-----------------------------------------------------------------------------
(* Visiting a jump: none of visitjmp's assertions fails (fold.c:129, 136,  *)
(* 141), and the edges it may take are queued.                             *)
LEMMA TakenIs ==
  ASSUME Typed, NEW b \in Blocks(prog)
  PROVE  /\ Taken(b) \in Seq({0, 1})
         /\ \A x, y \in 1..Len(Taken(b)) : Taken(b)[x] = Taken(b)[y] => x = y
         /\ \A k \in {0, 1} : EdgeAlive(b, k) <=> \E x \in 1..Len(Taken(b)) : Taken(b)[x] = k
         /\ prog.jmp[b] = "jmp" => Taken(b) = <<0>>
         /\ prog.jmp[b] = "jnz" /\ LatVal(prog.arg[b]) # Bot =>
              Taken(b)[1] \in {0, 1} /\ ~EdgeAlive(b, 1 - Taken(b)[1])
<1>1. prog.jmp[b] \in {"ret", "jmp", "jnz"}
  BY JmpAt
<1>2. Taken(b) = IF prog.jmp[b] = "ret" THEN <<>> ELSE IF prog.jmp[b] = "jmp" THEN <<0>>
                 ELSE IF LatVal(prog.arg[b]) = Bot THEN <<0, 1>>
                 ELSE IF LatVal(prog.arg[b]) = 0 THEN <<1>> ELSE <<0>>
  BY <1>1 DEF Taken
<1> DEFINE orders == {<<>>, <<0>>, <<1>>, <<0, 1>>}
<1>3. Taken(b) \in orders
  BY <1>2
<1>4. ASSUME NEW ks \in orders
      PROVE  /\ ks \in Seq({0, 1}) /\ DOMAIN ks = 1..Len(ks)
             /\ \A x, y \in 1..Len(ks) : ks[x] = ks[y] => x = y
  <2>1. CASE ks = <<>>
    BY <2>1
  <2>2. CASE ks = <<0>>
    BY <2>2
  <2>3. CASE ks = <<1>>
    BY <2>3
  <2>4. CASE ks = <<0, 1>>
    <3>1. ks \in Seq({0, 1}) /\ Len(ks) = 2 /\ ks[1] = 0 /\ ks[2] = 1 /\ DOMAIN ks = 1..2
      BY <2>4
    <3>2. \A x \in 1..2 : x = 1 \/ x = 2
      OBVIOUS
    <3> QED
      BY <3>1, <3>2
  <2> QED
    BY <2>1, <2>2, <2>3, <2>4
<1>5. /\ Taken(b) \in Seq({0, 1}) /\ DOMAIN Taken(b) = 1..Len(Taken(b))
      /\ \A x, y \in 1..Len(Taken(b)) : Taken(b)[x] = Taken(b)[y] => x = y
  BY <1>3, <1>4
<1>6. \A k \in {0, 1} : EdgeAlive(b, k) <=> \E x \in 1..Len(Taken(b)) : Taken(b)[x] = k
  BY <1>5 DEF EdgeAlive
<1>7. prog.jmp[b] = "jmp" => Taken(b) = <<0>>
  BY <1>2
<1>8. ASSUME prog.jmp[b] = "jnz", LatVal(prog.arg[b]) # Bot
      PROVE  Taken(b)[1] \in {0, 1} /\ ~EdgeAlive(b, 1 - Taken(b)[1])
  <2>1. Taken(b) = <<1>> \/ Taken(b) = <<0>>
    BY <1>2, <1>8
  <2> QED
    BY <2>1 DEF EdgeAlive
<1> QED
  BY <1>5, <1>6, <1>7, <1>8

(* The edges it may take are queued in front of the list.                  *)
LEMMA TakenPushed ==
  ASSUME Typed, AList, prog' = prog, PushEdges(n, Taken(n)),
         \A k \in {0, 1} : EdgeAlive(n, k) => <<n, k>> \notin Listed
  PROVE  /\ AList' /\ Listed \subseteq Listed'
         /\ flowrk' \in Edges(prog) \cup {Nil} /\ work' \in [Edges(prog) -> Edges(prog) \cup {Nil}]
         /\ \A k \in {0, 1} : EdgeAlive(n, k) => <<n, k>> \in Listed'
         /\ \A e \in Listed' \ Listed : \E k \in {0, 1} : e = <<n, k>> /\ EdgeAlive(n, k)
         /\ prog.jmp[n] = "jmp" => flowrk' = <<n, 0>>
<1>1. n \in Blocks(prog)
  BY DEF Typed
<1>2. /\ Taken(n) \in Seq({0, 1})
      /\ \A x, y \in 1..Len(Taken(n)) : Taken(n)[x] = Taken(n)[y] => x = y
      /\ \A k \in {0, 1} : EdgeAlive(n, k) <=> \E x \in 1..Len(Taken(n)) : Taken(n)[x] = k
      /\ prog.jmp[n] = "jmp" => Taken(n) = <<0>>
  BY <1>1, TakenIs
<1>3. PICK b \in Blocks(prog) : b = n
  BY <1>1
<1>4. PICK ks \in Seq({0, 1}) : ks = Taken(n)
  BY <1>2
<1>5. /\ PushEdges(b, ks)
      /\ \A x, y \in 1..Len(ks) : ks[x] = ks[y] => x = y
      /\ \A x \in 1..Len(ks) : ks[x] \in {0, 1} /\ <<b, ks[x]>> \notin Listed
  <2>1. \A x \in 1..Len(ks) : ks[x] \in {0, 1}
    OBVIOUS
  <2>2. \A k \in {0, 1} : (\E x \in 1..Len(ks) : ks[x] = k) => <<b, k>> \notin Listed
    BY <1>2, <1>3, <1>4
  <2>3. \A x, y \in 1..Len(ks) : ks[x] = ks[y] => x = y
    BY <1>2, <1>4
  <2>4. PushEdges(b, ks)
    BY <1>3, <1>4
  <2> QED
    BY <2>1, <2>2, <2>3, <2>4
<1>6. /\ AList' /\ Listed' = Listed \cup {<<b, ks[x]>> : x \in 1..Len(ks)}
      /\ flowrk' \in Edges(prog) \cup {Nil} /\ work' \in [Edges(prog) -> Edges(prog) \cup {Nil}]
      /\ ks # <<>> => flowrk' = <<b, ks[1]>>
  BY <1>5, PushIs
<1>7. ASSUME NEW k \in {0, 1}, EdgeAlive(n, k) PROVE <<n, k>> \in Listed'
  <2>1. PICK x \in 1..Len(ks) : ks[x] = k
    BY <1>2, <1>4, <1>7
  <2>2. <<n, k>> \in {<<b, ks[y]>> : y \in 1..Len(ks)}
    BY <2>1, <1>3
  <2> QED
    BY <2>2, <1>6
<1>8. ASSUME NEW e \in Listed' \ Listed PROVE \E k \in {0, 1} : e = <<n, k>> /\ EdgeAlive(n, k)
  <2>1. PICK x \in 1..Len(ks) : e = <<n, ks[x]>>
    BY <1>3, <1>6
  <2>2. ks[x] \in {0, 1} /\ EdgeAlive(n, ks[x])
    BY <2>1, <1>2, <1>4, <1>5
  <2> QED
    BY <2>1, <2>2
<1>9. ASSUME prog.jmp[n] = "jmp" PROVE flowrk' = <<n, 0>>
  <2>1. ks = <<0>>
    BY <1>2, <1>4, <1>9
  <2>2. ks # <<>> /\ ks[1] = 0
    BY <2>1
  <2> QED
    BY <2>2, <1>3, <1>6
<1> QED
  BY <1>6, <1>7, <1>8, <1>9

(* Visiting a jump: what is common to the first visit and to one as a use. *)
LEMMA JmpStep ==
  ASSUME SearchInv, Typed', prog' = prog, n' = n, visit' = visit, val' = val,
         dead' = dead, usewrk' = usewrk, PushEdges(n, Taken(n)),
         \A k \in {0, 1} : EdgeAlive(n, k) => <<n, k>> \notin Listed,
         \/ pc = "ins" /\ pc' = "left" /\ visit[n] = 0 /\ i > Len(prog.ins[n])
         \/ pc = "UJmp" /\ pc' = "loop" /\ Seen(n)
  PROVE  AList' /\ EdgesOK' /\ Dominated' /\ Defined' /\ NotBelow' /\ UpToDate'
<1>1. /\ Typed /\ AList /\ EdgesOK /\ Dominated /\ Defined /\ NotBelow /\ UpToDate /\ n \in Blocks(prog)
      /\ i \in Nat \ {0}
  BY DEF SearchInv, Typed
<1>2. /\ AList' /\ Listed \subseteq Listed'
      /\ \A k \in {0, 1} : EdgeAlive(n, k) => <<n, k>> \in Listed'
      /\ \A e \in Listed' \ Listed : \E k \in {0, 1} : e = <<n, k>> /\ EdgeAlive(n, k)
      /\ prog.jmp[n] = "jmp" => flowrk' = <<n, 0>>
  BY <1>1, TakenPushed
<1>7. /\ Growing
      /\ \A d \in Blocks(prog) : \A j \in DOMAIN prog.phi[d] :
           PhiValue(prog.phi[d][j], d)' = PhiValue(prog.phi[d][j], d)
      /\ \A d \in Blocks(prog) : \A j \in DOMAIN prog.ins[d] :
           InsValue(prog.ins[d][j])' = InsValue(prog.ins[d][j])
      /\ \A d, k : EdgeAlive(d, k)' <=> EdgeAlive(d, k)
  BY <1>1, ValuesStay
<1>8. /\ \A d \in Blocks(prog) : Came(d)' <=> Came(d)
      /\ \A d \in Blocks(prog) : Seen(d)' <=> Seen(d) \/ d = n
      /\ \A e : Wanted(e) => Wanted(e)'
  BY <1>7 DEF Came, Seen, Busy, Wanted
<1>9. ASSUME NEW e \in Listed' PROVE Wanted(e)'
  <2>1. CASE e \in Listed
    BY <2>1, <1>1, <1>8 DEF EdgesOK
  <2>2. CASE e \notin Listed
    <3>1. PICK k \in {0, 1} : e = <<n, k>> /\ EdgeAlive(n, k)
      BY <2>2, <1>2, <1>9
    <3>2. Seen(n)' /\ EdgeAlive(n, k)'
      BY <3>1, <1>1, <1>7, <1>8
    <3> QED
      BY <3>1, <3>2 DEF Wanted
  <2> QED
    BY <2>1, <2>2
<1>10. ASSUME NEW e \in Edges(prog), ~dead[e] PROVE Wanted(e)' /\ Dest(e)' # Gone /\ Came(Dest(e))'
  <2>1. Wanted(e) /\ Dest(e) # Gone /\ Came(Dest(e))
    BY <1>1, <1>10 DEF EdgesOK
  <2>2. PICK d \in Blocks(prog) : d = Dest(e)
    BY <2>1, <1>1, DestIs
  <2>3. Dest(e)' = d
    BY <2>2 DEF Dest
  <2> QED
    BY <2>1, <2>2, <2>3, <1>8
<1>11. ~dead'[Start] \/ Start \in Listed'
  BY <1>1, <1>2 DEF EdgesOK
<1>12. ASSUME NEW d \in Blocks(prog), Came(d)' PROVE \E e \in Edges(prog) : ~dead'[e] /\ Dest(e)' = d
  BY <1>1, <1>8, <1>12 DEF EdgesOK, Dest
<1>13. ASSUME NEW d \in Blocks(prog), Seen(d)', prog.jmp[d] = "jmp"
       PROVE  ~dead'[<<d, 0>>] \/ (pc' \in {"left", "loop"} /\ flowrk' = <<d, 0>>)
  <2>1. CASE d = n
    BY <2>1, <1>2, <1>13
  <2>2. CASE d # n
    BY <2>2, <1>1, <1>8, <1>13 DEF EdgesOK
  <2> QED
    BY <2>1, <2>2
<1>14. EdgesOK'
  BY <1>9, <1>10, <1>11, <1>12, <1>13 DEF EdgesOK
<1>15. Dominated'
  <2>1. \A S, d : Closed(prog, S, d)' <=> Closed(prog, S, d)
    OBVIOUS
  <2> QED
    BY <2>1, <1>1, <1>8 DEF Dominated
<1>16. Defined'
  <2>1. ASSUME NEW d \in Blocks(prog), Seen(d)', NEW e \in Defs(prog, d) PROVE val[e] # Top
    <3>1. CASE Seen(d)
      BY <3>1, <2>1, <1>1 DEF Defined
    <3>2. CASE ~Seen(d)
      <4>1. d = n /\ pc = "ins" /\ i > Len(prog.ins[n])
        BY <3>2, <2>1, <1>8
      <4>2. CASE e \in PhiDefs(prog, n)
        BY <4>1, <4>2, <1>1 DEF Defined
      <4>3. CASE e \in InsDefs(prog, n)
        <5>1. PICK j \in DOMAIN prog.ins[n] : e = prog.ins[n][j].to
          BY <4>3 DEF InsDefs
        <5>2. Len(prog.ins[n]) \in Nat /\ j \in 1..Len(prog.ins[n])
          BY <1>1, InsAt
        <5>3. j \in 1..i - 1
          BY <5>2, <4>1, <1>1
        <5> QED
          BY <5>1, <5>3, <4>1, <1>1 DEF Defined
      <4> QED
        BY <4>1, <4>2, <4>3, <2>1 DEF Defs
    <3> QED
      BY <3>1, <3>2
  <2> QED
    BY <2>1 DEF Defined
<1>17. NotBelow'
  BY <1>1, <1>7 DEF NotBelow
<1>18. ASSUME NEW d \in Blocks(prog), NEW j \in DOMAIN prog.phi[d], Came(d)'
       PROVE  val'[prog.phi[d][j].to] = PhiValue(prog.phi[d][j], d)' \/ Pending("UPhi", d, j)'
  <2>1. val[prog.phi[d][j].to] = PhiValue(prog.phi[d][j], d) \/ Pending("UPhi", d, j)
    BY <1>1, <1>8, <1>18 DEF UpToDate
  <2> QED
    BY <2>1, <1>7 DEF Pending
<1>19. ASSUME NEW d \in Blocks(prog), NEW j \in DOMAIN prog.ins[d], Seen(d)'
       PROVE  val'[prog.ins[d][j].to] = InsValue(prog.ins[d][j])' \/ Pending("UIns", d, j)'
  <2>1. Seen(d) \/ (pc = "ins" /\ n = d /\ j < i)
    <3>1. Len(prog.ins[d]) \in Nat /\ j \in 1..Len(prog.ins[d])
      BY <1>1, InsAt
    <3>2. j \in Nat /\ j <= Len(prog.ins[d])
      BY <3>1
    <3>3. ~Seen(d) => d = n /\ pc = "ins" /\ i > Len(prog.ins[d])
      BY <1>8, <1>19
    <3> QED
      BY <3>1, <3>2, <3>3, <1>1
  <2>2. val[prog.ins[d][j].to] = InsValue(prog.ins[d][j]) \/ Pending("UIns", d, j)
    BY <2>1, <1>1 DEF UpToDate
  <2> QED
    BY <2>2, <1>7 DEF Pending
<1>20. ASSUME NEW d \in Blocks(prog), NEW k \in {0, 1}, Seen(d)', EdgeAlive(d, k)'
       PROVE  ~dead'[<<d, k>>] \/ <<d, k>> \in Listed' \/ Pending("UJmp", d, 1)'
  <2>1. EdgeAlive(d, k)
    BY <1>7, <1>20
  <2>2. CASE d = n
    BY <2>1, <2>2, <1>2
  <2>3. CASE d # n
    <3>1. ~dead[<<d, k>>] \/ <<d, k>> \in Listed \/ Pending("UJmp", d, 1)
      BY <2>1, <2>3, <1>1, <1>8, <1>20 DEF UpToDate
    <3> QED
      BY <3>1, <2>3, <1>2 DEF Pending
  <2> QED
    BY <2>2, <2>3
<1>21. UpToDate'
  BY <1>18, <1>19, <1>20 DEF UpToDate
<1> QED
  BY <1>2, <1>14, <1>15, <1>16, <1>17, <1>21

(* Visiting the jump of a block entered for the first time keeps the       *)
(* invariant, and no assertion fails.                                      *)
LEMMA EdgeJmpKeeps == ASSUME SearchInv, EdgeJmp PROVE SearchInv'
<1>1. /\ Typed /\ AList /\ EdgesOK /\ Dominated /\ Defined /\ n \in Blocks(prog) /\ i \in Nat \ {0}
      /\ pc = "ins" /\ i > Len(prog.ins[n]) /\ visit[n] = 0 /\ visit[n] \in Nat
  BY DEF SearchInv, Placed, Typed, EdgeJmp
<1>2. /\ prog' = prog /\ n' = n /\ visit' = visit /\ dead' = dead /\ usewrk' = usewrk
      /\ use' = use /\ val' = val /\ i' = i
  BY DEF EdgeJmp, VisitJmp
<1>3. ~Seen(n) /\ Came(n)
  BY <1>1 DEF Seen, Came, Busy
<1>4. \A k \in {0, 1} : dead[<<n, k>>] /\ <<n, k>> \notin Listed
  <2>1. \A k \in {0, 1} : <<n, k>> \in Edges(prog) /\ <<n, k>> # Start
    BY <1>1, EdgeIs
  <2>2. \A k \in {0, 1} : ~Wanted(<<n, k>>)
    BY <2>1, <1>3 DEF Wanted
  <2>3. dead \in [Edges(prog) -> BOOLEAN]
    BY <1>1 DEF Typed
  <2> QED
    BY <2>1, <2>2, <2>3, <1>1 DEF EdgesOK
<1>5. JmpAsserts(n)
  <2>1. LatVal(prog.arg[n]) # Top
    <3>1. \A t \in InsDefs(prog, n) : val[t] # Top
      <4>1. ASSUME NEW j \in DOMAIN prog.ins[n] PROVE val[prog.ins[n][j].to] # Top
        <5>1. Len(prog.ins[n]) \in Nat /\ j \in 1..Len(prog.ins[n])
          BY <1>1, InsAt
        <5>2. j \in 1..i - 1
          BY <5>1, <1>1
        <5> QED
          BY <5>2, <1>1 DEF Defined
      <4> QED
        BY <4>1 DEF InsDefs
    <3>2. \A t \in PhiDefs(prog, n) : val[t] # Top
      BY <1>1 DEF Defined
    <3> QED
      BY <3>1, <3>2, <1>1, <1>3, OperandsDefined
  <2>2. prog.jmp[n] = "jnz" /\ LatVal(prog.arg[n]) # Bot => Taken(n)[1] \in {0, 1}
    BY <1>1, TakenIs
  <2>3. \A k \in {0, 1} : 1 - k \in {0, 1}
    OBVIOUS
  <2> QED
    BY <2>1, <2>2, <2>3, <1>4 DEF JmpAsserts
<1>6. pc' = "left" /\ PushEdges(n, Taken(n))
  BY <1>5 DEF EdgeJmp, VisitJmp
<1>7. Typed'
  <2>1. flowrk' \in Edges(prog) \cup {Nil} /\ work' \in [Edges(prog) -> Edges(prog) \cup {Nil}]
    BY <1>1, <1>2, <1>4, <1>6, TakenPushed
  <2> QED
    BY <2>1, <1>1, <1>2, <1>6 DEF Typed
<1>8. AList' /\ EdgesOK' /\ Dominated' /\ Defined' /\ NotBelow' /\ UpToDate'
  BY <1>1, <1>2, <1>4, <1>6, <1>7, JmpStep
<1>9. Placed'
  BY <1>6 DEF Placed, Searching
<1> QED
  BY <1>7, <1>8, <1>9 DEF SearchInv

(* Visiting a jump as a use keeps it, and no assertion fails.              *)
LEMMA UseJmpKeeps == ASSUME SearchInv, UseJmp PROVE SearchInv'
<1>1. /\ Typed /\ AList /\ EdgesOK /\ Dominated /\ Defined /\ n \in Blocks(prog)
      /\ pc = "UJmp" /\ flowrk = Nil /\ Seen(n)
  BY UseAt DEF UseJmp, SearchInv
<1>2. /\ prog' = prog /\ n' = n /\ visit' = visit /\ dead' = dead /\ usewrk' = usewrk
      /\ use' = use /\ val' = val /\ i' = i
  BY DEF UseJmp, VisitJmp
<1>3. Listed = {}
  <2>1. PICK l : IsList(l)
    BY <1>1 DEF AList
  <2>2. Listed = ToSet(l) /\ l = <<>>
    BY <2>1, <1>1, ListedIs
  <2> QED
    BY <2>2 DEF ToSet
<1>4. JmpAsserts(n)
  <2>1. LatVal(prog.arg[n]) # Top
    BY <1>1, JmpDefined
  <2>2. ASSUME prog.jmp[n] = "jnz", LatVal(prog.arg[n]) # Bot PROVE dead[<<n, 1 - Taken(n)[1]>>]
    <3>1. Taken(n)[1] \in {0, 1} /\ ~EdgeAlive(n, 1 - Taken(n)[1])
      BY <1>1, <2>2, TakenIs
    <3>2. PICK k \in {0, 1} : k = 1 - Taken(n)[1]
      BY <3>1
    <3>3. <<n, k>> \in Edges(prog) /\ <<n, k>> # Start
      BY <1>1, EdgeIs
    <3>4. ~Wanted(<<n, k>>)
      BY <3>1, <3>2, <3>3 DEF Wanted
    <3> QED
      BY <3>2, <3>3, <3>4, <1>1 DEF EdgesOK
  <2> QED
    BY <2>1, <2>2 DEF JmpAsserts
<1>5. pc' = "loop" /\ PushEdges(n, Taken(n))
  BY <1>4 DEF UseJmp, VisitJmp
<1>6. Typed'
  <2>1. flowrk' \in Edges(prog) \cup {Nil} /\ work' \in [Edges(prog) -> Edges(prog) \cup {Nil}]
    BY <1>1, <1>2, <1>3, <1>5, TakenPushed
  <2> QED
    BY <2>1, <1>1, <1>2, <1>5 DEF Typed
<1>7. AList' /\ EdgesOK' /\ Dominated' /\ Defined' /\ NotBelow' /\ UpToDate'
  BY <1>1, <1>2, <1>3, <1>5, <1>6, JmpStep
<1>8. Placed'
  BY <1>5 DEF Placed, Searching
<1> QED
  BY <1>6, <1>7, <1>8 DEF SearchInv

-----------------------------------------------------------------------------
(* An edge a jump may take goes somewhere.                                 *)
LEMMA AliveGoes ==
  ASSUME Typed, NEW b \in Blocks(prog), NEW k \in {0, 1}, EdgeAlive(b, k)
  PROVE  Dest(<<b, k>>) # Gone
<1>1. Takes(b, k)
  BY AliveIs
<1>2. Succ(prog, b, k) # Gone
  BY <1>1, JmpAt DEF Takes, Succ
<1> QED
  BY <1>2, EdgeIs

(* Taking an edge keeps it.                                                *)
LEMMA PopEdgeKeeps == ASSUME SearchInv, PopEdge PROVE SearchInv'
<1>1. /\ Typed /\ Placed /\ AList /\ EdgesOK /\ Dominated /\ Defined /\ NotBelow /\ UpToDate
      /\ pc = "loop" /\ flowrk # Nil /\ flowrk \in Edges(prog)
      /\ dead \in [Edges(prog) -> BOOLEAN] /\ visit \in [Blocks(prog) -> Nat]
  BY DEF SearchInv, Typed, PopEdge
<1>2. /\ prog' = prog /\ val' = val /\ use' = use /\ usewrk' = usewrk /\ visit' = visit
      /\ flowrk' = work[flowrk] /\ work' = [work EXCEPT ![flowrk] = Nil]
  BY DEF PopEdge
<1>3. /\ AList' /\ Listed' = Listed \ {flowrk} /\ flowrk \in Listed
      /\ flowrk' \in Edges(prog) \cup {Nil} /\ work' \in [Edges(prog) -> Edges(prog) \cup {Nil}]
  BY <1>1, <1>2, PopIs
<1>4. PICK e \in Edges(prog) : e = flowrk
  BY <1>1
<1>5. PICK d \in Blocks(prog) \cup {Gone} : d = Dest(e)
  BY <1>1, DestIs
<1>6. Wanted(e)
  BY <1>1, <1>3, <1>4 DEF EdgesOK
<1> DEFINE Dropped == dead' = dead /\ n' = n /\ i' = i /\ pc' = pc /\ (d = Gone \/ ~dead[e])
<1> DEFINE Entered == d \in Blocks(prog) /\ dead' = [dead EXCEPT ![e] = FALSE]
                      /\ n' = d /\ i' = 1 /\ pc' = "phi"
<1>7. Dropped \/ Entered
  BY <1>4, <1>5 DEF PopEdge
<1>8. /\ dead' \in [Edges(prog) -> BOOLEAN]
      /\ \A x \in Edges(prog) : x # e => dead'[x] = dead[x]
      /\ \A x \in Edges(prog) : ~dead[x] => ~dead'[x]
      /\ d # Gone => ~dead'[e]
      /\ \A x \in Edges(prog) : ~dead'[x] => ~dead[x] \/ (x = e /\ Entered)
  BY <1>1, <1>7
<1>9. Typed'
  <2>1. /\ pc' \in {"loop", "phi"} /\ n' \in Blocks(prog) /\ i' \in Nat \ {0}
    BY <1>1, <1>7 DEF Typed
  <2> QED
    BY <2>1, <1>1, <1>2, <1>3, <1>8 DEF Typed
<1>10. Growing
  BY <1>2, <1>8 DEF Growing, Leq
<1>11. /\ \A x : LatVal(x)' = LatVal(x)
       /\ \A b, k : EdgeAlive(b, k)' <=> EdgeAlive(b, k)
       /\ \A x \in Edges(prog) : Dest(x)' = Dest(x)
  BY <1>2 DEF LatVal, EdgeAlive, Taken, Dest
<1>12. /\ \A b \in Blocks(prog) : Seen(b)' <=> Seen(b)
       /\ \A b \in Blocks(prog) : Came(b) => Came(b)'
       /\ \A b \in Blocks(prog) : Came(b)' => Came(b) \/ (b = d /\ Entered)
       /\ Entered => Came(d)'
  BY <1>1, <1>2, <1>7 DEF Seen, Came, Busy
<1>13. \A x \in Edges(prog) : Wanted(x) => Wanted(x)'
  <2>1. ASSUME NEW x \in Edges(prog), Wanted(x), x # Start PROVE Wanted(x)'
    <3>1. x[1] \in Blocks(prog) /\ Seen(x[1]) /\ EdgeAlive(x[1], x[2])
      BY <1>1, <2>1, EdgeIs DEF Wanted
    <3>2. Seen(x[1])' /\ EdgeAlive(x[1], x[2])'
      BY <3>1, <1>11, <1>12
    <3> QED
      BY <3>2 DEF Wanted
  <2>2. Wanted(Start)'
    BY DEF Wanted
  <2> QED
    BY <2>1, <2>2
<1> HIDE DEF Dropped
<1>14. EdgesOK'
  <2>1. ASSUME NEW x \in Listed' PROVE Wanted(x)'
    <3>1. x \in Listed /\ Listed \subseteq Edges(prog)
      BY <1>1, <1>3, ListedEdges
    <3> QED
      BY <3>1, <1>1, <1>13 DEF EdgesOK
  <2>2. ASSUME NEW x \in Edges(prog), ~dead'[x] PROVE Wanted(x)' /\ Dest(x)' # Gone /\ Came(Dest(x))'
    <3>1. CASE ~dead[x]
      <4>1. Wanted(x) /\ Dest(x) # Gone /\ Came(Dest(x))
        BY <3>1, <1>1 DEF EdgesOK
      <4>2. PICK b \in Blocks(prog) : b = Dest(x)
        BY <4>1, <1>1, DestIs
      <4>3. Came(b)' /\ Dest(x)' = b
        BY <4>1, <4>2, <1>11, <1>12
      <4> QED
        BY <4>1, <4>2, <4>3, <1>13
    <3>2. CASE x = e /\ Entered
      <4>1. Dest(x)' = d /\ Came(d)' /\ d # Gone
        BY <3>2, <1>1, <1>5, <1>11, <1>12, JmpAt
      <4> QED
        BY <4>1, <3>2, <1>6, <1>13
    <3> QED
      BY <3>1, <3>2, <2>2, <1>8
  <2>3. ~dead'[Start] \/ Start \in Listed'
    <3>1. Start \in Edges(prog) /\ Dest(Start) # Gone
      BY <1>1, EdgeIs DEF Gone
    <3>2. CASE e = Start
      BY <3>1, <3>2, <1>5, <1>8
    <3>3. CASE e # Start
      BY <3>1, <3>3, <1>1, <1>3, <1>4, <1>8 DEF EdgesOK
    <3> QED
      BY <3>2, <3>3
  <2>4. ASSUME NEW b \in Blocks(prog), Came(b)' PROVE \E x \in Edges(prog) : ~dead'[x] /\ Dest(x)' = b
    <3>1. CASE Came(b)
      BY <3>1, <1>1, <1>8, <1>11 DEF EdgesOK
    <3>2. CASE b = d /\ Entered
      <4>1. d # Gone
        BY <3>2, <1>1, JmpAt
      <4> QED
        BY <4>1, <3>2, <1>5, <1>8, <1>11
    <3> QED
      BY <3>1, <3>2, <2>4, <1>12
  <2>5. ASSUME NEW b \in Blocks(prog), Seen(b)', prog.jmp[b] = "jmp" PROVE ~dead'[<<b, 0>>]
    <3>1. <<b, 0>> \in Edges(prog) /\ Dest(<<b, 0>>) # Gone
      <4>1. prog.s1[b] # Gone
        BY <1>1, <2>5, JmpAt
      <4>2. Dest(<<b, 0>>) = Succ(prog, b, 0) /\ <<b, 0>> \in Edges(prog)
        BY <1>1, EdgeIs
      <4> QED
        BY <4>1, <4>2 DEF Succ
    <3>2. ~dead[<<b, 0>>] \/ flowrk = <<b, 0>>
      BY <2>5, <1>1, <1>12 DEF EdgesOK
    <3> QED
      BY <3>1, <3>2, <1>4, <1>5, <1>8
  <2>6. prog' = prog
    BY <1>2
  <2> HIDE DEF Entered
  <2> QED
    BY <2>1, <2>2, <2>3, <2>4, <2>5, <2>6 DEF EdgesOK
<1>15. Dominated'
  <2>1. \A S, x : Closed(prog, S, x)' <=> Closed(prog, S, x)
    BY <1>2
  <2>2. ASSUME NEW x \in Blocks(prog), NEW S \in SUBSET Blocks(prog), Closed(prog, S, x), ~Seen(x),
               NEW b \in Blocks(prog), Came(b)'
        PROVE  b \in S \cup {x}
    <3>1. CASE Came(b)
      BY <3>1, <2>2, <1>1 DEF Dominated
    <3>2. CASE b = d /\ Entered
      <4>1. CASE e = Start
        <5>1. d = 0
          BY <4>1, <1>1, <1>5, EdgeIs
        <5> QED
          BY <5>1, <3>2, <2>2 DEF Closed
      <4>2. CASE e # Start
        <5>1. /\ e[1] \in Blocks(prog) /\ e[2] \in {0, 1} /\ Dest(e) = Succ(prog, e[1], e[2])
              /\ Seen(e[1])
          BY <4>2, <1>1, <1>6, EdgeIs DEF Wanted
        <5>2. e[1] \in S \cup {x} /\ e[1] # x
          BY <5>1, <2>2, <1>1, SeenCame DEF Dominated
        <5>3. b \in Succs(prog, e[1])
          <6>1. b # Gone
            BY <1>1, JmpAt
          <6>2. Succ(prog, e[1], e[2]) = b
            BY <5>1, <3>2, <1>5
          <6>3. \A c \in Blocks(prog) : \A k \in {0, 1} : Succ(prog, c, k) # Gone => Succ(prog, c, k) \in Succs(prog, c)
            BY <1>1, EdgeIs
          <6>4. e[1] \in Blocks(prog) /\ e[2] \in {0, 1}
            BY <5>1
          <6> QED
            BY <6>1, <6>2, <6>3, <6>4
        <5> QED
          BY <5>2, <5>3, <2>2 DEF Closed
      <4> QED
        BY <4>1, <4>2
    <3> QED
      BY <3>1, <3>2, <2>2, <1>12
  <2> QED
    BY <2>1, <2>2, <1>2, <1>12 DEF Dominated
<1>16. Defined'
  <2>1. pc' = "phi" => \A j \in 1..i' - 1 : FALSE
    BY <1>1, <1>7 DEF Dropped
  <2>2. pc' # "ins"
    BY <1>1, <1>7 DEF Dropped
  <2> QED
    BY <2>1, <2>2, <1>1, <1>2, <1>12 DEF Defined
<1>17. NotBelow'
  <2>1. /\ \A b \in Blocks(prog) : \A j \in DOMAIN prog.phi[b] :
             /\ val[prog.phi[b][j].to] \in Vals
             /\ PhiValue(prog.phi[b][j], b) \in Vals /\ PhiValue(prog.phi[b][j], b)' \in Vals
             /\ Leq(PhiValue(prog.phi[b][j], b), PhiValue(prog.phi[b][j], b)')
        /\ \A b \in Blocks(prog) : \A j \in DOMAIN prog.ins[b] :
             InsValue(prog.ins[b][j])' = InsValue(prog.ins[b][j])
    <3>1. Produced /\ Produced'
      <4>1. Produced
        BY <1>1, Produces
      <4>2. Produced'
        BY <1>9, Produces, PTL
      <4> QED
        BY <4>1, <4>2
    <3>2. \A b \in Blocks(prog) : \A j \in DOMAIN prog.phi[b] : val[prog.phi[b][j].to] \in Vals
      BY <1>1, PhiAt DEF Typed
    <3>3. \A b \in Blocks(prog) : \A j \in DOMAIN prog.phi[b] :
            Leq(PhiValue(prog.phi[b][j], b), PhiValue(prog.phi[b][j], b)')
      BY <1>1, <1>9, <1>10, GrowIs
    <3>4. \A b \in Blocks(prog) : \A j \in DOMAIN prog.ins[b] :
            InsValue(prog.ins[b][j])' = InsValue(prog.ins[b][j])
      BY <1>1, <1>2, <1>9, <1>11, InsStays
    <3> QED
      BY <3>1, <3>2, <3>3, <3>4, <1>2 DEF Produced
  <2>2. ASSUME NEW b \in Blocks(prog), NEW j \in DOMAIN prog.phi[b]
        PROVE  Leq(val'[prog.phi[b][j].to], PhiValue(prog.phi[b][j], b)')
    <3>1. Leq(val[prog.phi[b][j].to], PhiValue(prog.phi[b][j], b))
      BY <1>1 DEF NotBelow
    <3> QED
      BY <3>1, <2>1, <1>2, LeqIs
  <2> QED
    BY <2>1, <2>2, <1>1, <1>2 DEF NotBelow
<1>18. UpToDate'
  <2>1. \A type \in {"UPhi", "UIns", "UJmp"} : \A b, j : Pending(type, b, j) => Pending(type, b, j)'
    BY <1>1, <1>2 DEF Pending
  <2>2. ASSUME NEW b \in Blocks(prog), NEW j \in DOMAIN prog.phi[b], Came(b)',
               (pc' = "phi" /\ n' = b) => j < i'
        PROVE  val'[prog.phi[b][j].to] = PhiValue(prog.phi[b][j], b)' \/ Pending("UPhi", b, j)'
    <3>1. ~(b = d /\ Entered)
      <4>1. j \in Nat \ {0}
        BY <1>1, PhiAt
      <4> QED
        BY <4>1, <2>2
    <3>2. Came(b)
      BY <3>1, <2>2, <1>12
    <3>3. \A c \in Blocks(prog) : DeadEdge(c, b)' <=> DeadEdge(c, b)
      <4>1. CASE Dropped
        BY <4>1, <1>2 DEF Dropped, DeadEdge
      <4>2. CASE Entered
        <5>1. ASSUME NEW c \in Blocks(prog), NEW k \in {0, 1}, Succ(prog, c, k) = b
              PROVE  dead'[<<c, k>>] = dead[<<c, k>>]
          <6>1. <<c, k>> \in Edges(prog) /\ Dest(<<c, k>>) = b
            BY <5>1, <1>1, EdgeIs
          <6>2. <<c, k>> # e
            BY <6>1, <3>1, <4>2, <1>5
          <6> QED
            BY <6>1, <6>2, <1>8
        <5> QED
          BY <5>1, <1>2 DEF DeadEdge
      <4> QED
        BY <4>1, <4>2, <1>7
    <3>4. PhiValue(prog.phi[b][j], b)' = PhiValue(prog.phi[b][j], b)
      BY <3>3, <1>1, <1>2, <1>9, <1>11, PhiStays
    <3> QED
      BY <3>2, <3>4, <2>1, <1>1, <1>2 DEF UpToDate
  <2>3. ASSUME NEW b \in Blocks(prog), NEW j \in DOMAIN prog.ins[b], Seen(b)'
        PROVE  val'[prog.ins[b][j].to] = InsValue(prog.ins[b][j])' \/ Pending("UIns", b, j)'
    <3>1. InsValue(prog.ins[b][j])' = InsValue(prog.ins[b][j])
      BY <1>1, <1>2, <1>9, <1>11, InsStays
    <3> QED
      BY <3>1, <2>1, <2>3, <1>1, <1>2, <1>12 DEF UpToDate
  <2>4. ASSUME NEW b \in Blocks(prog), NEW k \in {0, 1}, Seen(b)', EdgeAlive(b, k)'
        PROVE  ~dead'[<<b, k>>] \/ <<b, k>> \in Listed' \/ Pending("UJmp", b, 1)'
    <3>1. EdgeAlive(b, k) /\ <<b, k>> \in Edges(prog)
      BY <2>4, <1>1, <1>11, EdgeIs
    <3>2. Dest(<<b, k>>) # Gone
      BY <3>1, <1>1, AliveGoes
    <3>3. CASE <<b, k>> = e
      BY <3>2, <3>3, <1>5, <1>8
    <3>4. CASE <<b, k>> # e
      BY <3>1, <3>4, <2>1, <2>4, <1>1, <1>3, <1>4, <1>8, <1>12 DEF UpToDate
    <3> QED
      BY <3>3, <3>4
  <2>5. pc' # "ins"
    BY <1>1, <1>7 DEF Dropped
  <2> HIDE DEF Entered
  <2> QED
    BY <2>2, <2>3, <2>4, <2>5, <1>2 DEF UpToDate
<1>19. Placed'
  <2>1. CASE Dropped
    BY <2>1, <1>1 DEF Placed, Searching, Dropped
  <2>2. CASE Entered
    <3>1. Len(prog.phi[d]) \in Nat
      BY <2>2, <1>1, ProgIs, PartsAre
    <3> QED
      BY <3>1, <2>2, <1>2 DEF Placed, Searching
  <2> QED
    BY <2>1, <2>2, <1>7
<1> QED
  BY <1>3, <1>9, <1>14, <1>15, <1>16, <1>17, <1>18, <1>19 DEF SearchInv

-----------------------------------------------------------------------------
(* The search starts with the edge into the start block.                   *)
LEMMA SearchStarts == ASSUME Init PROVE SearchInv
<1>1. /\ prog \in Programs /\ use = [t \in Temps |-> Uses(prog, t)] /\ val = [t \in Temps |-> Top]
      /\ dead = [e \in Edges(prog) |-> TRUE] /\ work = [e \in Edges(prog) |-> Nil]
      /\ flowrk = Start /\ usewrk = <<>> /\ visit = [b \in Blocks(prog) |-> 0]
      /\ pc = "loop" /\ n = 0 /\ i = 1
  BY DEF Init
<1>2. /\ WellFormed(prog) /\ Blocks(prog) = 0..prog.n - 1 /\ prog.n \in Nat \ {0}
  BY <1>1, SccpAssumption DEF WellFormed, Blocks
<1>3. \A t \in Temps : Uses(prog, t) \in Seq(AllUses(prog)) /\ ToSet(Uses(prog, t)) = UsesOf(prog, t)
  BY <1>2, UsesAre
<1>4. Start \in Edges(prog) /\ Start # Nil
  BY DEF Edges, Start, Nil
<1>5. Typed
  <2>1. Top \in Vals
    BY DEF Vals
  <2>2. use \in [Temps -> Seq(AllUses(prog))] /\ \A t \in Temps : ToSet(use[t]) = UsesOf(prog, t)
    BY <1>1, <1>3
  <2>3. val \in [Temps -> Vals]
    BY <1>1, <2>1
  <2>4. n \in Blocks(prog)
    BY <1>1, <1>2
  <2> QED
    BY <1>1, <1>4, <2>2, <2>3, <2>4 DEF Typed
<1>6. \A b \in Blocks(prog) : ~Seen(b) /\ ~Came(b)
  BY <1>1 DEF Seen, Came, Busy
<1>7. Listed = {Start}
  BY <1>1, <1>4 DEF Listed
<1>8. AList
  <2> DEFINE l == <<Start>>
  <2>1. l \in Seq(Edges(prog)) /\ Len(l) = 1 /\ l[1] = Start /\ l # <<>>
    BY <1>4
  <2>2. 1..1 = {1}
    OBVIOUS
  <2> HIDE DEF l
  <2>3. IsList(l)
    BY <2>1, <2>2, <1>1, <1>4 DEF IsList
  <2> QED
    BY <2>3 DEF AList
<1>9. EdgesOK
  <2>1. Wanted(Start)
    BY DEF Wanted
  <2> QED
    BY <2>1, <1>1, <1>6, <1>7 DEF EdgesOK
<1>10. Placed
  BY <1>1 DEF Placed, Searching
<1>11. Dominated /\ Defined
  BY <1>1, <1>6 DEF Dominated, Defined
<1>12. NotBelow
  <2>1. \A b \in Blocks(prog) : \A j \in DOMAIN prog.phi[b] : val[prog.phi[b][j].to] = Top
    BY <1>1, <1>5, PhiAt
  <2>2. \A b \in Blocks(prog) : \A j \in DOMAIN prog.ins[b] : val[prog.ins[b][j].to] = Top
    BY <1>1, <1>5, InsAt
  <2> QED
    BY <2>1, <2>2 DEF NotBelow, Leq
<1>13. UpToDate
  BY <1>1, <1>6 DEF UpToDate
<1> QED
  BY <1>5, <1>8, <1>9, <1>10, <1>11, <1>12, <1>13 DEF SearchInv

(* Phase 2 and the end leave the search as it was.                         *)
LEMMA TrimKeeps ==
  ASSUME SearchInv, prog' = prog, val' = val, use' = use, usewrk' = usewrk, dead' = dead,
         work' = work, flowrk' = flowrk, visit' = visit, n' = n, i' \in Nat \ {0},
         ~Searching, pc' \in {"trim", "done"}
  PROVE  SearchInv'
<1>1. /\ Typed /\ Placed /\ EdgesOK /\ Dominated /\ Defined /\ UpToDate
      /\ pc \in {"trim", "done"}
  BY DEF SearchInv, Searching
<1>2. Typed'
  BY <1>1 DEF Typed
<1>3. \A b \in Blocks(prog) : (Seen(b)' <=> Seen(b)) /\ (Came(b)' <=> Came(b))
  BY <1>1 DEF Seen, Came, Busy
<1>4. AList' /\ Listed' = Listed /\ EdgesOK' /\ Dominated' /\ NotBelow'
  BY <1>1, <1>2, <1>3, QuietStep
<1>5. Placed'
  BY <1>1 DEF Placed, Searching
<1>6. Defined'
  BY <1>1, <1>3 DEF Defined
<1>7. UpToDate'
  <2>1. /\ \A b \in Blocks(prog) : \A j \in DOMAIN prog.phi[b] :
             PhiValue(prog.phi[b][j], b)' = PhiValue(prog.phi[b][j], b)
        /\ \A b \in Blocks(prog) : \A j \in DOMAIN prog.ins[b] :
             InsValue(prog.ins[b][j])' = InsValue(prog.ins[b][j])
        /\ \A b, k : EdgeAlive(b, k)' <=> EdgeAlive(b, k)
    BY <1>1, <1>2, ValuesStay
  <2>2. \A type \in {"UPhi", "UIns", "UJmp"} : \A b, j : Pending(type, b, j) => Pending(type, b, j)'
    BY <1>1 DEF Pending
  <2>3. ASSUME NEW b \in Blocks(prog), NEW j \in DOMAIN prog.phi[b], Came(b)'
        PROVE  val'[prog.phi[b][j].to] = PhiValue(prog.phi[b][j], b)' \/ Pending("UPhi", b, j)'
    BY <2>1, <2>2, <2>3, <1>1, <1>3 DEF UpToDate
  <2>4. ASSUME NEW b \in Blocks(prog), NEW j \in DOMAIN prog.ins[b], Seen(b)'
        PROVE  val'[prog.ins[b][j].to] = InsValue(prog.ins[b][j])' \/ Pending("UIns", b, j)'
    BY <2>1, <2>2, <2>4, <1>1, <1>3 DEF UpToDate
  <2>5. ASSUME NEW b \in Blocks(prog), NEW k \in {0, 1}, Seen(b)', EdgeAlive(b, k)'
        PROVE  ~dead'[<<b, k>>] \/ <<b, k>> \in Listed' \/ Pending("UJmp", b, 1)'
    BY <2>1, <2>2, <2>5, <1>1, <1>3, <1>4 DEF UpToDate
  <2> QED
    BY <2>3, <2>4, <2>5 DEF UpToDate
<1> QED
  BY <1>2, <1>4, <1>5, <1>6, <1>7 DEF SearchInv

-----------------------------------------------------------------------------
(* The function phase 2 makes.                                             *)
LEMMA RemoveIs ==
  ASSUME NEW A, NEW s \in Seq(A), NEW k \in 1..Len(s)
  PROVE  /\ RemoveAt(s, k) \in Seq(A) /\ Len(RemoveAt(s, k)) = Len(s) - 1
         /\ \A j \in 1..Len(s) - 1 : j < k => RemoveAt(s, k)[j] = s[j]
         /\ \A j \in 1..Len(s) - 1 : j >= k => RemoveAt(s, k)[j] = s[j + 1]
<1> DEFINE l == SubSeq(s, 1, k - 1)
<1> DEFINE r == SubSeq(s, k + 1, Len(s))
<1>0. Len(s) \in Nat /\ k \in Nat /\ 1 <= k /\ k <= Len(s)
  OBVIOUS
<1>1. l \in Seq(A) /\ Len(l) = k - 1 /\ \A j \in 1..k - 1 : l[j] = s[j]
  BY <1>0
<1>2. r \in Seq(A) /\ Len(r) = Len(s) - k /\ \A j \in 1..Len(s) - k : r[j] = s[k + j]
  BY <1>0
<1>3. RemoveAt(s, k) = l \o r
  BY DEF RemoveAt
<1> HIDE DEF l, r
<1>4. /\ l \o r \in Seq(A) /\ Len(l \o r) = Len(l) + Len(r)
      /\ \A j \in 1..Len(l) : (l \o r)[j] = l[j]
      /\ \A j \in 1..Len(r) : (l \o r)[Len(l) + j] = r[j]
  <2>1. l \in Seq(A) /\ r \in Seq(A)
    BY <1>1, <1>2
  <2> QED
    BY <2>1, JoinedIs
<1>5. ASSUME NEW j \in 1..Len(s) - 1, j < k PROVE (l \o r)[j] = s[j]
  <2>1. j \in 1..k - 1
    BY <1>0, <1>5
  <2> QED
    BY <2>1, <1>1, <1>4
<1>6. ASSUME NEW j \in 1..Len(s) - 1, j >= k PROVE (l \o r)[j] = s[j + 1]
  <2>1. PICK x \in 1..Len(s) - k : x = j - (k - 1)
    BY <1>0, <1>6
  <2>2. (k - 1) + x = j /\ k + x = j + 1
    BY <1>0, <2>1
  <2>3. (l \o r)[Len(l) + x] = r[x]
    BY <1>2, <1>4
  <2>4. (l \o r)[j] = r[x]
    BY <2>2, <2>3, <1>1
  <2>5. r[x] = s[k + x]
    BY <1>2
  <2> QED
    BY <2>2, <2>4, <2>5
<1> QED
  BY <1>0, <1>1, <1>2, <1>3, <1>4, <1>5, <1>6

(* Removing from a list without repetitions.                               *)
LEMMA RemovedSet ==
  ASSUME NEW A, NEW s \in Seq(A), NEW k \in 1..Len(s), IsInjective(s)
  PROVE  IsInjective(RemoveAt(s, k)) /\ ToSet(RemoveAt(s, k)) = ToSet(s) \ {s[k]}
<1> DEFINE r == RemoveAt(s, k)
<1>0. Len(s) \in Nat /\ k \in Nat /\ 1 <= k /\ k <= Len(s) /\ DOMAIN s = 1..Len(s)
  OBVIOUS
<1>1. /\ r \in Seq(A) /\ Len(r) = Len(s) - 1
      /\ \A j \in 1..Len(s) - 1 : j < k => r[j] = s[j]
      /\ \A j \in 1..Len(s) - 1 : j >= k => r[j] = s[j + 1]
  BY RemoveIs
<1> HIDE DEF r
<1>2. DOMAIN r = 1..Len(s) - 1
  BY <1>1
<1>3. \A x, y \in 1..Len(s) : s[x] = s[y] => x = y
  BY <1>0 DEF IsInjective
<1>4. ASSUME NEW x \in 1..Len(s) - 1
      PROVE  \E y \in 1..Len(s) : r[x] = s[y] /\ y = (IF x < k THEN x ELSE x + 1)
  <2>1. CASE x < k
    <3>1. x \in 1..Len(s)
      BY <1>0
    <3> QED
      BY <2>1, <3>1, <1>1
  <2>2. CASE ~(x < k)
    <3>1. x + 1 \in 1..Len(s) /\ x >= k
      BY <2>2, <1>0
    <3> QED
      BY <2>2, <3>1, <1>1
  <2> QED
    BY <2>1, <2>2
<1>5. IsInjective(r)
  <2>1. ASSUME NEW x \in 1..Len(s) - 1, NEW y \in 1..Len(s) - 1, r[x] = r[y] PROVE x = y
    <3>1. PICK u \in 1..Len(s) : r[x] = s[u] /\ u = (IF x < k THEN x ELSE x + 1)
      BY <1>4
    <3>2. PICK v \in 1..Len(s) : r[y] = s[v] /\ v = (IF y < k THEN y ELSE y + 1)
      BY <1>4
    <3>3. u = v
      BY <2>1, <3>1, <3>2, <1>3
    <3>4. x \in Nat /\ y \in Nat
      OBVIOUS
    <3> QED
      BY <3>1, <3>2, <3>3, <3>4, <1>0
  <2> QED
    BY <2>1, <1>2 DEF IsInjective
<1>6. ASSUME NEW x \in 1..Len(s) - 1 PROVE r[x] \in ToSet(s) \ {s[k]}
  <2>1. PICK u \in 1..Len(s) : r[x] = s[u] /\ u = (IF x < k THEN x ELSE x + 1)
    BY <1>4
  <2>2. u # k
    BY <2>1, <1>0
  <2>3. s[u] # s[k]
    BY <2>2, <1>3
  <2>4. s[u] \in ToSet(s)
    BY <1>0 DEF ToSet
  <2> QED
    BY <2>1, <2>3, <2>4
<1>7. ASSUME NEW u \in 1..Len(s), u # k PROVE \E x \in 1..Len(s) - 1 : r[x] = s[u]
  <2>1. CASE u < k
    <3>1. u \in 1..Len(s) - 1
      BY <2>1, <1>0
    <3> QED
      BY <2>1, <3>1, <1>1
  <2>2. CASE ~(u < k)
    <3>1. u - 1 \in 1..Len(s) - 1 /\ u - 1 >= k /\ (u - 1) + 1 = u
      BY <2>2, <1>0, <1>7
    <3> QED
      BY <3>1, <1>1
  <2> QED
    BY <2>1, <2>2
<1>8. ToSet(r) \subseteq ToSet(s) \ {s[k]}
  BY <1>2, <1>6 DEF ToSet
<1>9. ToSet(s) \ {s[k]} \subseteq ToSet(r)
  BY <1>0, <1>2, <1>7 DEF ToSet
<1> QED
  BY <1>5, <1>8, <1>9 DEF r

(* The index of the argument for b is one.                                 *)
LEMMA ArgOfIs ==
  ASSUME NEW A, NEW f, f.blk \in Seq(A), NEW b \in ToSet(f.blk)
  PROVE  ArgOf(f, b) \in 1..Len(f.blk) /\ f.blk[ArgOf(f, b)] = b
<1> DEFINE I == {x \in 1..Len(f.blk) : f.blk[x] = b}
<1>1. Len(f.blk) \in Nat /\ DOMAIN f.blk = 1..Len(f.blk)
  OBVIOUS
<1>2. I # {} /\ I \in SUBSET (0..Len(f.blk))
  <2>1. PICK x \in 1..Len(f.blk) : f.blk[x] = b
    BY <1>1 DEF ToSet
  <2>2. 1..Len(f.blk) \subseteq 0..Len(f.blk)
    BY <1>1
  <2> QED
    BY <2>1, <2>2
<1>3. ArgOf(f, b) = IF I # {} THEN Min(I) ELSE 0
  BY DEF ArgOf, SelectInSeq
<1>4. Min(I) \in I
  <2> HIDE DEF I
  <2>1. \E x \in I : \A y \in I : x <= y
    BY <1>1, <1>2, Least
  <2>2. Min(I) = CHOOSE x \in I : \A y \in I : x <= y
    BY DEF Min
  <2> QED
    BY <2>1, <2>2
<1> QED
  BY <1>2, <1>3, <1>4

(* Keep's list holds the elements at the places K and no other.            *)
LEMMA KeepIs ==
  ASSUME NEW A, NEW s \in Seq(A), NEW K
  PROVE  /\ Keep(s, K) \in Seq(A)
         /\ \A e \in ToSet(Keep(s, K)) : \E x \in 1..Len(s) : x \in K /\ s[x] = e
         /\ \A x \in 1..Len(s) : x \in K => s[x] \in ToSet(Keep(s, K))
<1> DEFINE one(x) == IF x \in K THEN <<s[x]>> ELSE <<>>
<1> DEFINE ss == [x \in DOMAIN s |-> one(x)]
<1>1. Len(s) \in Nat /\ DOMAIN s = 1..Len(s) /\ \A x \in 1..Len(s) : s[x] \in A
  OBVIOUS
<1>2. ASSUME NEW x \in 1..Len(s)
      PROVE  /\ one(x) \in Seq(A) /\ \A e \in ToSet(one(x)) : x \in K /\ s[x] = e
             /\ x \in K => s[x] \in ToSet(one(x))
  <2>1. CASE x \in K
    <3>1. one(x) = <<s[x]>>
      BY <2>1
    <3>2. <<s[x]>> \in Seq(A) /\ ToSet(<<s[x]>>) = {s[x]}
      BY <1>1 DEF ToSet
    <3> QED
      BY <2>1, <3>1, <3>2
  <2>2. CASE x \notin K
    <3>1. one(x) = <<>>
      BY <2>2
    <3>2. <<>> \in Seq(A) /\ ToSet(<<>>) = {}
      BY DEF ToSet
    <3> QED
      BY <3>1, <3>2
  <2> QED
    BY <2>1, <2>2
<1>3. Keep(s, K) = Concat(ss)
  BY DEF Keep
<1> HIDE DEF one
<1>4. \A x \in 1..Len(s) : ss[x] = one(x)
  BY <1>1
<1>5. ss = [x \in 1..Len(s) |-> ss[x]]
  BY <1>1
<1> HIDE DEF ss
<1>6. ss \in Seq(Seq(A)) /\ Len(ss) = Len(s)
  BY <1>1, <1>2, <1>4, <1>5, MakesList
<1>7. /\ Concat(ss) \in Seq(A)
      /\ \A e : e \in ToSet(Concat(ss)) <=> \E j \in 1..Len(ss) : e \in ToSet(ss[j])
  BY <1>6, ConcatIs
<1> QED
  BY <1>2, <1>3, <1>4, <1>6, <1>7

(* Being alike goes through a function in between.                         *)
LEMMA LikeTrans ==
  ASSUME NEW p, NEW q, NEW r, NEW b, Like(q, p, b), Like(r, q, b)
  PROVE  Like(r, p, b)
<1>1. /\ r.s1[b] = p.s1[b] /\ r.s2[b] = p.s2[b]
      /\ r.jmp[b] = p.jmp[b] /\ r.arg[b] = p.arg[b] /\ r.ins[b] = p.ins[b]
      /\ DOMAIN r.phi[b] = DOMAIN p.phi[b]
  BY DEF Like, PhisAlike
<1>2. ASSUME NEW j \in DOMAIN r.phi[b]
      PROVE  /\ r.phi[b][j].to = p.phi[b][j].to
             /\ \A a \in DOMAIN r.phi[b][j].blk : \E c \in DOMAIN p.phi[b][j].blk :
                  /\ r.phi[b][j].blk[a] = p.phi[b][j].blk[c]
                  /\ r.phi[b][j].arg[a] = p.phi[b][j].arg[c]
  <2>1. j \in DOMAIN q.phi[b] /\ r.phi[b][j].to = q.phi[b][j].to /\ q.phi[b][j].to = p.phi[b][j].to
    BY DEF Like, PhisAlike
  <2>2. ASSUME NEW a \in DOMAIN r.phi[b][j].blk
        PROVE  \E c \in DOMAIN p.phi[b][j].blk : /\ r.phi[b][j].blk[a] = p.phi[b][j].blk[c]
                                                 /\ r.phi[b][j].arg[a] = p.phi[b][j].arg[c]
    <3>1. PICK x \in DOMAIN q.phi[b][j].blk : /\ r.phi[b][j].blk[a] = q.phi[b][j].blk[x]
                                              /\ r.phi[b][j].arg[a] = q.phi[b][j].arg[x]
      BY <2>1 DEF Like, PhisAlike
    <3>2. PICK c \in DOMAIN p.phi[b][j].blk : /\ q.phi[b][j].blk[x] = p.phi[b][j].blk[c]
                                              /\ q.phi[b][j].arg[x] = p.phi[b][j].arg[c]
      BY <2>1 DEF Like, PhisAlike
    <3> QED
      BY <3>1, <3>2
  <2> QED
    BY <2>1, <2>2
<1> QED
  BY <1>1, <1>2 DEF Like, PhisAlike

(* A function is like itself.                                              *)
LEMMA LikeItself == ASSUME NEW p, NEW b PROVE Like(p, p, b)
  BY DEF Like, PhisAlike

(* A phi loses the argument of one predecessor, and keeps the others'.     *)
LEMMA LosesIs ==
  ASSUME NEW N \in Nat, NEW f \in PhisOf(N), Len(f.blk) = Len(f.arg), IsInjective(f.blk),
         NEW b \in ToSet(f.blk)
  PROVE  LET g == WithoutArg(f, b)
         IN /\ g \in PhisOf(N) /\ g.to = f.to
            /\ Len(g.blk) = Len(g.arg) /\ IsInjective(g.blk) /\ ToSet(g.blk) = ToSet(f.blk) \ {b}
            /\ \A a \in DOMAIN g.blk : \E c \in DOMAIN f.blk : /\ g.blk[a] = f.blk[c]
                                                               /\ g.arg[a] = f.arg[c]
<1> DEFINE x == ArgOf(f, b)
<1> DEFINE g == WithoutArg(f, b)
<1>1. f.to \in Temps /\ f.blk \in Seq(0..N - 1) /\ f.arg \in Seq(Operands)
  BY DEF PhisOf
<1>2. x \in 1..Len(f.blk) /\ f.blk[x] = b
  BY <1>1, ArgOfIs
<1>3. g = [f EXCEPT !.blk = RemoveAt(@, x), !.arg = RemoveAt(@, x)]
  BY DEF WithoutArg
<1> HIDE DEF x
<1>4. g.to = f.to /\ g.blk = RemoveAt(f.blk, x) /\ g.arg = RemoveAt(f.arg, x)
  BY <1>3 DEF PhisOf
<1>5. /\ RemoveAt(f.blk, x) \in Seq(0..N - 1) /\ Len(RemoveAt(f.blk, x)) = Len(f.blk) - 1
      /\ \A j \in 1..Len(f.blk) - 1 : j < x => RemoveAt(f.blk, x)[j] = f.blk[j]
      /\ \A j \in 1..Len(f.blk) - 1 : j >= x => RemoveAt(f.blk, x)[j] = f.blk[j + 1]
  BY <1>1, <1>2, RemoveIs
<1>6. /\ RemoveAt(f.arg, x) \in Seq(Operands) /\ Len(RemoveAt(f.arg, x)) = Len(f.arg) - 1
      /\ \A j \in 1..Len(f.arg) - 1 : j < x => RemoveAt(f.arg, x)[j] = f.arg[j]
      /\ \A j \in 1..Len(f.arg) - 1 : j >= x => RemoveAt(f.arg, x)[j] = f.arg[j + 1]
  <2>1. x \in 1..Len(f.arg)
    BY <1>2
  <2> QED
    BY <1>1, <2>1, RemoveIs
<1>7. IsInjective(g.blk) /\ ToSet(g.blk) = ToSet(f.blk) \ {b}
  BY <1>1, <1>2, <1>4, RemovedSet
<1>8. g \in PhisOf(N)
  BY <1>1, <1>3, <1>5, <1>6 DEF PhisOf
<1>9. ASSUME NEW a \in DOMAIN g.blk
      PROVE  \E c \in DOMAIN f.blk : g.blk[a] = f.blk[c] /\ g.arg[a] = f.arg[c]
  <2>1. Len(f.blk) \in Nat /\ DOMAIN f.blk = 1..Len(f.blk) /\ x \in Nat
    BY <1>1, <1>2
  <2>2. a \in 1..Len(f.blk) - 1
    <3>1. DOMAIN g.blk = 1..Len(g.blk) /\ Len(g.blk) = Len(f.blk) - 1
      BY <1>4, <1>5
    <3> QED
      BY <3>1
  <2>3. CASE a < x
    <3>1. g.blk[a] = f.blk[a] /\ g.arg[a] = f.arg[a]
      BY <1>4, <1>5, <1>6, <2>2, <2>3
    <3> QED
      BY <3>1, <2>1, <2>2
  <2>4. CASE a >= x
    <3>1. g.blk[a] = f.blk[a + 1] /\ g.arg[a] = f.arg[a + 1]
      BY <1>4, <1>5, <1>6, <2>2, <2>4
    <3>2. a + 1 \in DOMAIN f.blk
      BY <2>1, <2>2
    <3> QED
      BY <3>1, <3>2
  <2> QED
    BY <2>1, <2>2, <2>3, <2>4
<1>10. Len(g.blk) = Len(g.arg)
  BY <1>4, <1>5, <1>6
<1> QED
  BY <1>4, <1>7, <1>8, <1>9, <1>10

(* With the same edges and predecessor lists, and phis that hear the same  *)
(* blocks, a function stays consistent.                                    *)
LEMMA StaysConsistent ==
  ASSUME Typed, NEW p \in Functions(prog.n), NEW q \in Functions(prog.n), Consistent(p),
         \A c \in Blocks(prog) : Succs(q, c) = Succs(p, c) /\ q.pred[c] = p.pred[c],
         \A d \in Blocks(prog) : \A j \in DOMAIN q.phi[d] : \E k \in DOMAIN p.phi[d] :
           q.phi[d][j].blk = p.phi[d][k].blk /\ Len(q.phi[d][j].arg) = Len(p.phi[d][k].arg)
  PROVE  Consistent(q)
<1>1. Blocks(p) = Blocks(prog) /\ Blocks(q) = Blocks(prog)
  BY RecordIs DEF Blocks
<1>2. \A d \in Blocks(prog) : Preds(q, d) = Preds(p, d)
  BY <1>1 DEF Preds
<1>3. ASSUME NEW d \in Blocks(prog), NEW j \in DOMAIN q.phi[d]
      PROVE  /\ Len(q.phi[d][j].blk) = Len(q.phi[d][j].arg) /\ IsInjective(q.phi[d][j].blk)
             /\ ToSet(q.phi[d][j].blk) = Preds(q, d)
  <2>1. PICK k \in DOMAIN p.phi[d] :
          q.phi[d][j].blk = p.phi[d][k].blk /\ Len(q.phi[d][j].arg) = Len(p.phi[d][k].arg)
    OBVIOUS
  <2>2. /\ Len(p.phi[d][k].blk) = Len(p.phi[d][k].arg) /\ IsInjective(p.phi[d][k].blk)
        /\ ToSet(p.phi[d][k].blk) = Preds(p, d)
    BY <2>1 DEF Consistent
  <2> QED
    BY <2>1, <2>2, <1>2
<1> QED
  BY <1>2, <1>3 DEF Consistent

(* edgedel removes one edge, and what the function says of the others and  *)
(* of the blocks but b stays.                                              *)
EdgeGone(q, p, b, k) ==
  /\ q \in Functions(prog.n) /\ Consistent(q) /\ q.link = p.link
  /\ \A c \in Blocks(prog) : c # b => Like(q, p, c)
  /\ PhisAlike(q, p, b)
  /\ k = 0 => q.s1[b] = Gone /\ q.s2[b] = p.s2[b]
  /\ k = 1 => q.s1[b] = p.s1[b] /\ q.s2[b] = Gone
  /\ q.jmp[b] = p.jmp[b] /\ q.arg[b] = p.arg[b] /\ q.ins[b] = p.ins[b]

(* A function with one part replaced.                                      *)
Fields == {"n", "link", "s1", "s2", "jmp", "arg", "phi", "ins", "pred"}
LinksOf(N) == Seq(0..N - 1)
TargetsOf(N) == [0..N - 1 -> 0..N - 1 \cup {Gone}]
JmpsOf(N) == [0..N - 1 -> {"ret", "jmp", "jnz"}]
ArgsOf(N) == [0..N - 1 -> Operands]
PhiTables(N) == [0..N - 1 -> Seq(PhisOf(N))]
InsTables(N) == [0..N - 1 -> Seq(InsOf)]
PredsOf(N) == [0..N - 1 -> SUBSET (0..N - 1)]

(* The set of functions, its parts named.                                  *)
LEMMA FunctionsAre ==
  ASSUME NEW N
  PROVE  Functions(N) = [n : {N}, link : LinksOf(N), s1 : TargetsOf(N), s2 : TargetsOf(N),
                         jmp : JmpsOf(N), arg : ArgsOf(N), phi : PhiTables(N), ins : InsTables(N),
                         pred : PredsOf(N)]
  BY DEF Functions, LinksOf, TargetsOf, JmpsOf, ArgsOf, PhiTables, InsTables, PredsOf, PhisOf, InsOf

(* A function with one part replaced is a function.                        *)
LEMMA PutIs ==
  ASSUME NEW N, NEW p \in Functions(N)
  PROVE  /\ DOMAIN p = Fields
         /\ \A x \in LinksOf(N) : [p EXCEPT !.link = x] \in Functions(N)
         /\ \A x \in TargetsOf(N) : [p EXCEPT !.s1 = x] \in Functions(N)
         /\ \A x \in TargetsOf(N) : [p EXCEPT !.s2 = x] \in Functions(N)
         /\ \A x \in JmpsOf(N) : [p EXCEPT !.jmp = x] \in Functions(N)
         /\ \A x \in ArgsOf(N) : [p EXCEPT !.arg = x] \in Functions(N)
         /\ \A x \in PhiTables(N) : [p EXCEPT !.phi = x] \in Functions(N)
         /\ \A x \in InsTables(N) : [p EXCEPT !.ins = x] \in Functions(N)
         /\ \A x \in PredsOf(N) : [p EXCEPT !.pred = x] \in Functions(N)
<1>1. DOMAIN p = Fields
  BY FunctionsAre DEF Fields
<1> QED
  BY <1>1, FunctionsAre

(* What cutting an edge leaves alone.                                      *)
LEMMA CutIs ==
  ASSUME Typed, NEW p \in Functions(prog.n), NEW b \in Blocks(prog), NEW k \in {0, 1}
  PROVE  LET q == CutEdge(p, b, k)
         IN /\ q \in Functions(prog.n) /\ q.link = p.link /\ q.n = p.n
            /\ q.phi = p.phi /\ q.ins = p.ins /\ q.pred = p.pred /\ q.jmp = p.jmp /\ q.arg = p.arg
            /\ k = 0 => q.s1 = [p.s1 EXCEPT ![b] = Gone] /\ q.s2 = p.s2
            /\ k = 1 => q.s1 = p.s1 /\ q.s2 = [p.s2 EXCEPT ![b] = Gone]
<1>1. b \in 0..prog.n - 1 /\ DOMAIN p = Fields
  BY ProgIs, PutIs
<1>2. p.s1 \in TargetsOf(prog.n) /\ p.s2 \in TargetsOf(prog.n)
  BY RecordIs DEF TargetsOf
<1>3. CASE k = 0
  <2> DEFINE x == [p.s1 EXCEPT ![b] = Gone]
  <2>1. CutEdge(p, b, k) = [p EXCEPT !.s1 = x]
    BY <1>3 DEF CutEdge
  <2>2. x \in TargetsOf(prog.n)
    BY <1>1, <1>2 DEF TargetsOf
  <2> HIDE DEF x
  <2>3. [p EXCEPT !.s1 = x] \in Functions(prog.n)
    BY <2>2, PutIs
  <2> QED
    BY <1>1, <1>3, <2>1, <2>3 DEF Fields, x
<1>4. CASE k = 1
  <2> DEFINE x == [p.s2 EXCEPT ![b] = Gone]
  <2>1. CutEdge(p, b, k) = [p EXCEPT !.s2 = x]
    BY <1>4 DEF CutEdge
  <2>2. x \in TargetsOf(prog.n)
    BY <1>1, <1>2 DEF TargetsOf
  <2> HIDE DEF x
  <2>3. [p EXCEPT !.s2 = x] \in Functions(prog.n)
    BY <2>2, PutIs
  <2> QED
    BY <1>1, <1>4, <2>1, <2>3 DEF Fields, x
<1> QED
  BY <1>3, <1>4

(* A block is a predecessor of its successors.                             *)
LEMMA SuccessorsAre ==
  ASSUME Typed, NEW p \in Functions(prog.n), NEW b \in Blocks(prog)
  PROVE  /\ Blocks(p) = Blocks(prog) /\ Gone \notin Blocks(prog)
         /\ p.s1[b] \in Blocks(prog) \cup {Gone} /\ p.s2[b] \in Blocks(prog) \cup {Gone}
         /\ p.s1[b] # Gone => b \in Preds(p, p.s1[b])
         /\ p.s2[b] # Gone => b \in Preds(p, p.s2[b])
<1>1. Blocks(p) = Blocks(prog) /\ Blocks(prog) = 0..prog.n - 1 /\ Gone \notin Blocks(prog)
  BY RecordIs, ProgIs, JmpAt DEF Blocks
<1>2. /\ p.s1 \in [0..prog.n - 1 -> 0..prog.n - 1 \cup {Gone}]
      /\ p.s2 \in [0..prog.n - 1 -> 0..prog.n - 1 \cup {Gone}]
  BY RecordIs
<1>3. p.s1[b] \in Blocks(prog) \cup {Gone} /\ p.s2[b] \in Blocks(prog) \cup {Gone}
  BY <1>1, <1>2
<1> QED
  BY <1>1, <1>3 DEF Preds, Succs

(* edgedel's assertions hold, and it removes that edge and nothing else.   *)
LEMMA EdgeDelIs ==
  ASSUME Typed, NEW p \in Functions(prog.n), Consistent(p), NEW b \in Blocks(prog), NEW k \in {0, 1}
  PROVE  EdgeDelOK(p, b, k) /\ EdgeGone(EdgeDel(p, b, k), p, b, k)
<1> DEFINE d == Succ(p, b, k)
<1> DEFINE cut == CutEdge(p, b, k)
<1> DEFINE q == EdgeDel(p, b, k)
<1> DEFINE N == prog.n
<1>1. /\ N \in Nat /\ Blocks(prog) = 0..N - 1 /\ Blocks(p) = Blocks(prog)
      /\ Gone \notin Blocks(prog) /\ d \in Blocks(prog) \cup {Gone}
      /\ p.s1 \in [Blocks(prog) -> Blocks(prog) \cup {Gone}]
      /\ p.s2 \in [Blocks(prog) -> Blocks(prog) \cup {Gone}]
  <2>1. N \in Nat /\ Blocks(prog) = 0..N - 1
    BY ProgIs
  <2>2. /\ p.s1 \in [0..N - 1 -> 0..N - 1 \cup {Gone}]
        /\ p.s2 \in [0..N - 1 -> 0..N - 1 \cup {Gone}]
    BY RecordIs
  <2>3. d \in Blocks(prog) \cup {Gone}
    BY SuccessorsAre DEF Succ
  <2> QED
    BY <2>1, <2>2, <2>3, SuccessorsAre
<1>2. /\ cut \in Functions(N) /\ cut.link = p.link /\ cut.n = p.n
      /\ cut.phi = p.phi /\ cut.ins = p.ins /\ cut.pred = p.pred /\ cut.jmp = p.jmp /\ cut.arg = p.arg
      /\ k = 0 => cut.s1 = [p.s1 EXCEPT ![b] = Gone] /\ cut.s2 = p.s2
      /\ k = 1 => cut.s1 = p.s1 /\ cut.s2 = [p.s2 EXCEPT ![b] = Gone]
  BY CutIs
<1>3. \A c \in Blocks(prog) : c # b => cut.s1[c] = p.s1[c] /\ cut.s2[c] = p.s2[c]
  BY <1>1, <1>2
<1>4. /\ k = 0 => cut.s1[b] = Gone /\ cut.s2[b] = p.s2[b]
      /\ k = 1 => cut.s1[b] = p.s1[b] /\ cut.s2[b] = Gone
  BY <1>1, <1>2
<1>5. d = (IF k = 0 THEN p.s1[b] ELSE p.s2[b])
  BY DEF Succ
<1>6. d # Gone => b \in Preds(p, d)
  BY <1>1, <1>5, SuccessorsAre
<1>7. \A e \in Blocks(prog) : \A j \in DOMAIN p.phi[e] :
        /\ p.phi[e][j] \in PhisOf(N) /\ Len(p.phi[e][j].blk) = Len(p.phi[e][j].arg)
        /\ IsInjective(p.phi[e][j].blk) /\ ToSet(p.phi[e][j].blk) = Preds(p, e)
        /\ p.phi[e][j].blk \in Seq(Blocks(prog))
  BY <1>1, PartsAre DEF Consistent
<1>8. EdgeDelOK(p, b, k)
  <2>1. ASSUME d # Gone, NEW j \in DOMAIN p.phi[d] PROVE ArgOf(p.phi[d][j], b) # 0
    <3>1. p.phi[d][j].blk \in Seq(Blocks(prog)) /\ b \in ToSet(p.phi[d][j].blk)
      BY <2>1, <1>1, <1>6, <1>7
    <3>2. ArgOf(p.phi[d][j], b) \in 1..Len(p.phi[d][j].blk)
      BY <3>1, ArgOfIs
    <3> QED
      BY <3>2
  <2>2. d # Gone => b \in p.pred[d]
    BY <1>1, <1>6 DEF Consistent
  <2> QED
    BY <2>1, <2>2 DEF EdgeDelOK
<1>9. ASSUME d = Gone \/ p.s1[b] = p.s2[b] PROVE EdgeGone(q, p, b, k)
  <2>1. q = cut
    BY <1>9 DEF EdgeDel
  <2>2. Succs(cut, b) = Succs(p, b)
    <3>1. {cut.s1[b], cut.s2[b]} \ {Gone} = {p.s1[b], p.s2[b]} \ {Gone}
      BY <1>4, <1>5, <1>9
    <3> QED
      BY <3>1 DEF Succs
  <2>3. \A c \in Blocks(prog) : Succs(cut, c) = Succs(p, c) /\ cut.pred[c] = p.pred[c]
    BY <2>2, <1>2, <1>3 DEF Succs
  <2>4. \A e \in Blocks(prog) : \A j \in DOMAIN cut.phi[e] : \E i2 \in DOMAIN p.phi[e] :
          cut.phi[e][j].blk = p.phi[e][i2].blk /\ Len(cut.phi[e][j].arg) = Len(p.phi[e][i2].arg)
    BY <1>2
  <2>5. Consistent(cut)
    BY <1>2, <2>3, <2>4, StaysConsistent
  <2>6. PhisAlike(cut, p, b) /\ \A c \in Blocks(prog) : c # b => Like(cut, p, c)
    BY <1>2, <1>3 DEF Like, PhisAlike
  <2> HIDE DEF cut, q
  <2> QED
    BY <2>1, <2>5, <2>6, <1>2, <1>4 DEF EdgeGone
<1>10. ASSUME d # Gone, p.s1[b] # p.s2[b] PROVE EdgeGone(q, p, b, k)
  <2> DEFINE f(j) == WithoutArg(p.phi[d][j], b)
  <2>1. d \in Blocks(prog) /\ b \in Preds(p, d)
    BY <1>10, <1>1, <1>6
  <2> DEFINE phis == [j \in DOMAIN cut.phi[d] |-> WithoutArg(cut.phi[d][j], b)]
  <2> DEFINE lose == [j \in DOMAIN p.phi[d] |-> f(j)]
  <2> DEFINE xphi == [cut.phi EXCEPT ![d] = phis]
  <2> DEFINE xpred == [cut.pred EXCEPT ![d] = cut.pred[d] \ {b}]
  <2>2. q = [cut EXCEPT !.phi = xphi, !.pred = xpred]
    BY <1>10 DEF EdgeDel
  <2>3. phis = lose
    BY <1>2
  <2>4. ASSUME NEW j \in DOMAIN p.phi[d]
        PROVE
          /\ f(j) \in PhisOf(N) /\ f(j).to = p.phi[d][j].to
          /\ Len(f(j).blk) = Len(f(j).arg) /\ IsInjective(f(j).blk)
          /\ ToSet(f(j).blk) = Preds(p, d) \ {b}
          /\ \A a \in DOMAIN f(j).blk : \E c \in DOMAIN p.phi[d][j].blk :
               f(j).blk[a] = p.phi[d][j].blk[c] /\ f(j).arg[a] = p.phi[d][j].arg[c]
    <3> DEFINE g == p.phi[d][j]
    <3>1. /\ N \in Nat /\ g \in PhisOf(N) /\ Len(g.blk) = Len(g.arg) /\ IsInjective(g.blk)
          /\ b \in ToSet(g.blk) /\ ToSet(g.blk) = Preds(p, d)
      BY <1>1, <1>7, <2>1
    <3> HIDE DEF g, N
    <3>2. LET h == WithoutArg(g, b)
          IN /\ h \in PhisOf(N) /\ h.to = g.to
             /\ Len(h.blk) = Len(h.arg) /\ IsInjective(h.blk) /\ ToSet(h.blk) = ToSet(g.blk) \ {b}
             /\ \A a \in DOMAIN h.blk : \E c \in DOMAIN g.blk : /\ h.blk[a] = g.blk[c]
                                                                /\ h.arg[a] = g.arg[c]
      BY <3>1, LosesIs
    <3> QED
      BY <3>1, <3>2 DEF g
  <2> HIDE DEF q, cut, phis, f
  <2>5. Len(p.phi[d]) \in Nat /\ DOMAIN p.phi[d] = 1..Len(p.phi[d])
    BY <1>1, <2>1, PartsAre
  <2>6. \A j \in DOMAIN p.phi[d] : lose[j] = f(j)
    OBVIOUS
  <2>7. lose \in Seq(PhisOf(N)) /\ DOMAIN lose = DOMAIN p.phi[d]
    <3>1. lose = [j \in 1..Len(p.phi[d]) |-> lose[j]] /\ \A j \in 1..Len(p.phi[d]) : lose[j] \in PhisOf(N)
      BY <2>4, <2>5, <2>6
    <3> HIDE DEF lose
    <3>2. lose \in Seq(PhisOf(N))
      BY <3>1, <2>5, MakesList
    <3> QED
      BY <3>1, <3>2, <2>5
  <2> HIDE DEF lose
  <2>8. /\ p.phi \in [0..N - 1 -> Seq(PhisOf(N))] /\ p.pred \in [0..N - 1 -> SUBSET (0..N - 1)]
    BY RecordIs
  <2>9. xphi \in PhiTables(N) /\ xphi[d] = lose /\ \A e \in Blocks(prog) : e # d => xphi[e] = p.phi[e]
    BY <1>1, <1>2, <2>1, <2>3, <2>7, <2>8 DEF PhiTables
  <2>10. xpred \in PredsOf(N) /\ xpred[d] = p.pred[d] \ {b} /\ \A e \in Blocks(prog) : e # d => xpred[e] = p.pred[e]
    BY <1>1, <1>2, <2>1, <2>8 DEF PredsOf
  <2> HIDE DEF xphi, xpred
  <2>11. q \in Functions(N)
    <3>1. [cut EXCEPT !.phi = xphi] \in Functions(N)
      BY <1>2, <2>9, PutIs
    <3>2. [[cut EXCEPT !.phi = xphi] EXCEPT !.pred = xpred] \in Functions(N)
      BY <3>1, <2>10, PutIs
    <3> QED
      BY <3>2, <2>2
  <2>12. /\ q.link = p.link /\ q.ins = p.ins /\ q.jmp = p.jmp /\ q.arg = p.arg
         /\ q.s1 = cut.s1 /\ q.s2 = cut.s2 /\ q.phi = xphi /\ q.pred = xpred
    <3>1. DOMAIN cut = Fields
      BY <1>2, PutIs
    <3> QED
      BY <3>1, <1>2, <2>2 DEF Fields
  <2>13. \A c \in Blocks(prog) : c # b => Succs(q, c) = Succs(p, c)
    BY <2>12, <1>3 DEF Succs
  <2>14. Succs(q, b) = Succs(p, b) \ {d}
    <3>1. {cut.s1[b], cut.s2[b]} \ {Gone} = ({p.s1[b], p.s2[b]} \ {Gone}) \ {d}
      BY <1>4, <1>5, <1>10
    <3> QED
      BY <3>1, <2>12 DEF Succs
  <2>15. Blocks(q) = Blocks(prog)
    BY <2>11, SuccessorsAre
  <2>16. Preds(q, d) = Preds(p, d) \ {b} /\ \A e \in Blocks(prog) : e # d => Preds(q, e) = Preds(p, e)
    BY <1>1, <2>13, <2>14, <2>15 DEF Preds
  <2>17. ASSUME NEW e \in Blocks(prog)
         PROVE  /\ q.pred[e] = Preds(q, e)
                /\ \A j \in DOMAIN q.phi[e] :
                     LET g == q.phi[e][j]
                     IN Len(g.blk) = Len(g.arg) /\ IsInjective(g.blk) /\ ToSet(g.blk) = Preds(q, e)
    <3>1. p.pred[e] = Preds(p, e)
      BY DEF Consistent
    <3>2. CASE e # d
      BY <3>1, <3>2, <1>7, <2>9, <2>10, <2>12, <2>16
    <3>3. CASE e = d
      BY <3>1, <3>3, <2>4, <2>6, <2>7, <2>9, <2>10, <2>12, <2>16
    <3> QED
      BY <3>2, <3>3
  <2>18. Consistent(q)
    BY <2>17 DEF Consistent
  <2>19. ASSUME NEW e \in Blocks(prog) PROVE PhisAlike(q, p, e)
    <3>1. CASE e # d
      BY <3>1, <2>9, <2>12 DEF PhisAlike
    <3>2. CASE e = d
      <4>1. DOMAIN q.phi[e] = DOMAIN p.phi[e]
        BY <3>2, <2>7, <2>9, <2>12
      <4>2. ASSUME NEW j \in DOMAIN q.phi[e]
            PROVE  /\ q.phi[e][j].to = p.phi[e][j].to
                   /\ \A a \in DOMAIN q.phi[e][j].blk : \E c \in DOMAIN p.phi[e][j].blk :
                        /\ q.phi[e][j].blk[a] = p.phi[e][j].blk[c]
                        /\ q.phi[e][j].arg[a] = p.phi[e][j].arg[c]
        <5>1. q.phi[e][j] = f(j) /\ j \in DOMAIN p.phi[d]
          BY <3>2, <4>1, <2>6, <2>9, <2>12
        <5> QED
          BY <5>1, <3>2, <2>4
      <4> QED
        BY <4>1, <4>2 DEF PhisAlike
    <3> QED
      BY <3>1, <3>2
  <2>20. ASSUME NEW e \in Blocks(prog), e # b PROVE Like(q, p, e)
    <3>1. /\ q.s1[e] = p.s1[e] /\ q.s2[e] = p.s2[e] /\ q.jmp[e] = p.jmp[e]
          /\ q.arg[e] = p.arg[e] /\ q.ins[e] = p.ins[e]
      BY <2>20, <2>12, <1>3
    <3> QED
      BY <3>1, <2>19 DEF Like
  <2> QED
    BY <2>11, <2>12, <2>18, <2>19, <2>20, <1>4 DEF EdgeGone
<1> QED
  BY <1>8, <1>9, <1>10

(* Replacing an operand by its value gives an operand, and a phi or an     *)
(* instruction remains one.                                                *)
LEMMA RenRefIs ==
  ASSUME Typed, NEW e \in Operands, RenRefOK(e)
  PROVE  RenRef(e) \in Operands
<1>1. LatVal(e) \in Vals /\ LatVal(e) # Top
  BY LatIs DEF RenRefOK
<1>2. LatVal(e) # Bot => LatVal(e) \in Nat
  BY <1>1 DEF Vals
<1> QED
  BY <1>2 DEF RenRef, Operands

(* A phi whose arguments are replaced hears the same blocks.               *)
LEMMA TrimPhiIs ==
  ASSUME Typed, NEW N \in Nat, NEW f \in PhisOf(N), Len(f.blk) = Len(f.arg), NEW b,
         \A a \in DOMAIN f.blk : ~DeadEdge(f.blk[a], b) => RenRefOK(f.arg[a])
  PROVE  /\ TrimPhi(f, b) \in PhisOf(N) /\ TrimPhi(f, b).to = f.to /\ TrimPhi(f, b).blk = f.blk
         /\ Len(TrimPhi(f, b).arg) = Len(f.arg)
<1> DEFINE y(a) == IF DeadEdge(f.blk[a], b) THEN f.arg[a] ELSE RenRef(f.arg[a])
<1> DEFINE x == [a \in DOMAIN f.arg |-> y(a)]
<1>1. /\ f.arg \in Seq(Operands) /\ f.blk \in Seq(0..N - 1) /\ f.to \in Temps
      /\ f = [to |-> f.to, blk |-> f.blk, arg |-> f.arg]
  BY DEF PhisOf
<1>2. /\ Len(f.arg) \in Nat /\ DOMAIN f.arg = 1..Len(f.arg) /\ DOMAIN f.blk = 1..Len(f.arg)
      /\ \A a \in 1..Len(f.arg) : f.arg[a] \in Operands
  BY <1>1
<1>3. \A a \in 1..Len(f.arg) : y(a) \in Operands
  BY <1>2, RenRefIs
<1>4. TrimPhi(f, b) = [f EXCEPT !.arg = x]
  BY DEF TrimPhi
<1> HIDE DEF y
<1>5. x = [a \in 1..Len(f.arg) |-> x[a]] /\ \A a \in 1..Len(f.arg) : x[a] \in Operands
  BY <1>2, <1>3
<1> HIDE DEF x
<1>6. x \in Seq(Operands) /\ Len(x) = Len(f.arg)
  BY <1>2, <1>5, MakesList
<1>7. TrimPhi(f, b) = [to |-> f.to, blk |-> f.blk, arg |-> x]
  BY <1>1, <1>4
<1> QED
  BY <1>1, <1>6, <1>7 DEF PhisOf

(* An instruction whose operands are replaced, or that became a nop, is    *)
(* one.                                                                    *)
LEMMA TrimInsIs ==
  ASSUME Typed, NEW s \in InsOf,
         val[s.to] = Bot => \A x \in DOMAIN s.arg : RenRefOK(s.arg[x])
  PROVE  TrimIns(s) \in InsOf
<1> DEFINE y(a) == RenRef(s.arg[a])
<1> DEFINE x == [a \in DOMAIN s.arg |-> y(a)]
<1>1. /\ s.arg \in Seq(Operands) /\ s.to \in Temps /\ s.op \in {"xor", "div", "load", "nop"}
      /\ s = [to |-> s.to, op |-> s.op, arg |-> s.arg]
  BY DEF InsOf
<1>2. CASE val[s.to] # Bot
  <2>1. TrimIns(s) = [s EXCEPT !.op = "nop", !.arg = <<>>]
    BY <1>2 DEF TrimIns
  <2>2. TrimIns(s) = [to |-> s.to, op |-> "nop", arg |-> <<>>]
    BY <1>1, <2>1
  <2> QED
    BY <1>1, <2>2 DEF InsOf
<1>3. CASE val[s.to] = Bot
  <2>1. /\ Len(s.arg) \in Nat /\ DOMAIN s.arg = 1..Len(s.arg)
        /\ \A a \in 1..Len(s.arg) : s.arg[a] \in Operands
    BY <1>1
  <2>2. \A a \in 1..Len(s.arg) : y(a) \in Operands
    BY <1>3, <2>1, RenRefIs
  <2>3. TrimIns(s) = [s EXCEPT !.arg = x]
    BY <1>3 DEF TrimIns
  <2> HIDE DEF y
  <2>4. x = [a \in 1..Len(s.arg) |-> x[a]] /\ \A a \in 1..Len(s.arg) : x[a] \in Operands
    BY <2>1, <2>2
  <2> HIDE DEF x
  <2>5. x \in Seq(Operands)
    BY <2>1, <2>4, MakesList
  <2>6. TrimIns(s) = [to |-> s.to, op |-> s.op, arg |-> x]
    BY <1>1, <2>3
  <2> QED
    BY <1>1, <2>5, <2>6 DEF InsOf
<1> QED
  BY <1>2, <1>3

(* What is done to b alone leaves the other blocks as they are.            *)
Changed(q, p, b) ==
  /\ q \in Functions(prog.n) /\ Consistent(q)
  /\ \A c \in Blocks(prog) : c # b => Like(q, p, c)

(* Replacing the constants of a block leaves a consistent function.        *)
LEMMA RenamedIs ==
  ASSUME Typed, out \in Functions(prog.n), Consistent(out), NEW b \in Blocks(prog), TrimAsserts(b)
  PROVE  Changed(Renamed(b), out, b)
<1> DEFINE N == prog.n
<1> DEFINE q == Renamed(b)
<1> DEFINE K == {j \in DOMAIN out.phi[b] : val[out.phi[b][j].to] = Bot}
<1> DEFINE kept == Keep(out.phi[b], K)
<1> DEFINE f(j) == TrimPhi(kept[j], b)
<1> DEFINE phis == [j \in DOMAIN kept |-> f(j)]
<1> DEFINE g(j) == TrimIns(out.ins[b][j])
<1> DEFINE inss == [j \in DOMAIN out.ins[b] |-> g(j)]
<1> DEFINE xphi == [out.phi EXCEPT ![b] = phis]
<1> DEFINE xins == [out.ins EXCEPT ![b] = inss]
<1> DEFINE xarg == [out.arg EXCEPT ![b] = RenRef(out.arg[b])]
<1>1. /\ N \in Nat /\ Blocks(prog) = 0..N - 1 /\ b \in 0..N - 1
      /\ out.phi \in [0..N - 1 -> Seq(PhisOf(N))] /\ out.ins \in [0..N - 1 -> Seq(InsOf)]
      /\ out.arg \in [0..N - 1 -> Operands]
  <2>1. N \in Nat /\ Blocks(prog) = 0..N - 1
    BY ProgIs
  <2>2. /\ out.phi \in [0..N - 1 -> Seq(PhisOf(N))] /\ out.ins \in [0..N - 1 -> Seq(InsOf)]
        /\ out.arg \in [0..N - 1 -> Operands]
    BY RecordIs
  <2> QED
    BY <2>1, <2>2
<1>2. q = [out EXCEPT !.phi = xphi, !.ins = xins, !.arg = xarg]
  BY DEF Renamed
<1>3. /\ out.phi[b] \in Seq(PhisOf(N)) /\ DOMAIN out.phi[b] = 1..Len(out.phi[b])
      /\ out.ins[b] \in Seq(InsOf) /\ Len(out.ins[b]) \in Nat /\ DOMAIN out.ins[b] = 1..Len(out.ins[b])
      /\ \A j \in 1..Len(out.ins[b]) : out.ins[b][j] \in InsOf
      /\ out.arg[b] \in Operands
  BY <1>1
<1>4. /\ kept \in Seq(PhisOf(N)) /\ Len(kept) \in Nat /\ DOMAIN kept = 1..Len(kept)
      /\ \A j \in 1..Len(kept) : kept[j] \in PhisOf(N) /\ \E x \in DOMAIN out.phi[b] : x \in K /\ out.phi[b][x] = kept[j]
  <2> HIDE DEF K
  <2>1. /\ kept \in Seq(PhisOf(N))
        /\ \A e \in ToSet(kept) : \E x \in 1..Len(out.phi[b]) : x \in K /\ out.phi[b][x] = e
    BY <1>3, KeepIs
  <2> HIDE DEF kept
  <2>2. \A j \in 1..Len(kept) : kept[j] \in PhisOf(N) /\ kept[j] \in ToSet(kept)
    BY <2>1, ListIs
  <2>3. Len(kept) \in Nat /\ DOMAIN kept = 1..Len(kept)
    BY <2>1
  <2> QED
    BY <1>3, <2>1, <2>2, <2>3
<1>5. ASSUME NEW j \in 1..Len(kept)
      PROVE  /\ f(j) \in PhisOf(N) /\ \E x \in DOMAIN out.phi[b] : /\ f(j).blk = out.phi[b][x].blk
                                                                   /\ Len(f(j).arg) = Len(out.phi[b][x].arg)
  <2>1. PICK x \in DOMAIN out.phi[b] : x \in K /\ out.phi[b][x] = kept[j]
    BY <1>4
  <2> DEFINE e == kept[j]
  <2>2. e \in PhisOf(N) /\ Len(e.blk) = Len(e.arg)
    BY <1>1, <1>4, <2>1 DEF Consistent
  <2>3. \A a \in DOMAIN e.blk : ~DeadEdge(e.blk[a], b) => RenRefOK(e.arg[a])
    BY <2>1 DEF TrimAsserts
  <2> HIDE DEF e, N
  <2>4. /\ TrimPhi(e, b) \in PhisOf(N) /\ TrimPhi(e, b).blk = e.blk
        /\ Len(TrimPhi(e, b).arg) = Len(e.arg)
    BY <1>1, <2>2, <2>3, TrimPhiIs
  <2> QED
    BY <2>1, <2>4 DEF e
<1>6. \A j \in 1..Len(out.ins[b]) : g(j) \in InsOf
  BY <1>3, TrimInsIs DEF TrimAsserts
<1>7. RenRef(out.arg[b]) \in Operands
  BY <1>3, RenRefIs DEF TrimAsserts
<1> HIDE DEF q, kept, f, g, N
<1>8. phis \in Seq(PhisOf(N)) /\ DOMAIN phis = 1..Len(kept) /\ \A j \in 1..Len(kept) : phis[j] = f(j)
  <2>1. phis = [j \in 1..Len(kept) |-> phis[j]] /\ \A j \in 1..Len(kept) : phis[j] = f(j)
    BY <1>4
  <2> HIDE DEF phis
  <2>2. phis \in Seq(PhisOf(N)) /\ Len(phis) = Len(kept)
    BY <2>1, <1>4, <1>5, MakesList
  <2> QED
    BY <2>1, <2>2
<1>9. inss \in Seq(InsOf)
  <2>1. inss = [j \in 1..Len(out.ins[b]) |-> inss[j]] /\ \A j \in 1..Len(out.ins[b]) : inss[j] \in InsOf
    BY <1>3, <1>6
  <2> HIDE DEF inss
  <2> QED
    BY <2>1, <1>3, MakesList
<1> HIDE DEF phis, inss
<1>10. xphi \in PhiTables(N) /\ xphi[b] = phis /\ \A c \in Blocks(prog) : c # b => xphi[c] = out.phi[c]
  BY <1>1, <1>8 DEF PhiTables
<1>11. xins \in InsTables(N) /\ \A c \in Blocks(prog) : c # b => xins[c] = out.ins[c]
  BY <1>1, <1>9 DEF InsTables
<1>12. xarg \in ArgsOf(N) /\ \A c \in Blocks(prog) : c # b => xarg[c] = out.arg[c]
  BY <1>1, <1>7 DEF ArgsOf
<1> HIDE DEF xphi, xins, xarg
<1>13. q \in Functions(N)
  <2>1. [out EXCEPT !.phi = xphi] \in Functions(N)
    BY <1>10, PutIs DEF N
  <2>2. [[out EXCEPT !.phi = xphi] EXCEPT !.ins = xins] \in Functions(N)
    BY <2>1, <1>11, PutIs
  <2>3. [[[out EXCEPT !.phi = xphi] EXCEPT !.ins = xins] EXCEPT !.arg = xarg] \in Functions(N)
    BY <2>2, <1>12, PutIs
  <2> QED
    BY <2>3, <1>2
<1>14. /\ q.link = out.link /\ q.s1 = out.s1 /\ q.s2 = out.s2 /\ q.jmp = out.jmp /\ q.pred = out.pred
       /\ q.phi = xphi /\ q.ins = xins /\ q.arg = xarg
  <2>1. DOMAIN out = Fields
    BY PutIs
  <2> QED
    BY <2>1, <1>2 DEF Fields
<1>15. Consistent(q)
  <2>1. \A c \in Blocks(prog) : Succs(q, c) = Succs(out, c) /\ q.pred[c] = out.pred[c]
    BY <1>14 DEF Succs
  <2>2. ASSUME NEW d \in Blocks(prog), NEW j \in DOMAIN q.phi[d]
        PROVE  \E k \in DOMAIN out.phi[d] :
                 q.phi[d][j].blk = out.phi[d][k].blk /\ Len(q.phi[d][j].arg) = Len(out.phi[d][k].arg)
    <3>1. CASE d = b
      BY <3>1, <1>5, <1>8, <1>10, <1>14
    <3>2. CASE d # b
      BY <3>2, <1>10, <1>14
    <3> QED
      BY <3>1, <3>2
  <2> QED
    BY <2>1, <2>2, <1>13, StaysConsistent DEF N
<1>16. \A c \in Blocks(prog) : c # b => Like(q, out, c)
  BY <1>10, <1>11, <1>12, <1>14 DEF Like, PhisAlike
<1> QED
  BY <1>13, <1>14, <1>15, <1>16 DEF Changed, q, N

(* Two changes to b are one.                                               *)
LEMMA ChangedTrans ==
  ASSUME NEW p, NEW q, NEW r, NEW b, Changed(q, p, b), Changed(r, q, b)
  PROVE  Changed(r, p, b)
  BY LikeTrans DEF Changed

(* edgedel changes the block the edge leaves alone.                        *)
LEMMA EdgeDelChanges ==
  ASSUME Typed, NEW p \in Functions(prog.n), Consistent(p), NEW b \in Blocks(prog), NEW k \in {0, 1}
  PROVE  EdgeDelOK(p, b, k) /\ Changed(EdgeDel(p, b, k), p, b)
  BY EdgeDelIs DEF EdgeGone, Changed

(* Making a jnz a jmp: the assertions of edgedel hold, and only that block *)
(* changes.                                                                *)
LEMMA JnzToJmpIs ==
  ASSUME Typed, NEW p \in Functions(prog.n), Consistent(p), NEW b \in Blocks(prog)
  PROVE  EdgeDelOK(p, b, DeadSucc(p, b)) /\ Changed(JnzToJmp(p, b), p, b)
<1> DEFINE N == prog.n
<1>1. PICK k \in {0, 1} : k = DeadSucc(p, b)
  BY DEF DeadSucc
<1> DEFINE q == EdgeDel(p, b, k)
<1> DEFINE x1 == [q.s1 EXCEPT ![b] = q.s2[b]]
<1> DEFINE x2 == [q.s2 EXCEPT ![b] = Gone]
<1> DEFINE q1 == IF k = 0 THEN [q EXCEPT !.s1 = x1, !.s2 = x2] ELSE q
<1> DEFINE xjmp == [q1.jmp EXCEPT ![b] = "jmp"]
<1> DEFINE xarg == [q1.arg EXCEPT ![b] = 0]
<1> DEFINE r == [q1 EXCEPT !.jmp = xjmp, !.arg = xarg]
<1>2. EdgeDelOK(p, b, k) /\ EdgeGone(q, p, b, k)
  BY EdgeDelIs
<1>3. JnzToJmp(p, b) = r
  <2>1. [q EXCEPT !.s1[b] = q.s2[b], !.s2[b] = Gone] = [q EXCEPT !.s1 = x1, !.s2 = x2]
    OBVIOUS
  <2>2. JnzToJmp(p, b) = [q1 EXCEPT !.jmp[b] = "jmp", !.arg[b] = 0]
    BY <1>1, <2>1 DEF JnzToJmp
  <2> HIDE DEF q1
  <2> QED
    BY <2>2
<1> HIDE DEF q
<1>4. /\ q \in Functions(N) /\ Consistent(q) /\ \A c \in Blocks(prog) : c # b => Like(q, p, c)
      /\ k = 0 => q.s1[b] = Gone
      /\ DOMAIN q = Fields
  BY <1>2, PutIs DEF EdgeGone
<1>5. N \in Nat /\ Blocks(prog) = 0..N - 1 /\ 0 \in Operands
  BY ProgIs DEF Operands
<1>6. q.s1 \in TargetsOf(N) /\ q.s2 \in TargetsOf(N)
  BY <1>4, RecordIs DEF TargetsOf
<1>7. q1 \in Functions(N) /\ Consistent(q1) /\ \A c \in Blocks(prog) : c # b => Like(q1, q, c)
  <2>1. CASE k = 0
    <3>1. q1 = [q EXCEPT !.s1 = x1, !.s2 = x2]
      BY <2>1
    <3>2. /\ x1 \in TargetsOf(N) /\ x2 \in TargetsOf(N) /\ x1[b] = q.s2[b] /\ x2[b] = Gone
          /\ \A c \in Blocks(prog) : c # b => x1[c] = q.s1[c] /\ x2[c] = q.s2[c]
      BY <1>5, <1>6 DEF TargetsOf
    <3> HIDE DEF q1, x1, x2
    <3>3. [q EXCEPT !.s1 = x1] \in Functions(N)
      BY <1>4, <3>2, PutIs
    <3>4. [[q EXCEPT !.s1 = x1] EXCEPT !.s2 = x2] \in Functions(N)
      BY <3>2, <3>3, PutIs
    <3>5. q1 \in Functions(N)
      BY <3>1, <3>4
    <3>6. /\ q1.s1 = x1 /\ q1.s2 = x2 /\ q1.jmp = q.jmp /\ q1.arg = q.arg
          /\ q1.phi = q.phi /\ q1.ins = q.ins /\ q1.pred = q.pred
      BY <3>1, <1>4 DEF Fields
    <3>7. \A c \in Blocks(prog) : Succs(q1, c) = Succs(q, c)
      <4>1. {q1.s1[b], q1.s2[b]} \ {Gone} = {q.s1[b], q.s2[b]} \ {Gone}
        BY <2>1, <3>2, <3>6, <1>4
      <4> QED
        BY <4>1, <3>2, <3>6 DEF Succs
    <3>8. Consistent(q1)
      BY <3>5, <3>6, <3>7, <1>4, StaysConsistent DEF N
    <3>9. \A c \in Blocks(prog) : c # b => Like(q1, q, c)
      BY <3>2, <3>6 DEF Like, PhisAlike
    <3> QED
      BY <3>5, <3>8, <3>9
  <2>2. CASE k # 0
    <3>1. q1 = q
      BY <2>2
    <3> HIDE DEF q1
    <3> QED
      BY <3>1, <1>4, LikeItself
  <2> QED
    BY <2>1, <2>2
<1> HIDE DEF q1
<1>8. /\ xjmp \in JmpsOf(N) /\ xarg \in ArgsOf(N)
      /\ \A c \in Blocks(prog) : c # b => xjmp[c] = q1.jmp[c] /\ xarg[c] = q1.arg[c]
  <2>1. q1.jmp \in [0..N - 1 -> {"ret", "jmp", "jnz"}] /\ q1.arg \in [0..N - 1 -> Operands]
    BY <1>7, RecordIs
  <2> QED
    BY <2>1, <1>5 DEF JmpsOf, ArgsOf
<1> HIDE DEF xjmp, xarg
<1>9. r \in Functions(N)
  <2>1. [q1 EXCEPT !.jmp = xjmp] \in Functions(N)
    BY <1>7, <1>8, PutIs
  <2>2. [[q1 EXCEPT !.jmp = xjmp] EXCEPT !.arg = xarg] \in Functions(N)
    BY <2>1, <1>8, PutIs
  <2> QED
    BY <2>2
<1>10. /\ r.s1 = q1.s1 /\ r.s2 = q1.s2 /\ r.jmp = xjmp /\ r.arg = xarg
       /\ r.phi = q1.phi /\ r.ins = q1.ins /\ r.pred = q1.pred
  <2>1. DOMAIN q1 = Fields
    BY <1>7, PutIs
  <2> QED
    BY <2>1 DEF Fields
<1> HIDE DEF r
<1>11. Consistent(r)
  <2>1. \A c \in Blocks(prog) : Succs(r, c) = Succs(q1, c)
    BY <1>10 DEF Succs
  <2> QED
    BY <2>1, <1>7, <1>9, <1>10, StaysConsistent DEF N
<1>12. \A c \in Blocks(prog) : c # b => Like(r, q1, c)
  BY <1>8, <1>10 DEF Like, PhisAlike
<1>13. Changed(q, p, b) /\ Changed(q1, q, b) /\ Changed(r, q1, b)
  BY <1>4, <1>7, <1>9, <1>11, <1>12 DEF Changed, N
<1> QED
  BY <1>1, <1>2, <1>3, <1>13, ChangedTrans

(* Everything a visited block uses has a value when phase 2 gets there.    *)
LEMMA AssertsHold ==
  ASSUME SearchInv, NEW b \in Blocks(prog), visit[b] # 0, Like(out, prog, b)
  PROVE  TrimAsserts(b)
<1>1. Typed /\ EdgesOK /\ Dominated /\ Defined
  BY DEF SearchInv
<1>2. Seen(b) /\ Came(b)
  BY <1>1 DEF Typed, Seen, Came
<1>3. \A t \in PhiDefs(prog, b) \cup InsDefs(prog, b) : t \in Temps => LatVal(t) # Top /\ val[t] # Top
  BY <1>1, <1>2, LatIs DEF Defined, Defs
<1>4. \A t \in PhiDefs(prog, b) \cup InsDefs(prog, b) : val[t] # Top
  BY <1>1, <1>2 DEF Defined, Defs
<1>5. ASSUME NEW j \in DOMAIN out.phi[b], NEW a \in DOMAIN out.phi[b][j].blk,
             ~DeadEdge(out.phi[b][j].blk[a], b)
      PROVE  RenRefOK(out.phi[b][j].arg[a])
  <2>1. PICK c \in DOMAIN prog.phi[b][j].blk : /\ out.phi[b][j].blk[a] = prog.phi[b][j].blk[c]
                                               /\ out.phi[b][j].arg[a] = prog.phi[b][j].arg[c]
    BY DEF Like, PhisAlike
  <2>2. j \in DOMAIN prog.phi[b]
    BY DEF Like, PhisAlike
  <2>3. LatVal(prog.phi[b][j].arg[c]) # Top
    BY <1>1, <1>5, <2>1, <2>2, HeardDefined
  <2> QED
    BY <2>1, <2>3 DEF RenRefOK
<1>6. ASSUME NEW j \in DOMAIN out.ins[b]
      PROVE  /\ RenRefOK(out.ins[b][j].to)
             /\ \A x \in DOMAIN out.ins[b][j].arg : RenRefOK(out.ins[b][j].arg[x])
  <2>1. j \in DOMAIN prog.ins[b] /\ out.ins[b][j] = prog.ins[b][j]
    BY DEF Like, PhisAlike
  <2> DEFINE s == prog.ins[b][j]
  <2>2. s.to \in Temps /\ s.to \in InsDefs(prog, b) /\ DOMAIN s.arg = {1, 2}
    <3>1. s.to \in Temps /\ s.to \in InsDefs(prog, b) /\ s.arg \in Seq(Operands) /\ Len(s.arg) = 2
      BY <1>1, <2>1, InsAt
    <3> HIDE DEF s
    <3> QED
      BY <3>1
  <2>3. LatVal(s.to) # Top
    BY <1>3, <2>2
  <2>4. LatVal(s.arg[1]) # Top /\ LatVal(s.arg[2]) # Top
    <3>1. \A k \in 1..j - 1 : val[prog.ins[b][k].to] # Top
      <4>1. \A k \in 1..j - 1 : k \in DOMAIN prog.ins[b]
        <5>1. j \in 1..Len(prog.ins[b]) /\ Len(prog.ins[b]) \in Nat
          BY <1>1, <2>1, InsAt
        <5>2. DOMAIN prog.ins[b] = 1..Len(prog.ins[b])
          BY <1>1, ProgIs, PartsAre
        <5> QED
          BY <5>1, <5>2
      <4> QED
        BY <4>1, <1>4 DEF InsDefs
    <3> QED
      BY <1>1, <1>2, <1>4, <2>1, <3>1, OperandsDefined
  <2> HIDE DEF s
  <2>5. RenRefOK(s.to) /\ \A x \in DOMAIN s.arg : RenRefOK(s.arg[x])
    BY <2>2, <2>3, <2>4 DEF RenRefOK
  <2> QED
    BY <2>1, <2>5 DEF s
<1>7. RenRefOK(out.arg[b])
  <2>1. LatVal(prog.arg[b]) # Top
    BY <1>1, <1>2, JmpDefined
  <2> QED
    BY <2>1 DEF RenRefOK, Like, PhisAlike
<1> QED
  BY <1>5, <1>6, <1>7 DEF TrimAsserts

-----------------------------------------------------------------------------
(* The invariant of both phases.                                           *)
LEMMA LinkAt ==
  ASSUME Typed
  PROVE  /\ Len(prog.link) \in Nat
         /\ \A k \in 1..Len(prog.link) : prog.link[k] \in Blocks(prog)
         /\ \A j, k \in 1..Len(prog.link) : prog.link[j] = prog.link[k] => j = k
<1>1. prog.link \in Seq(0..prog.n - 1) /\ Blocks(prog) = 0..prog.n - 1
  BY ProgIs, RecordIs
<1>2. IsInjective(prog.link)
  BY ProgIs DEF WellFormed
<1>3. /\ DOMAIN prog.link = 1..Len(prog.link) /\ Len(prog.link) \in Nat
      /\ \A k \in 1..Len(prog.link) : prog.link[k] \in 0..prog.n - 1
  BY <1>1, ListIs
<1>4. \A j, k \in 1..Len(prog.link) : prog.link[j] = prog.link[k] => j = k
  BY <1>2, <1>3 DEF IsInjective
<1> QED
  BY <1>1, <1>3, <1>4

(* Phase 2 goes to the next block.                                         *)
LEMMA OutStep ==
  ASSUME Typed, OutOK, pc = "trim", pc' = "trim", prog' = prog, i <= Len(prog.link), i' = i + 1,
         NEW b, b = prog.link[i], Changed(out', out, b)
  PROVE  OutOK'
<1>1. i \in Nat \ {0} /\ Len(prog.link) \in Nat
  BY LinkAt DEF Typed
<1>2. out' \in Functions(prog.n) /\ Consistent(out')
  BY DEF Changed
<1>3. Consistent(out)'
  BY <1>2 DEF Consistent
<1>4. ASSUME NEW k \in i'..Len(prog.link) PROVE Like(out', prog, prog.link[k])
  <2>1. k \in 1..Len(prog.link) /\ i \in 1..Len(prog.link) /\ k # i /\ k \in i..Len(prog.link)
    BY <1>1
  <2>2. prog.link[k] # b /\ prog.link[k] \in Blocks(prog)
    BY <2>1, LinkAt
  <2>3. Like(out, prog, prog.link[k])
    BY <2>1 DEF OutOK
  <2>4. Like(out', out, prog.link[k])
    BY <2>2 DEF Changed
  <2> QED
    BY <2>3, <2>4, LikeTrans
<1>5. (\A k \in i..Len(prog.link) : Like(out, prog, prog.link[k]))'
  BY <1>4
<1>6. (Searching => out = prog)'
  BY DEF Searching
<1>7. (out \in Functions(prog.n))'
  BY <1>2
<1> QED
  BY <1>3, <1>5, <1>6, <1>7 DEF OutOK

(* What TrimLive does: no assertion fails, and one block changes.          *)
LEMMA TrimLiveDoes ==
  ASSUME IInv, TrimLive
  PROVE  LET b == prog.link[i]
             p == Renamed(b)
         IN /\ b \in Blocks(prog) /\ visit[b] # 0 /\ Like(out, prog, b) /\ TrimAsserts(b)
            /\ out' = IF ConstJnz(p, b) THEN JnzToJmp(p, b) ELSE p
            /\ i' = i + 1 /\ pc' = "trim" /\ Changed(out', out, b)
<1>1. SearchInv /\ Typed /\ OutOK /\ pc = "trim" /\ i <= Len(prog.link) /\ i \in Nat \ {0}
  BY DEF IInv, SearchInv, Typed, TrimLive
<1> DEFINE b == prog.link[i]
<1> DEFINE p == Renamed(b)
<1>2. Len(prog.link) \in Nat /\ i \in 1..Len(prog.link) /\ i \in i..Len(prog.link)
  BY <1>1, LinkAt
<1>3. b \in Blocks(prog) /\ visit[b] # 0 /\ Like(out, prog, b)
  BY <1>1, <1>2, LinkAt DEF TrimLive, OutOK
<1>4. out \in Functions(prog.n) /\ Consistent(out)
  BY <1>1 DEF OutOK
<1>5. TrimAsserts(b)
  BY <1>1, <1>3, AssertsHold
<1>6. TrimLive => (TrimAsserts(b) /\ (ConstJnz(p, b) => EdgeDelOK(p, b, DeadSucc(p, b))) =>
        /\ out' = IF ConstJnz(p, b) THEN JnzToJmp(p, b) ELSE p
        /\ i' = i + 1 /\ pc' = pc)
  BY DEF TrimLive
<1> HIDE DEF b, p
<1>7. Changed(p, out, b)
  BY <1>1, <1>3, <1>4, <1>5, RenamedIs DEF p
<1>8. p \in Functions(prog.n) /\ Consistent(p)
  BY <1>7 DEF Changed
<1>9. EdgeDelOK(p, b, DeadSucc(p, b)) /\ Changed(JnzToJmp(p, b), p, b)
  BY <1>1, <1>3, <1>8, JnzToJmpIs
<1>10. /\ out' = IF ConstJnz(p, b) THEN JnzToJmp(p, b) ELSE p
       /\ i' = i + 1 /\ pc' = "trim"
  BY <1>1, <1>5, <1>6, <1>9
<1>11. Changed(out', out, b)
  BY <1>7, <1>9, <1>10, ChangedTrans
<1> QED
  BY <1>3, <1>5, <1>10, <1>11 DEF b, p

(* Replacing the constants of a block that stays keeps the invariant.      *)
LEMMA TrimLiveKeeps == ASSUME IInv, TrimLive PROVE IInv'
<1>1. SearchInv /\ Typed /\ OutOK /\ pc = "trim" /\ i <= Len(prog.link) /\ i \in Nat \ {0}
  BY DEF IInv, SearchInv, Typed, TrimLive
<1> DEFINE b == prog.link[i]
<1>2. i' = i + 1 /\ pc' = "trim" /\ Changed(out', out, b)
  BY TrimLiveDoes
<1>3. /\ prog' = prog /\ val' = val /\ use' = use /\ usewrk' = usewrk /\ dead' = dead
       /\ work' = work /\ flowrk' = flowrk /\ visit' = visit /\ n' = n
  BY DEF TrimLive, lists
<1>4. OutOK'
  BY <1>1, <1>2, <1>3, OutStep
<1>5. ~Searching /\ i' \in Nat \ {0}
  BY <1>1, <1>2 DEF Searching
<1>6. SearchInv'
  BY <1>1, <1>2, <1>3, <1>5, TrimKeeps
<1> QED
  BY <1>4, <1>6 DEF IInv

(* What TrimDead does: no assertion fails, and one block changes.          *)
LEMMA TrimDeadDoes ==
  ASSUME IInv, TrimDead
  PROVE  /\ prog.link[i] \in Blocks(prog) /\ visit[prog.link[i]] = 0
         /\ i' = i + 1 /\ pc' = "trim" /\ Changed(out', out, prog.link[i])
<1>1. SearchInv /\ Typed /\ OutOK /\ pc = "trim" /\ i <= Len(prog.link) /\ i \in Nat \ {0}
  BY DEF IInv, SearchInv, Typed, TrimDead
<1> DEFINE b == prog.link[i]
<1> DEFINE p == EdgeDel(out, b, 0)
<1> DEFINE q == EdgeDel(p, b, 1)
<1> DEFINE x == Keep(q.link, {j \in DOMAIN q.link : q.link[j] # b})
<1>2. Len(prog.link) \in Nat /\ i \in 1..Len(prog.link) /\ i \in i..Len(prog.link)
  BY <1>1, LinkAt
<1>3. b \in Blocks(prog) /\ visit[b] = 0
  BY <1>1, <1>2, LinkAt DEF TrimDead
<1>4. out \in Functions(prog.n) /\ Consistent(out)
  BY <1>1 DEF OutOK
<1>5. TrimDead => (EdgeDelOK(out, b, 0) /\ EdgeDelOK(p, b, 1) =>
        /\ out' = [q EXCEPT !.link = x]
        /\ i' = i + 1 /\ pc' = pc)
  BY DEF TrimDead
<1> HIDE DEF b
<1>6. EdgeDelOK(out, b, 0) /\ Changed(p, out, b)
  BY <1>1, <1>3, <1>4, EdgeDelChanges
<1> HIDE DEF p
<1>7. p \in Functions(prog.n) /\ Consistent(p)
  BY <1>6 DEF Changed
<1>8. EdgeDelOK(p, b, 1) /\ Changed(q, p, b)
  BY <1>1, <1>3, <1>7, EdgeDelChanges
<1> HIDE DEF q
<1>9. q \in Functions(prog.n) /\ Consistent(q)
  BY <1>8 DEF Changed
<1>10. x \in LinksOf(prog.n)
  <2>1. q.link \in Seq(0..prog.n - 1)
    BY <1>9, RecordIs
  <2> QED
    BY <2>1, KeepIs DEF LinksOf
<1> HIDE DEF x
<1> DEFINE r == [q EXCEPT !.link = x]
<1>11. r \in Functions(prog.n) /\ DOMAIN q = Fields
  BY <1>9, <1>10, PutIs
<1>12. /\ r.s1 = q.s1 /\ r.s2 = q.s2 /\ r.jmp = q.jmp /\ r.arg = q.arg
       /\ r.phi = q.phi /\ r.ins = q.ins /\ r.pred = q.pred
  BY <1>11 DEF Fields
<1> HIDE DEF r
<1>13. Changed(r, q, b)
  <2>1. \A c \in Blocks(prog) : Succs(r, c) = Succs(q, c)
    BY <1>12 DEF Succs
  <2>2. Consistent(r)
    BY <2>1, <1>1, <1>9, <1>11, <1>12, StaysConsistent
  <2>3. \A c \in Blocks(prog) : Like(r, q, c)
    BY <1>12 DEF Like, PhisAlike
  <2> QED
    BY <2>2, <2>3, <1>11 DEF Changed
<1>14. out' = r /\ i' = i + 1 /\ pc' = "trim"
  BY <1>1, <1>5, <1>6, <1>8 DEF r
<1>15. Changed(out', out, b)
  BY <1>6, <1>8, <1>13, <1>14, ChangedTrans
<1> QED
  BY <1>3, <1>14, <1>15 DEF b

(* Deleting a block keeps the invariant.                                   *)
LEMMA TrimDeadKeeps == ASSUME IInv, TrimDead PROVE IInv'
<1>1. SearchInv /\ Typed /\ OutOK /\ pc = "trim" /\ i <= Len(prog.link) /\ i \in Nat \ {0}
  BY DEF IInv, SearchInv, Typed, TrimDead
<1> DEFINE b == prog.link[i]
<1>2. i' = i + 1 /\ pc' = "trim" /\ Changed(out', out, b)
  BY TrimDeadDoes
<1>3. /\ prog' = prog /\ val' = val /\ use' = use /\ usewrk' = usewrk /\ dead' = dead
      /\ work' = work /\ flowrk' = flowrk /\ visit' = visit /\ n' = n
  BY DEF TrimDead, lists
<1>4. OutOK'
  BY <1>1, <1>2, <1>3, OutStep
<1>5. ~Searching /\ i' \in Nat \ {0}
  BY <1>1, <1>2 DEF Searching
<1>6. SearchInv'
  BY <1>1, <1>2, <1>3, <1>5, TrimKeeps
<1> QED
  BY <1>4, <1>6 DEF IInv

(* The end of phase 2 keeps the invariant.                                 *)
LEMMA TrimEndKeeps == ASSUME IInv, TrimEnd PROVE IInv'
<1>1. SearchInv /\ Typed /\ OutOK /\ pc = "trim" /\ i \in Nat \ {0}
  BY DEF IInv, SearchInv, Typed, TrimEnd
<1>2. /\ prog' = prog /\ val' = val /\ use' = use /\ usewrk' = usewrk /\ dead' = dead
      /\ work' = work /\ flowrk' = flowrk /\ visit' = visit /\ n' = n /\ i' = i
      /\ out' = out /\ pc' = "done"
  BY DEF TrimEnd, lists
<1>3. ~Searching /\ i' \in Nat \ {0}
  BY <1>1, <1>2 DEF Searching
<1>4. SearchInv'
  BY <1>1, <1>2, <1>3, TrimKeeps
<1>5. OutOK'
  <2>1. out \in Functions(prog.n) /\ Consistent(out)
    BY <1>1 DEF OutOK
  <2>2. Consistent(out)'
    BY <2>1, <1>2 DEF Consistent
  <2>3. (Searching => out = prog)'
    BY <1>2 DEF Searching
  <2>4. (pc # "trim")' /\ (out \in Functions(prog.n))'
    BY <2>1, <1>2
  <2> QED
    BY <2>2, <2>3, <2>4 DEF OutOK
<1> QED
  BY <1>4, <1>5 DEF IInv

(* The search does not touch the function.                                 *)
LEMMA ProgConsistent == ASSUME Typed PROVE prog \in Functions(prog.n) /\ Consistent(prog)
<1>1. WellFormed(prog) /\ prog \in Functions(prog.n)
  BY ProgIs
<1> QED
  BY <1>1 DEF WellFormed, Consistent

(* The search does not touch the function phase 2 starts from.             *)
LEMMA SearchKeepsOut ==
  ASSUME IInv, Search, SearchInv'
  PROVE  OutOK'
<1>1. prog' = prog /\ out' = out /\ Searching
  BY DEF Search, Searching, PopEdge, EdgePhi, EdgePhisSeen, EdgeIns, EdgeJmp, EdgeLeft, PopUse,
         UsePhi, UseIns, UseJmp, SearchDone
<1>2. out = prog /\ out \in Functions(prog.n) /\ Consistent(out)
  BY <1>1 DEF IInv, OutOK
<1>3. Consistent(out)'
  BY <1>1, <1>2 DEF Consistent
<1>4. (\A k \in i..Len(prog.link) : Like(out, prog, prog.link[k]))'
  BY <1>1, <1>2, LikeItself
<1>5. (out \in Functions(prog.n))' /\ (out = prog)'
  BY <1>1, <1>2
<1> QED
  BY <1>3, <1>4, <1>5 DEF OutOK

(* Every step of the search keeps the invariant.                           *)
LEMMA SearchKeeps == ASSUME IInv, Search PROVE IInv'
<1>1. SearchInv
  BY DEF IInv
<1>2. SearchInv'
  BY <1>1, PopEdgeKeeps, EdgePhiKeeps, EdgePhisSeenKeeps, EdgeInsKeeps, EdgeJmpKeeps,
     EdgeLeftKeeps, PopUseKeeps, UsePhiKeeps, UseInsKeeps, UseJmpKeeps, SearchDoneKeeps DEF Search
<1>3. OutOK'
  BY <1>2, SearchKeepsOut
<1> QED
  BY <1>2, <1>3 DEF IInv

(* Nothing moves.                                                          *)
LEMMA StutterKeeps == ASSUME IInv, UNCHANGED vars PROVE IInv'
<1>0. /\ prog' = prog /\ val' = val /\ use' = use /\ usewrk' = usewrk /\ dead' = dead
      /\ work' = work /\ flowrk' = flowrk /\ visit' = visit /\ n' = n /\ i' = i /\ pc' = pc
      /\ out' = out
  BY DEF vars
<1>1. SearchInv /\ Typed /\ Placed /\ EdgesOK /\ Dominated /\ Defined /\ UpToDate
  BY DEF IInv, SearchInv
<1>2. Typed'
  BY <1>0, <1>1 DEF Typed
<1>3. \A b \in Blocks(prog) : (Seen(b)' <=> Seen(b)) /\ (Came(b)' <=> Came(b))
  BY <1>0 DEF Seen, Came, Busy
<1>4. AList' /\ Listed' = Listed /\ EdgesOK' /\ Dominated' /\ NotBelow'
  BY <1>0, <1>1, <1>2, <1>3, QuietStep
<1>5. Placed'
  BY <1>0, <1>1 DEF Placed, Searching
<1>6. Defined'
  BY <1>0, <1>1, <1>3 DEF Defined
<1>7. UpToDate'
  <2>1. /\ \A b \in Blocks(prog) : \A j \in DOMAIN prog.phi[b] :
             PhiValue(prog.phi[b][j], b)' = PhiValue(prog.phi[b][j], b)
        /\ \A b \in Blocks(prog) : \A j \in DOMAIN prog.ins[b] :
             InsValue(prog.ins[b][j])' = InsValue(prog.ins[b][j])
        /\ \A b, k : EdgeAlive(b, k)' <=> EdgeAlive(b, k)
    BY <1>0, <1>1, <1>2, ValuesStay
  <2>2. \A type, b, j : Pending(type, b, j)' <=> Pending(type, b, j)
    BY <1>0 DEF Pending
  <2> QED
    BY <2>1, <2>2, <1>0, <1>1, <1>3, <1>4 DEF UpToDate
<1>8. SearchInv'
  BY <1>2, <1>4, <1>5, <1>6, <1>7 DEF SearchInv
<1>9. OutOK'
  BY <1>0 DEF IInv, OutOK, Consistent, Searching
<1> QED
  BY <1>8, <1>9 DEF IInv

(* The invariant is inductive.                                             *)
LEMMA StepKeeps == IInv /\ [Next]_vars => IInv'
<1> SUFFICES ASSUME IInv, [Next]_vars PROVE IInv'
  OBVIOUS
<1>1. CASE Search
  BY <1>1, SearchKeeps
<1>2. CASE Trim
  BY <1>2, TrimLiveKeeps, TrimDeadKeeps, TrimEndKeeps DEF Trim
<1>3. CASE Stopped \/ UNCHANGED vars
  BY <1>3, StutterKeeps DEF Stopped
<1> QED
  BY <1>1, <1>2, <1>3 DEF Next

(* The invariant holds at the start.                                       *)
LEMMA InitHolds == Init => IInv
<1> SUFFICES ASSUME Init PROVE IInv
  OBVIOUS
<1>1. SearchInv /\ Typed
  BY SearchStarts DEF SearchInv
<1>2. out = prog /\ pc = "loop"
  BY DEF Init
<1>3. OutOK
  BY <1>1, <1>2, ProgConsistent DEF OutOK
<1> QED
  BY <1>1, <1>3 DEF IInv

(* The invariant of both phases holds in every state fold reaches, for     *)
(* every function in SSA form.                                             *)
THEOREM SccpInvariant == Spec => []IInv
  BY InitHolds, StepKeeps, PTL DEF Spec

(* The list of edges is not longer than there are edges.                   *)
LEMMA ListFits ==
  ASSUME Typed, NEW l, IsList(l)
  PROVE  Len(l) \in Nat /\ Len(l) <= 2 * prog.n + 1
<1> DEFINE B == Blocks(prog)
<1>1. prog.n \in Nat /\ B = 0..prog.n - 1
  BY ProgIs
<1>2. IsFiniteSet(B) /\ Cardinality(B) = prog.n
  <2>1. 0 \in Int /\ prog.n - 1 \in Int
    BY <1>1
  <2>2. IsFiniteSet(0..prog.n - 1)
        /\ Cardinality(0..prog.n - 1) = IF 0 > prog.n - 1 THEN 0 ELSE prog.n - 1 - 0 + 1
    BY <2>1, FS_Interval
  <2> QED
    BY <1>1, <2>2
<1>3. IsFiniteSet({0, 1}) /\ Cardinality({0, 1}) = 2
  <2>1. IsFiniteSet({0}) /\ Cardinality({0}) = 1
    BY FS_Singleton
  <2>2. /\ IsFiniteSet({0} \cup {1})
        /\ Cardinality({0} \cup {1}) = IF 1 \in {0} THEN Cardinality({0}) ELSE Cardinality({0}) + 1
    BY <2>1, FS_AddElement
  <2>3. {0} \cup {1} = {0, 1} /\ 1 \notin {0}
    OBVIOUS
  <2> QED
    BY <2>1, <2>2, <2>3
<1> HIDE DEF B
<1>4. IsFiniteSet(B \X {0, 1}) /\ Cardinality(B \X {0, 1}) = prog.n * 2
  <2>1. IsFiniteSet(B \X {0, 1}) /\ Cardinality(B \X {0, 1}) = Cardinality(B) * Cardinality({0, 1})
    BY <1>2, <1>3, FS_Product
  <2> QED
    BY <2>1, <1>2, <1>3
<1>5. Edges(prog) = (B \X {0, 1}) \cup {Start}
  BY DEF Edges, B
<1>6. IsFiniteSet(Edges(prog)) /\ Cardinality(Edges(prog)) \in Nat
      /\ Cardinality(Edges(prog)) <= 2 * prog.n + 1
  <2>1. /\ IsFiniteSet((B \X {0, 1}) \cup {Start})
        /\ Cardinality((B \X {0, 1}) \cup {Start})
             = IF Start \in B \X {0, 1} THEN Cardinality(B \X {0, 1}) ELSE Cardinality(B \X {0, 1}) + 1
    BY <1>4, FS_AddElement
  <2> DEFINE c == Cardinality(B \X {0, 1})
  <2>2. c = prog.n * 2 /\ (Cardinality(Edges(prog)) = c \/ Cardinality(Edges(prog)) = c + 1)
    BY <2>1, <1>4, <1>5
  <2>3. IsFiniteSet(Edges(prog))
    BY <2>1, <1>5
  <2> HIDE DEF c
  <2> QED
    BY <2>2, <2>3, <1>1
<1>7. l \in Seq(Edges(prog)) /\ \A j, k \in 1..Len(l) : l[j] = l[k] => j = k
  BY DEF IsList
<1>8. Len(l) \in Nat /\ DOMAIN l = 1..Len(l) /\ l \in [1..Len(l) -> Edges(prog)]
  BY <1>7
<1>9. l \in Injection(1..Len(l), Edges(prog))
  BY <1>7, <1>8 DEF Injection, IsInjective
<1>10. Cardinality(1..Len(l)) <= Cardinality(Edges(prog))
  BY <1>6, <1>9, FS_Injection
<1>11. Cardinality(1..Len(l)) = Len(l)
  <2>1. Cardinality(1..Len(l)) = IF 1 > Len(l) THEN 0 ELSE Len(l) - 1 + 1
    BY <1>8, FS_Interval
  <2> QED
    BY <2>1, <1>8
<1> QED
  BY <1>1, <1>6, <1>8, <1>10, <1>11

(* Following the links goes through the list and stops at its end.         *)
LEMMA LinkedHolds == ASSUME Typed, AList PROVE Linked
<1>1. PICK l : IsList(l)
  BY DEF AList
<1> DEFINE E == Edges(prog)
<1> DEFINE m == 2 * prog.n + 1
<1> DEFINE V == E \cup {Nil}
<1> DEFINE step == [j \in 1..m |-> [v \in V |-> IF v = Nil THEN Nil ELSE work[v]]]
<1> DEFINE Rec(f) == [x \in 0..2 * prog.n + 1 |->
        IF x = 0 THEN flowrk ELSE IF f[x - 1] = Nil THEN Nil ELSE work[f[x - 1]]]
<1>2. m \in Nat /\ Len(l) \in Nat /\ Len(l) <= m
  BY <1>1, ProgIs, ListFits
<1>3. flowrk \in V /\ work \in [E -> V] /\ Nil \notin E
  BY EdgeIs DEF Typed
<1>4. step \in [1..m -> [V -> V]]
  BY <1>3
<1>5. PICK f \in [0..m -> V] : Recurs(m, flowrk, step, f)
  <2> HIDE DEF m, step, V
  <2> QED
    BY <1>2, <1>3, <1>4, StepRecursion
<1>6. f = Rec(f)
  <2>1. ASSUME NEW j \in 1..m PROVE f[j] = IF f[j - 1] = Nil THEN Nil ELSE work[f[j - 1]]
    <3>1. j - 1 \in 0..m
      BY <1>2
    <3>2. f[j - 1] \in V
      BY <3>1
    <3>3. f[j] = step[j][f[j - 1]]
      BY <1>5 DEF Recurs
    <3> QED
      BY <3>2, <3>3
  <2>2. \A j \in 0..m : j # 0 => j \in 1..m
    BY <1>2
  <2>3. \A j \in 0..m : f[j] = Rec(f)[j]
    BY <1>5, <2>1, <2>2 DEF Recurs
  <2> QED
    BY <1>5, <2>3
<1> DEFINE g == CHOOSE g : g = Rec(g)
<1>7. g = Rec(g)
  BY <1>6
<1>8. Linked <=> g[m] = Nil /\ \A e \in E \ {g[x] : x \in DOMAIN g} : work[e] = Nil
  BY DEF Linked
<1> HIDE DEF g
<1>9. DOMAIN g = 0..m /\ g[0] = flowrk
      /\ \A x \in 1..m : g[x] = IF g[x - 1] = Nil THEN Nil ELSE work[g[x - 1]]
  <2>1. \A x \in 0..m : g[x] = IF x = 0 THEN flowrk ELSE IF g[x - 1] = Nil THEN Nil ELSE work[g[x - 1]]
    BY <1>7
  <2>2. 0 \in 0..m /\ \A x \in 1..m : x \in 0..m /\ x # 0
    BY <1>2
  <2>3. DOMAIN g = 0..m
    BY <1>7
  <2> HIDE DEF m
  <2> QED
    BY <2>1, <2>2, <2>3
<1> HIDE DEF m
<1> DEFINE At(x) == IF x < Len(l) THEN l[x + 1] ELSE Nil
<1> DEFINE T == {x \in 0..m : g[x] = At(x)}
<1>10. /\ l \in Seq(E) /\ flowrk = (IF l = <<>> THEN Nil ELSE l[1])
       /\ \A j \in 1..Len(l) : work[l[j]] = IF j = Len(l) THEN Nil ELSE l[j + 1]
       /\ \A e \in E : (\A j \in 1..Len(l) : l[j] # e) => work[e] = Nil
  BY <1>1 DEF IsList
<1>11. 0 \in T
  <2>1. l = <<>> <=> Len(l) = 0
    BY <1>10
  <2>2. flowrk = At(0)
    BY <2>1, <1>2, <1>10
  <2> QED
    BY <2>2, <1>2, <1>9
<1>12. ASSUME NEW x \in 1..m, x - 1 \in T PROVE x \in T
  <2>1. g[x - 1] = At(x - 1) /\ x \in 0..m /\ (x - 1) + 1 = x
    BY <1>2, <1>12
  <2>2. g[x] = IF g[x - 1] = Nil THEN Nil ELSE work[g[x - 1]]
    BY <1>9
  <2>3. CASE x <= Len(l)
    <3>1. x \in 1..Len(l) /\ x - 1 < Len(l)
      BY <2>3, <1>2
    <3>2. g[x - 1] = l[x]
      BY <2>1, <3>1
    <3>3. l[x] \in E
      BY <3>1, <1>10, ListIs
    <3>4. g[x] = work[l[x]]
      BY <2>2, <3>2, <3>3, <1>3
    <3>5. g[x] = IF x = Len(l) THEN Nil ELSE l[x + 1]
      BY <3>1, <3>4, <1>10
    <3>6. x < Len(l) <=> x # Len(l)
      BY <2>3, <1>2
    <3>7. g[x] = At(x)
      BY <3>5, <3>6
    <3> QED
      BY <3>7, <2>1
  <2>4. CASE ~(x <= Len(l))
    <3>1. ~(x - 1 < Len(l)) /\ ~(x < Len(l))
      BY <2>4, <1>2
    <3>2. g[x - 1] = Nil
      BY <2>1, <3>1
    <3>3. g[x] = At(x)
      BY <3>1, <3>2, <2>2
    <3> QED
      BY <3>3, <2>1
  <2> QED
    BY <2>3, <2>4
<1>13. \A x \in 0..m : g[x] = At(x)
  <2>1. \A x \in 0..m : x \in T
    <3> HIDE DEF T
    <3> QED
      BY <1>2, <1>11, <1>12, UpTo
  <2> QED
    BY <2>1
<1>14. g[m] = Nil
  <2>1. m \in 0..m /\ ~(m < Len(l))
    BY <1>2
  <2> QED
    BY <2>1, <1>13
<1>15. ASSUME NEW e \in E, \A x \in 0..m : g[x] # e PROVE work[e] = Nil
  <2>1. ASSUME NEW j \in 1..Len(l) PROVE l[j] # e
    <3>1. PICK x \in 0..m : x = j - 1
      BY <1>2
    <3>2. x < Len(l) /\ x + 1 = j
      BY <3>1, <1>2
    <3>3. g[x] = l[j]
      BY <3>2, <1>13
    <3> QED
      BY <3>3, <1>15
  <2> QED
    BY <2>1, <1>10
<1> QED
  BY <1>8, <1>9, <1>14, <1>15

(* The invariant is more than the type invariant.                          *)
LEMMA TypesHold == ASSUME Typed PROVE TypeOK
<1>1. /\ val \in [Temps -> {Top, Bot} \cup Nat] /\ dead \in [Edges(prog) -> BOOLEAN]
      /\ work \in [Edges(prog) -> Edges(prog) \cup {Nil}] /\ flowrk \in Edges(prog) \cup {Nil}
      /\ visit \in [Blocks(prog) -> Nat]
      /\ pc \in {"loop", "phi", "ins", "left", "UPhi", "UIns", "UJmp", "trim", "done", "abort"}
      /\ n \in Blocks(prog) /\ i \in Nat \ {0}
  BY DEF Typed, Vals
<1>2. ASSUME NEW x \in DOMAIN usewrk
      PROVE  \E t \in Temps : \E y \in DOMAIN use[t] : usewrk[x] = use[t][y]
  <2>1. usewrk \in Seq(AllUses(prog))
    BY DEF Typed
  <2>2. usewrk[x] \in AllUses(prog)
    BY <2>1
  <2>3. PICK t \in Temps : usewrk[x] \in UsesOf(prog, t)
    BY <2>2 DEF AllUses
  <2>4. usewrk[x] \in ToSet(use[t])
    BY <2>3 DEF Typed
  <2> QED
    BY <2>4 DEF ToSet
<1> QED
  BY <1>1, <1>2 DEF TypeOK

(* None of fold's assertions fails, for any function in SSA form: a jump   *)
(* never depends on a value it does not have yet nor changes its mind, the *)
(* operands of the blocks that stay are defined, edgedel finds the phi     *)
(* argument and the predecessor it removes, and the list of edges stays    *)
(* one (fold.c:129, 136, 141, 175, 229; cfg.c:29, 38).                     *)
THEOREM NeverAborts == Spec => []NoAbort
<1>1. IInv => NoAbort
  <2> SUFFICES ASSUME IInv PROVE NoAbort
    OBVIOUS
  <2>1. Typed /\ AList
    BY DEF IInv, SearchInv
  <2>2. pc # "abort"
    BY <2>1 DEF Typed
  <2> QED
    BY <2>1, <2>2, TypesHold, LinkedHolds DEF NoAbort
<1> QED
  BY <1>1, SccpInvariant, PTL

(* When the search is over nothing is listed and nothing pending.          *)
LEMMA SearchOver ==
  ASSUME SearchInv, ~Searching
  PROVE  /\ \A b \in Blocks(prog) : (Came(b) <=> visit[b] > 0) /\ (Seen(b) <=> visit[b] > 0)
         /\ Listed = {} /\ \A type, b, j : type \notin {"trim", "done"} => ~Pending(type, b, j)
<1>1. Typed /\ Placed /\ AList /\ pc \in {"trim", "done"}
  BY DEF SearchInv, Searching
<1>2. flowrk = Nil /\ usewrk = <<>>
  BY DEF SearchInv, Placed
<1>3. Listed = {}
  <2>1. PICK l : IsList(l)
    BY <1>1 DEF AList
  <2>2. Listed = ToSet(l) /\ l = <<>>
    BY <2>1, <1>2, ListedIs
  <2> QED
    BY <2>2 DEF ToSet
<1>4. ToSet(usewrk) = {}
  BY <1>2 DEF ToSet
<1> QED
  BY <1>1, <1>3, <1>4 DEF Came, Seen, Busy, Pending

(* When phase 1 ends, the values and the executable edges solve the        *)
(* propagation equations exactly: no queued use was lost and no value is   *)
(* lower than its operands say (fold.c:211-255).                           *)
THEOREM SearchFindsFixpoint == Spec => []Fixpoint
<1>1. IInv => Fixpoint
  <2> SUFFICES ASSUME IInv, pc = "trim" PROVE Fixpoint
    BY DEF Fixpoint
  <2>1. SearchInv /\ Typed /\ EdgesOK /\ NotBelow /\ UpToDate
    BY DEF IInv, SearchInv
  <2>2. /\ \A b \in Blocks(prog) : (Came(b) <=> visit[b] > 0) /\ (Seen(b) <=> visit[b] > 0)
        /\ Listed = {} /\ \A type, b, j : type \notin {"trim", "done"} => ~Pending(type, b, j)
    BY <2>1, SearchOver DEF Searching
  <2>3. ASSUME NEW b \in Blocks(prog)
        PROVE  visit[b] > 0 <=> b = 0 \/ \E a \in Blocks(prog) : ~DeadEdge(a, b)
    <3>1. ASSUME visit[b] > 0, b # 0 PROVE \E a \in Blocks(prog) : ~DeadEdge(a, b)
      <4>1. PICK e \in Edges(prog) : ~dead[e] /\ Dest(e) = b
        BY <2>1, <2>2, <3>1 DEF EdgesOK
      <4>2. e # Start
        BY <4>1, <3>1, <2>1, EdgeIs
      <4>3. e[1] \in Blocks(prog) /\ e[2] \in {0, 1} /\ e = <<e[1], e[2]>> /\ Succ(prog, e[1], e[2]) = b
        BY <2>1, <4>1, <4>2, EdgeIs
      <4>4. ~DeadEdge(e[1], b)
        BY <4>1, <4>3 DEF DeadEdge
      <4> QED
        BY <4>3, <4>4
    <3>2. ASSUME b = 0 PROVE visit[b] > 0
      <4>1. Start \in Edges(prog) /\ Dest(Start) = 0
        BY <2>1, EdgeIs
      <4>2. ~dead[Start]
        BY <2>1, <2>2 DEF EdgesOK
      <4>3. Came(0)
        BY <2>1, <4>1, <4>2 DEF EdgesOK
      <4> QED
        BY <2>2, <3>2, <4>3
    <3>3. ASSUME NEW a \in Blocks(prog), ~DeadEdge(a, b) PROVE visit[b] > 0
      BY <2>1, <2>2, <3>3, AliveFrom
    <3> QED
      BY <3>1, <3>2, <3>3
  <2>4. ASSUME NEW b \in Blocks(prog), NEW k \in {0, 1}
        PROVE  ~dead[<<b, k>>] <=> visit[b] > 0 /\ EdgeAlive(b, k)
    <3>1. <<b, k>> \in Edges(prog) /\ <<b, k>> # Start
      BY <2>1, EdgeIs
    <3>2. ~dead[<<b, k>>] => Seen(b) /\ EdgeAlive(b, k)
      BY <2>1, <3>1 DEF EdgesOK, Wanted
    <3>3. Seen(b) /\ EdgeAlive(b, k) => ~dead[<<b, k>>]
      BY <2>1, <2>2 DEF UpToDate
    <3> QED
      BY <2>2, <3>2, <3>3
  <2>5. ASSUME NEW b \in Blocks(prog), NEW j \in DOMAIN prog.phi[b]
        PROVE  val[prog.phi[b][j].to] = Join(Heard(prog.phi[b][j], b))
    <3> DEFINE f == prog.phi[b][j]
    <3>1. PhiValue(f, b) = Join(Heard(f, b))
      BY <2>1, PhiValueIs
    <3>2. CASE Came(b)
      <4>1. val[f.to] = PhiValue(f, b)
        BY <2>1, <2>2, <3>2 DEF UpToDate
      <4> QED
        BY <3>1, <4>1
    <3>3. CASE ~Came(b)
      <4>1. \A a \in DOMAIN f.blk : f.blk[a] \in Blocks(prog)
        BY <2>1, PhiAt
      <4>2. \A a \in DOMAIN f.blk : DeadEdge(f.blk[a], b)
        BY <2>1, <3>3, <4>1, AliveFrom
      <4> HIDE DEF f
      <4>3. Heard(f, b) = {}
        BY <4>2 DEF Heard
      <4>4. Join(Heard(f, b)) = Top
        BY <4>3 DEF Join
      <4>5. Leq(val[f.to], PhiValue(f, b))
        BY <2>1 DEF NotBelow, f
      <4>6. val[f.to] = Top
        BY <3>1, <4>4, <4>5 DEF Leq, Top, Bot, f
      <4> QED
        BY <4>4, <4>6 DEF f
    <3> QED
      BY <3>2, <3>3
  <2>6. ASSUME NEW b \in Blocks(prog), visit[b] > 0, NEW j \in DOMAIN prog.ins[b]
        PROVE  val[prog.ins[b][j].to] = InsValue(prog.ins[b][j])
    BY <2>1, <2>2, <2>6 DEF UpToDate
  <2> QED
    BY <2>3, <2>4, <2>5, <2>6 DEF Fixpoint, Join, Heard
<1> QED
  BY <1>1, SccpInvariant, PTL

-----------------------------------------------------------------------------
(* What phase 2 leaves of a block that stays: the instructions and the     *)
(* jump with constants for operands, the phis that are not constant, with  *)
(* an argument for each edge that is left.                                 *)
PhisTrimmed(q, b) ==
  /\ \A j \in DOMAIN prog.phi[b] : val[prog.phi[b][j].to] = Bot =>
       \E k \in DOMAIN q.phi[b] : q.phi[b][k].to = prog.phi[b][j].to
  /\ \A k \in DOMAIN q.phi[b] : \E j \in DOMAIN prog.phi[b] :
       /\ q.phi[b][k].to = prog.phi[b][j].to /\ val[prog.phi[b][j].to] = Bot
       /\ \A a \in DOMAIN q.phi[b][k].blk : \E c \in DOMAIN prog.phi[b][j].blk :
            /\ q.phi[b][k].blk[a] = prog.phi[b][j].blk[c]
            /\ ~DeadEdge(prog.phi[b][j].blk[c], b) => q.phi[b][k].arg[a] = RenRef(prog.phi[b][j].arg[c])
JmpTrimmed(q, b) ==
  IF prog.jmp[b] = "jnz" /\ RenRef(prog.arg[b]) \notin Temps
  THEN q.jmp[b] = "jmp" /\ q.s1[b] = IF RenRef(prog.arg[b]) = 0 THEN prog.s2[b] ELSE prog.s1[b]
  ELSE /\ q.jmp[b] = prog.jmp[b] /\ q.arg[b] = RenRef(prog.arg[b])
       /\ q.s1[b] = prog.s1[b] /\ q.s2[b] = prog.s2[b]
Trimmed(q, b) ==
  /\ q.ins[b] = [j \in DOMAIN prog.ins[b] |-> TrimIns(prog.ins[b][j])]
  /\ PhisTrimmed(q, b) /\ JmpTrimmed(q, b)

(* A trimmed block that only loses arguments stays trimmed.                *)
LEMMA PhisStayTrimmed ==
  ASSUME NEW p, NEW q, NEW b, PhisTrimmed(p, b), PhisAlike(q, p, b)
  PROVE  PhisTrimmed(q, b)
<1>1. ASSUME NEW j \in DOMAIN prog.phi[b], val[prog.phi[b][j].to] = Bot
      PROVE  \E k \in DOMAIN q.phi[b] : q.phi[b][k].to = prog.phi[b][j].to
  <2>1. PICK k \in DOMAIN p.phi[b] : p.phi[b][k].to = prog.phi[b][j].to
    BY <1>1 DEF PhisTrimmed
  <2>2. k \in DOMAIN q.phi[b] /\ q.phi[b][k].to = p.phi[b][k].to
    BY DEF PhisAlike
  <2> QED
    BY <2>1, <2>2
<1>2. ASSUME NEW k \in DOMAIN q.phi[b]
      PROVE  \E j \in DOMAIN prog.phi[b] :
               /\ q.phi[b][k].to = prog.phi[b][j].to /\ val[prog.phi[b][j].to] = Bot
               /\ \A a \in DOMAIN q.phi[b][k].blk : \E c \in DOMAIN prog.phi[b][j].blk :
                    /\ q.phi[b][k].blk[a] = prog.phi[b][j].blk[c]
                    /\ ~DeadEdge(prog.phi[b][j].blk[c], b) => q.phi[b][k].arg[a] = RenRef(prog.phi[b][j].arg[c])
  <2>1. /\ k \in DOMAIN p.phi[b] /\ q.phi[b][k].to = p.phi[b][k].to
        /\ \A a \in DOMAIN q.phi[b][k].blk : \E c \in DOMAIN p.phi[b][k].blk :
             q.phi[b][k].blk[a] = p.phi[b][k].blk[c] /\ q.phi[b][k].arg[a] = p.phi[b][k].arg[c]
    BY DEF PhisAlike
  <2>2. PICK j \in DOMAIN prog.phi[b] :
          /\ p.phi[b][k].to = prog.phi[b][j].to /\ val[prog.phi[b][j].to] = Bot
          /\ \A a \in DOMAIN p.phi[b][k].blk : \E c \in DOMAIN prog.phi[b][j].blk :
               /\ p.phi[b][k].blk[a] = prog.phi[b][j].blk[c]
               /\ ~DeadEdge(prog.phi[b][j].blk[c], b) => p.phi[b][k].arg[a] = RenRef(prog.phi[b][j].arg[c])
    BY <2>1 DEF PhisTrimmed
  <2>3. ASSUME NEW a \in DOMAIN q.phi[b][k].blk
        PROVE  \E c \in DOMAIN prog.phi[b][j].blk :
                 /\ q.phi[b][k].blk[a] = prog.phi[b][j].blk[c]
                 /\ ~DeadEdge(prog.phi[b][j].blk[c], b) => q.phi[b][k].arg[a] = RenRef(prog.phi[b][j].arg[c])
    <3>1. PICK x \in DOMAIN p.phi[b][k].blk :
            q.phi[b][k].blk[a] = p.phi[b][k].blk[x] /\ q.phi[b][k].arg[a] = p.phi[b][k].arg[x]
      BY <2>1
    <3>2. PICK c \in DOMAIN prog.phi[b][j].blk :
            /\ p.phi[b][k].blk[x] = prog.phi[b][j].blk[c]
            /\ ~DeadEdge(prog.phi[b][j].blk[c], b) => p.phi[b][k].arg[x] = RenRef(prog.phi[b][j].arg[c])
      BY <2>2
    <3> QED
      BY <3>1, <3>2
  <2> QED
    BY <2>1, <2>2, <2>3
<1> QED
  BY <1>1, <1>2 DEF PhisTrimmed

(* So does one a change elsewhere left alike.                              *)
LEMMA StaysTrimmed ==
  ASSUME NEW p, NEW q, NEW b, Trimmed(p, b), Like(q, p, b)
  PROVE  Trimmed(q, b)
<1>1. PhisAlike(q, p, b) /\ PhisTrimmed(p, b)
  BY DEF Like, Trimmed
<1>2. PhisTrimmed(q, b)
  BY <1>1, PhisStayTrimmed
<1>3. JmpTrimmed(q, b)
  BY DEF Trimmed, JmpTrimmed, Like
<1> QED
  BY <1>2, <1>3 DEF Trimmed, Like

(* What Renamed makes of the block.                                        *)
LEMMA RenamedParts ==
  ASSUME Typed, out \in Functions(prog.n), NEW b \in Blocks(prog)
  PROVE  LET kept == Keep(out.phi[b], {j \in DOMAIN out.phi[b] : val[out.phi[b][j].to] = Bot})
             q == Renamed(b)
         IN /\ q.phi[b] = [j \in DOMAIN kept |-> TrimPhi(kept[j], b)]
            /\ q.ins[b] = [j \in DOMAIN out.ins[b] |-> TrimIns(out.ins[b][j])]
            /\ q.arg[b] = RenRef(out.arg[b])
            /\ q.s1[b] = out.s1[b] /\ q.s2[b] = out.s2[b] /\ q.jmp[b] = out.jmp[b]
<1> DEFINE kept == Keep(out.phi[b], {j \in DOMAIN out.phi[b] : val[out.phi[b][j].to] = Bot})
<1> DEFINE q == Renamed(b)
<1> DEFINE phis == [j \in DOMAIN kept |-> TrimPhi(kept[j], b)]
<1> DEFINE inss == [j \in DOMAIN out.ins[b] |-> TrimIns(out.ins[b][j])]
<1> DEFINE xphi == [out.phi EXCEPT ![b] = phis]
<1> DEFINE xins == [out.ins EXCEPT ![b] = inss]
<1> DEFINE xarg == [out.arg EXCEPT ![b] = RenRef(out.arg[b])]
<1>1. /\ DOMAIN out = Fields /\ Blocks(prog) = 0..prog.n - 1
      /\ out.phi \in PhiTables(prog.n) /\ out.ins \in InsTables(prog.n) /\ out.arg \in ArgsOf(prog.n)
  <2>1. Blocks(prog) = 0..prog.n - 1
    BY ProgIs
  <2> QED
    BY <2>1, PutIs, RecordIs DEF PhiTables, InsTables, ArgsOf
<1>2. q = [out EXCEPT !.phi = xphi, !.ins = xins, !.arg = xarg]
  BY DEF Renamed
<1> HIDE DEF q, kept, phis, inss
<1>3. xphi[b] = phis /\ xins[b] = inss /\ xarg[b] = RenRef(out.arg[b])
  BY <1>1 DEF PhiTables, InsTables, ArgsOf
<1> HIDE DEF xphi, xins, xarg
<1>4. /\ q.phi = xphi /\ q.ins = xins /\ q.arg = xarg
      /\ q.s1 = out.s1 /\ q.s2 = out.s2 /\ q.jmp = out.jmp
  BY <1>1, <1>2 DEF Fields
<1> QED
  BY <1>3, <1>4 DEF q, phis, inss, kept

(* What a jnz that became a jmp is.                                        *)
LEMMA JnzParts ==
  ASSUME Typed, NEW p \in Functions(prog.n), Consistent(p), NEW b \in Blocks(prog)
  PROVE  LET r == JnzToJmp(p, b)
         IN /\ r.jmp[b] = "jmp" /\ r.ins[b] = p.ins[b] /\ PhisAlike(r, p, b)
            /\ r.s1[b] = IF p.arg[b] = 0 THEN p.s2[b] ELSE p.s1[b]
<1>1. PICK k \in {0, 1} : k = DeadSucc(p, b) /\ (k = 0 <=> p.arg[b] = 0)
  BY DEF DeadSucc
<1> DEFINE q == EdgeDel(p, b, k)
<1> DEFINE q1 == IF k = 0 THEN [q EXCEPT !.s1[b] = q.s2[b], !.s2[b] = Gone] ELSE q
<1> DEFINE r == [q1 EXCEPT !.jmp[b] = "jmp", !.arg[b] = 0]
<1>2. EdgeGone(q, p, b, k)
  BY EdgeDelIs
<1>3. JnzToJmp(p, b) = r
  BY <1>1 DEF JnzToJmp
<1> HIDE DEF q
<1>4. /\ DOMAIN q = Fields /\ q.s1 \in TargetsOf(prog.n) /\ q.s2 \in TargetsOf(prog.n)
      /\ q.jmp \in JmpsOf(prog.n) /\ Blocks(prog) = 0..prog.n - 1
  BY <1>2, PutIs, RecordIs, ProgIs DEF EdgeGone, TargetsOf, JmpsOf
<1>5. /\ k = 0 => q.s2[b] = p.s2[b]
      /\ k = 1 => q.s1[b] = p.s1[b]
      /\ q.ins[b] = p.ins[b] /\ PhisAlike(q, p, b)
  BY <1>2 DEF EdgeGone
<1>6. /\ DOMAIN q1 = Fields /\ q1.phi = q.phi /\ q1.ins = q.ins /\ q1.jmp = q.jmp
      /\ q1.s1[b] = IF k = 0 THEN q.s2[b] ELSE q.s1[b]
  <2>1. CASE k = 0
    <3> DEFINE x1 == [q.s1 EXCEPT ![b] = q.s2[b]]
    <3> DEFINE x2 == [q.s2 EXCEPT ![b] = Gone]
    <3>1. q1 = [q EXCEPT !.s1 = x1, !.s2 = x2]
      BY <2>1
    <3>2. x1[b] = q.s2[b]
      BY <1>4 DEF TargetsOf
    <3> HIDE DEF x1, x2, q1
    <3> QED
      BY <3>1, <3>2, <2>1, <1>4 DEF Fields
  <2>2. CASE k # 0
    BY <2>2, <1>4
  <2> QED
    BY <2>1, <2>2
<1> HIDE DEF q1
<1>7. /\ r.phi = q1.phi /\ r.ins = q1.ins /\ r.s1 = q1.s1 /\ r.jmp[b] = "jmp"
  <2> DEFINE xjmp == [q1.jmp EXCEPT ![b] = "jmp"]
  <2> DEFINE xarg == [q1.arg EXCEPT ![b] = 0]
  <2>1. r = [q1 EXCEPT !.jmp = xjmp, !.arg = xarg]
    OBVIOUS
  <2>2. xjmp[b] = "jmp"
    BY <1>4, <1>6 DEF JmpsOf
  <2> HIDE DEF xjmp, xarg, r
  <2> QED
    BY <2>1, <2>2, <1>6 DEF Fields
<1> HIDE DEF r
<1>8. PhisAlike(r, p, b)
  BY <1>5, <1>6, <1>7 DEF PhisAlike
<1> QED
  BY <1>1, <1>3, <1>5, <1>6, <1>7, <1>8

(* What a phi's arguments are after it was trimmed.                        *)
LEMMA TrimPhiParts ==
  ASSUME NEW N \in Nat, NEW f \in PhisOf(N), NEW b
  PROVE  /\ TrimPhi(f, b).to = f.to /\ TrimPhi(f, b).blk = f.blk
         /\ \A a \in DOMAIN f.arg : ~DeadEdge(f.blk[a], b) => TrimPhi(f, b).arg[a] = RenRef(f.arg[a])
<1> DEFINE x == [a \in DOMAIN f.arg |-> IF DeadEdge(f.blk[a], b) THEN f.arg[a] ELSE RenRef(f.arg[a])]
<1>1. TrimPhi(f, b) = [f EXCEPT !.arg = x]
  BY DEF TrimPhi
<1>2. \A a \in DOMAIN f.arg : ~DeadEdge(f.blk[a], b) => x[a] = RenRef(f.arg[a])
  OBVIOUS
<1> HIDE DEF x
<1>3. TrimPhi(f, b).to = f.to /\ TrimPhi(f, b).blk = f.blk /\ TrimPhi(f, b).arg = x
  BY <1>1 DEF PhisOf
<1> QED
  BY <1>2, <1>3

(* Replacing the constants of a block like the one found trims it.         *)
LEMMA RenamedTrims ==
  ASSUME Typed, out \in Functions(prog.n), Consistent(out), NEW b \in Blocks(prog), Like(out, prog, b)
  PROVE  PhisTrimmed(Renamed(b), b)
<1> DEFINE N == prog.n
<1> DEFINE q == Renamed(b)
<1> DEFINE K == {j \in DOMAIN out.phi[b] : val[out.phi[b][j].to] = Bot}
<1> DEFINE kept == Keep(out.phi[b], K)
<1>1. N \in Nat /\ b \in 0..N - 1 /\ out.phi \in [0..N - 1 -> Seq(PhisOf(N))]
  BY ProgIs, RecordIs
<1>2. out.phi[b] \in Seq(PhisOf(N)) /\ DOMAIN out.phi[b] = 1..Len(out.phi[b])
  BY <1>1
<1>3. q.phi[b] = [j \in DOMAIN kept |-> TrimPhi(kept[j], b)]
  BY RenamedParts
<1> HIDE DEF q, K
<1>4. /\ kept \in Seq(PhisOf(N))
      /\ \A e \in ToSet(kept) : \E x \in 1..Len(out.phi[b]) : x \in K /\ out.phi[b][x] = e
      /\ \A x \in 1..Len(out.phi[b]) : x \in K => out.phi[b][x] \in ToSet(kept)
  BY <1>2, KeepIs
<1> HIDE DEF kept
<1>5. /\ DOMAIN kept = 1..Len(kept)
      /\ \A j \in 1..Len(kept) : kept[j] \in PhisOf(N) /\ kept[j] \in ToSet(kept)
      /\ \A e \in ToSet(kept) : \E j \in 1..Len(kept) : kept[j] = e
  BY <1>4, ListIs
<1>6. \A j \in 1..Len(kept) : q.phi[b][j] = TrimPhi(kept[j], b) /\ DOMAIN q.phi[b] = 1..Len(kept)
  BY <1>3, <1>5
<1>7. ASSUME NEW j \in DOMAIN prog.phi[b], val[prog.phi[b][j].to] = Bot
      PROVE  \E k \in DOMAIN q.phi[b] : q.phi[b][k].to = prog.phi[b][j].to
  <2>1. j \in DOMAIN out.phi[b] /\ out.phi[b][j].to = prog.phi[b][j].to
    BY DEF Like, PhisAlike
  <2>2. out.phi[b][j] \in ToSet(kept)
    BY <2>1, <1>2, <1>4, <1>7 DEF K
  <2>3. PICK k \in 1..Len(kept) : kept[k] = out.phi[b][j]
    BY <2>2, <1>5
  <2>4. TrimPhi(kept[k], b).to = kept[k].to
    BY <1>1, <1>5, TrimPhiParts
  <2> QED
    BY <2>1, <2>3, <2>4, <1>6
<1>8. ASSUME NEW k \in DOMAIN q.phi[b]
      PROVE  \E j \in DOMAIN prog.phi[b] :
               /\ q.phi[b][k].to = prog.phi[b][j].to /\ val[prog.phi[b][j].to] = Bot
               /\ \A a \in DOMAIN q.phi[b][k].blk : \E c \in DOMAIN prog.phi[b][j].blk :
                    /\ q.phi[b][k].blk[a] = prog.phi[b][j].blk[c]
                    /\ ~DeadEdge(prog.phi[b][j].blk[c], b) => q.phi[b][k].arg[a] = RenRef(prog.phi[b][j].arg[c])
  <2>1. k \in 1..Len(kept) /\ q.phi[b][k] = TrimPhi(kept[k], b)
    BY <1>3, <1>5
  <2>2. PICK j \in DOMAIN out.phi[b] : j \in K /\ out.phi[b][j] = kept[k]
    BY <2>1, <1>2, <1>4, <1>5
  <2> DEFINE f == kept[k]
  <2>3. f \in PhisOf(N) /\ Len(f.blk) = Len(f.arg)
    BY <2>1, <2>2, <1>5 DEF Consistent
  <2>4. f.blk \in Seq(0..N - 1) /\ f.arg \in Seq(Operands)
    BY <2>3 DEF PhisOf
  <2>5. DOMAIN f.blk = DOMAIN f.arg
    BY <2>3, <2>4
  <2>6. /\ TrimPhi(f, b).to = f.to /\ TrimPhi(f, b).blk = f.blk
        /\ \A a \in DOMAIN f.arg : ~DeadEdge(f.blk[a], b) => TrimPhi(f, b).arg[a] = RenRef(f.arg[a])
    BY <1>1, <2>3, TrimPhiParts
  <2>7. /\ j \in DOMAIN prog.phi[b] /\ f.to = prog.phi[b][j].to
        /\ \A a \in DOMAIN f.blk : \E c \in DOMAIN prog.phi[b][j].blk :
             f.blk[a] = prog.phi[b][j].blk[c] /\ f.arg[a] = prog.phi[b][j].arg[c]
    BY <2>2 DEF Like, PhisAlike
  <2>8. val[f.to] = Bot
    BY <2>2 DEF K
  <2> HIDE DEF f
  <2>9. ASSUME NEW a \in DOMAIN q.phi[b][k].blk
        PROVE  \E c \in DOMAIN prog.phi[b][j].blk :
                 /\ q.phi[b][k].blk[a] = prog.phi[b][j].blk[c]
                 /\ ~DeadEdge(prog.phi[b][j].blk[c], b) => q.phi[b][k].arg[a] = RenRef(prog.phi[b][j].arg[c])
    <3>1. q.phi[b][k] = TrimPhi(f, b)
      BY <2>1 DEF f
    <3>2. a \in DOMAIN f.blk /\ q.phi[b][k].blk[a] = f.blk[a]
      BY <3>1, <2>6
    <3>3. PICK c \in DOMAIN prog.phi[b][j].blk : f.blk[a] = prog.phi[b][j].blk[c] /\ f.arg[a] = prog.phi[b][j].arg[c]
      BY <3>2, <2>7
    <3>4. ~DeadEdge(f.blk[a], b) => q.phi[b][k].arg[a] = RenRef(f.arg[a])
      BY <3>1, <3>2, <2>5, <2>6
    <3> QED
      BY <3>2, <3>3, <3>4
  <2> QED
    BY <2>1, <2>6, <2>7, <2>8, <2>9 DEF f
<1> QED
  BY <1>7, <1>8 DEF PhisTrimmed, q

(* What TrimLive leaves of its block.                                      *)
LEMMA BlockTrimmed ==
  ASSUME Typed, out \in Functions(prog.n), Consistent(out), NEW b \in Blocks(prog),
         TrimAsserts(b), Like(out, prog, b)
  PROVE  LET p == Renamed(b) IN Trimmed(IF ConstJnz(p, b) THEN JnzToJmp(p, b) ELSE p, b)
<1> DEFINE p == Renamed(b)
<1>1. PhisTrimmed(p, b)
  BY RenamedTrims
<1>2. /\ p.ins[b] = [j \in DOMAIN out.ins[b] |-> TrimIns(out.ins[b][j])]
      /\ p.arg[b] = RenRef(out.arg[b]) /\ p.s1[b] = out.s1[b] /\ p.s2[b] = out.s2[b]
      /\ p.jmp[b] = out.jmp[b]
  BY RenamedParts
<1>3. Changed(p, out, b)
  BY RenamedIs
<1> HIDE DEF p
<1>4. /\ p.ins[b] = [j \in DOMAIN prog.ins[b] |-> TrimIns(prog.ins[b][j])]
      /\ p.arg[b] = RenRef(prog.arg[b]) /\ p.s1[b] = prog.s1[b] /\ p.s2[b] = prog.s2[b]
      /\ p.jmp[b] = prog.jmp[b]
  BY <1>2 DEF Like
<1>5. ASSUME ~ConstJnz(p, b) PROVE Trimmed(p, b)
  <2>1. JmpTrimmed(p, b)
    BY <1>4, <1>5 DEF JmpTrimmed, ConstJnz
  <2> QED
    BY <2>1, <1>1, <1>4 DEF Trimmed
<1>6. ASSUME ConstJnz(p, b) PROVE Trimmed(JnzToJmp(p, b), b)
  <2> DEFINE r == JnzToJmp(p, b)
  <2>1. p \in Functions(prog.n) /\ Consistent(p)
    BY <1>3 DEF Changed
  <2>2. /\ r.jmp[b] = "jmp" /\ r.ins[b] = p.ins[b] /\ PhisAlike(r, p, b)
        /\ r.s1[b] = IF p.arg[b] = 0 THEN p.s2[b] ELSE p.s1[b]
    BY <2>1, JnzParts
  <2> HIDE DEF r
  <2>3. PhisTrimmed(r, b)
    BY <1>1, <2>2, PhisStayTrimmed
  <2>4. JmpTrimmed(r, b)
    BY <1>4, <1>6, <2>2 DEF JmpTrimmed, ConstJnz
  <2> QED
    BY <2>2, <2>3, <2>4, <1>4 DEF Trimmed, r
<1> QED
  BY <1>5, <1>6 DEF p

(* Every block phase 2 is past is trimmed, if it stays.                    *)
Past == {prog.link[k] : k \in 1..i - 1}
OutTrimmed ==
  /\ pc = "trim" => \A b \in Past : visit[b] # 0 => Trimmed(out, b)
  /\ pc = "done" => \A b \in Blocks(prog) : visit[b] # 0 => Trimmed(out, b)

(* Phase 1 ends in one step only.                                          *)
LEMMA SearchEnds ==
  ASSUME Typed, Search, pc' \in {"trim", "done"}
  PROVE  pc' = "trim" /\ i' = 1
<1>1. PopUse => pc' \in {"loop", "UPhi", "UIns", "UJmp"}
  <2> SUFFICES ASSUME PopUse PROVE pc' \in {"loop", "UPhi", "UIns", "UJmp"}
    OBVIOUS
  <2>1. usewrk # <<>> /\ pc' = IF visit[LastUse.bid] = 0 THEN "loop" ELSE LastUse.type
    BY DEF PopUse
  <2>2. usewrk \in Seq(AllUses(prog))
    BY DEF Typed
  <2> DEFINE A == AllUses(prog)
  <2> DEFINE l == Len(usewrk)
  <2> HIDE DEF A
  <2>3. usewrk[l] \in A
    <3>1. usewrk \in Seq(A) /\ usewrk # <<>>
      BY <2>1, <2>2 DEF A
    <3> QED
      BY <3>1
  <2>4. LastUse \in AllUses(prog)
    BY <2>3 DEF LastUse, A
  <2>5. LastUse.type \in {"UPhi", "UIns", "UJmp"}
    BY <2>4, UseIs
  <2> QED
    BY <2>1, <2>5
<1>2. pc' \notin {"loop", "ins", "left", "phi", "abort", "UPhi", "UIns", "UJmp"}
  OBVIOUS
<1>3. ~PopEdge /\ ~EdgePhi /\ ~EdgePhisSeen /\ ~EdgeIns /\ ~EdgeJmp /\ ~EdgeLeft
  BY <1>2 DEF PopEdge, EdgePhi, EdgePhisSeen, EdgeIns, EdgeJmp, EdgeLeft, VisitJmp
<1>4. ~PopUse /\ ~UsePhi /\ ~UseIns /\ ~UseJmp
  BY <1>1, <1>2 DEF UsePhi, UseIns, UseJmp, VisitJmp
<1> QED
  BY <1>3, <1>4 DEF Search, SearchDone

(* What a block becomes is about the function, the values and the dead     *)
(* edges only.                                                             *)
LEMMA SameTrim ==
  ASSUME prog' = prog, val' = val, dead' = dead
  PROVE  /\ \A x : RenRef(x)' = RenRef(x)
         /\ \A a, d : DeadEdge(a, d)' <=> DeadEdge(a, d)
         /\ \A s : TrimIns(s)' = TrimIns(s)
<1>1. \A x : RenRef(x)' = RenRef(x)
  BY DEF RenRef, LatVal
<1>2. \A a, d : DeadEdge(a, d)' <=> DeadEdge(a, d)
  BY DEF DeadEdge, Succ
<1>3. ASSUME NEW s PROVE TrimIns(s)' = TrimIns(s)
  <2>1. CASE val[s.to] # Bot
    BY <2>1 DEF TrimIns
  <2>2. CASE val[s.to] = Bot
    <3>1. TrimIns(s) = [s EXCEPT !.arg = [x \in DOMAIN s.arg |-> RenRef(s.arg[x])]]
      BY <2>2 DEF TrimIns
    <3>2. TrimIns(s)' = [s EXCEPT !.arg = [x \in DOMAIN s.arg |-> RenRef(s.arg[x])']]
      BY <2>2 DEF TrimIns
    <3>3. [x \in DOMAIN s.arg |-> RenRef(s.arg[x])'] = [x \in DOMAIN s.arg |-> RenRef(s.arg[x])]
      BY <1>1
    <3> QED
      BY <3>1, <3>2, <3>3
  <2> QED
    BY <2>1, <2>2
<1> QED
  BY <1>1, <1>2, <1>3

LEMMA TrimmedNext ==
  ASSUME prog' = prog, val' = val, dead' = dead, NEW b, Trimmed(out', b)
  PROVE  Trimmed(out, b)'
<1>1. /\ \A x : RenRef(x)' = RenRef(x)
      /\ \A a, d : DeadEdge(a, d)' <=> DeadEdge(a, d)
      /\ \A s : TrimIns(s)' = TrimIns(s)
  BY SameTrim
<1>2. out'.ins[b] = [j \in DOMAIN prog.ins[b] |-> TrimIns(prog.ins[b][j])']
  <2>1. [j \in DOMAIN prog.ins[b] |-> TrimIns(prog.ins[b][j])'] = [j \in DOMAIN prog.ins[b] |-> TrimIns(prog.ins[b][j])]
    BY <1>1
  <2> QED
    BY <2>1 DEF Trimmed
<1>3. PhisTrimmed(out, b)'
  <2>1. PhisTrimmed(out', b)
    BY DEF Trimmed
  <2> QED
    BY <2>1, <1>1 DEF PhisTrimmed
<1>4. JmpTrimmed(out, b)'
  BY <1>1 DEF Trimmed, JmpTrimmed
<1> QED
  BY <1>2, <1>3, <1>4 DEF Trimmed

(* Phase 2 goes to the next block, which is trimmed if it stays.           *)
LEMMA TrimStep ==
  ASSUME Typed, OutTrimmed, pc = "trim", pc' = "trim", prog' = prog, val' = val, dead' = dead,
         visit' = visit, i <= Len(prog.link), i' = i + 1, Changed(out', out, prog.link[i]),
         visit[prog.link[i]] # 0 => Trimmed(out', prog.link[i])
  PROVE  OutTrimmed'
<1>1. i \in Nat \ {0} /\ Len(prog.link) \in Nat
  BY LinkAt DEF Typed
<1>2. ASSUME NEW b \in Past', visit[b] # 0 PROVE Trimmed(out, b)'
  <2>1. PICK k \in 1..i : b = prog.link[k]
    BY <1>1 DEF Past
  <2>2. CASE k = i
    BY <1>2, <2>1, <2>2, TrimmedNext
  <2>3. CASE k # i
    <3>1. k \in 1..i - 1 /\ k \in 1..Len(prog.link) /\ i \in 1..Len(prog.link)
      BY <2>1, <2>3, <1>1
    <3>2. Trimmed(out, b)
      BY <2>1, <3>1, <1>2 DEF OutTrimmed, Past
    <3>3. b # prog.link[i] /\ b \in Blocks(prog)
      BY <2>1, <2>3, <3>1, LinkAt
    <3>4. Like(out', out, b)
      BY <3>3 DEF Changed
    <3>5. Trimmed(out', b)
      BY <3>2, <3>4, StaysTrimmed
    <3> QED
      BY <3>5, TrimmedNext
  <2> QED
    BY <2>2, <2>3
<1>3. (\A b \in Past : visit[b] # 0 => Trimmed(out, b))'
  BY <1>2
<1> QED
  BY <1>3 DEF OutTrimmed

(* Phase 2 trims every block that stays, one by one.                       *)
LEMMA StepTrims ==
  ASSUME IInv, OutTrimmed, Next
  PROVE  OutTrimmed'
<1>0. SearchInv /\ Typed /\ OutOK
  BY DEF IInv, SearchInv
<1>1. CASE Search
  <2>1. CASE pc' \in {"trim", "done"}
    <3>1. pc' = "trim" /\ i' = 1
      BY <1>0, <1>1, <2>1, SearchEnds
    <3>2. Past' = {}
      BY <3>1 DEF Past
    <3> QED
      BY <3>1, <3>2 DEF OutTrimmed
  <2>2. CASE pc' \notin {"trim", "done"}
    BY <2>2 DEF OutTrimmed
  <2> QED
    BY <2>1, <2>2
<1>2. CASE TrimLive
  <2>1. LET b == prog.link[i]
            p == Renamed(b)
        IN /\ b \in Blocks(prog) /\ visit[b] # 0 /\ Like(out, prog, b) /\ TrimAsserts(b)
           /\ out' = IF ConstJnz(p, b) THEN JnzToJmp(p, b) ELSE p
           /\ i' = i + 1 /\ pc' = "trim" /\ Changed(out', out, b)
    BY <1>2, TrimLiveDoes
  <2>2. /\ prog' = prog /\ val' = val /\ dead' = dead /\ visit' = visit
        /\ pc = "trim" /\ i <= Len(prog.link)
    BY <1>2 DEF TrimLive
  <2> DEFINE b == prog.link[i]
  <2>3. out \in Functions(prog.n) /\ Consistent(out)
    BY <1>0 DEF OutOK
  <2>4. Trimmed(out', b)
    BY <1>0, <2>1, <2>3, BlockTrimmed
  <2> QED
    BY <1>0, <2>1, <2>2, <2>4, TrimStep
<1>3. CASE TrimDead
  <2>1. /\ prog.link[i] \in Blocks(prog) /\ visit[prog.link[i]] = 0
        /\ i' = i + 1 /\ pc' = "trim" /\ Changed(out', out, prog.link[i])
    BY <1>3, TrimDeadDoes
  <2>2. /\ prog' = prog /\ val' = val /\ dead' = dead /\ visit' = visit
        /\ pc = "trim" /\ i <= Len(prog.link)
    BY <1>3 DEF TrimDead
  <2> QED
    BY <1>0, <2>1, <2>2, TrimStep
<1>4. CASE TrimEnd
  <2>1. /\ prog' = prog /\ val' = val /\ dead' = dead /\ visit' = visit /\ out' = out
        /\ pc = "trim" /\ pc' = "done" /\ i > Len(prog.link)
    BY <1>4 DEF TrimEnd
  <2>2. ASSUME NEW b \in Blocks(prog), visit[b] # 0 PROVE Trimmed(out, b)'
    <3>1. ToSet(prog.link) = Blocks(prog) /\ prog.link \in Seq(0..prog.n - 1)
      BY <1>0, ProgIs, RecordIs DEF WellFormed
    <3>2. PICK k \in 1..Len(prog.link) : prog.link[k] = b
      BY <3>1, ListIs
    <3>3. Len(prog.link) \in Nat /\ i \in Nat
      BY <1>0, LinkAt DEF Typed
    <3>4. k \in 1..i - 1
      BY <2>1, <3>2, <3>3
    <3>5. Trimmed(out, b)
      BY <2>1, <2>2, <3>2, <3>4 DEF OutTrimmed, Past
    <3>6. Trimmed(out', b)
      BY <2>1, <3>5
    <3> QED
      BY <2>1, <3>6, TrimmedNext
  <2>3. (\A b \in Blocks(prog) : visit[b] # 0 => Trimmed(out, b))'
    BY <2>1, <2>2
  <2> QED
    BY <2>1, <2>3 DEF OutTrimmed
<1>5. CASE Stopped
  <2>1. /\ prog' = prog /\ val' = val /\ dead' = dead /\ visit' = visit /\ out' = out
        /\ pc' = pc /\ pc \in {"done", "abort"}
    BY <1>5 DEF Stopped, vars
  <2>2. ASSUME NEW b \in Blocks(prog), pc = "done", visit[b] # 0 PROVE Trimmed(out, b)'
    <3>1. Trimmed(out', b)
      BY <2>1, <2>2 DEF OutTrimmed
    <3> QED
      BY <2>1, <3>1, TrimmedNext
  <2>3. (pc = "done" => \A b \in Blocks(prog) : visit[b] # 0 => Trimmed(out, b))'
    BY <2>1, <2>2
  <2>4. pc' # "trim"
    BY <2>1
  <2> QED
    BY <2>3, <2>4 DEF OutTrimmed
<1> QED
  BY <1>1, <1>2, <1>3, <1>4, <1>5 DEF Next, Trim
-----------------------------------------------------------------------------
(* The execution: where it is, what it has computed, what fold says of it. *)
Has(t) == env[t] # Undef
Reached(b) == Available(prog, b) \cup PhiDefs(prog, b)
XTyped ==
  /\ xpc \in {"enter", "ins", "end"}
  /\ at \in Blocks(prog) /\ from \in Blocks(prog) \cup {Gone} /\ xi \in Nat \ {0}
  /\ env \in [Temps -> Nat \cup {Undef}] /\ DOMAIN env2 = Temps
  /\ xpc = "ins" => xi <= Len(prog.ins[at]) + 1
XStart ==
  /\ xpc = "enter" /\ at = 0 /\ from = Gone
  /\ \A t \in Temps : env[t] = Undef /\ env2[t] = Undef

(* It stays on the edges found executable.                                 *)
OnPath ==
  /\ visit[at] > 0
  /\ from # Gone => ~DeadEdge(from, at)
  /\ xpc = "enter" /\ from = Gone => at = 0

(* Every temporary a statement may use has been given a value.             *)
Ready ==
  /\ xpc = "enter" /\ from # Gone => \A t \in Available(prog, from) \cup Defs(prog, from) : Has(t)
  /\ xpc = "ins" => /\ \A t \in Reached(at) : Has(t)
                    /\ \A k \in 1..xi - 1 : Has(prog.ins[at][k].to)

(* What fold found constant is, and the temporaries it kept are the same   *)
(* in the function it leaves, which has the edge just taken.               *)
Agrees == \A t \in Temps : Has(t) /\ val[t] # Bot => env[t] = val[t]
Matches == xpc # "end" => \A t \in Temps : val[t] = Bot => env2[t] = env[t]
OnEdge == xpc = "enter" /\ from # Gone => at \in Succs(out, from)

XInv ==
  /\ IInv /\ OutTrimmed /\ XTyped
  /\ pc # "done" => XStart
  /\ pc = "done" => OnPath /\ Ready /\ Agrees /\ Matches /\ OnEdge

(* A use that a definition dominates is ready, and is what fold says.      *)
LEMMA EvalIs ==
  ASSUME Typed, XTyped, Agrees, NEW x \in Operands, x \in Temps => Has(x)
  PROVE  /\ Eval(env, x) \in Nat
         /\ LatVal(x) # Bot => Eval(env, x) = LatVal(x)
<1>1. CASE x \in Temps
  BY <1>1 DEF Eval, Has, XTyped, Agrees, LatVal
<1>2. CASE x \notin Temps
  BY <1>2, LatIs DEF Eval
<1> QED
  BY <1>1, <1>2

(* Both functions see the same operand.                                    *)
LEMMA SameOperand ==
  ASSUME Typed, XTyped, Agrees, Matches, xpc # "end", NEW x \in Operands, x \in Temps => Has(x)
  PROVE  /\ Eval(env2, RenRef(x)) = Eval(env, x)
         /\ RenRef(x) \in Temps <=> LatVal(x) = Bot
         /\ LatVal(x) = Bot => x \in Temps /\ RenRef(x) = x
         /\ LatVal(x) # Bot => RenRef(x) = Eval(env, x)
<1>1. Eval(env, x) \in Nat /\ (LatVal(x) # Bot => Eval(env, x) = LatVal(x))
  BY EvalIs
<1>2. CASE LatVal(x) = Bot
  <2>1. x \in Temps /\ val[x] = Bot
    BY <1>2, LatIs DEF LatVal
  <2>2. env2[x] = env[x]
    BY <2>1 DEF Matches
  <2> QED
    BY <1>2, <2>1, <2>2 DEF RenRef, Eval
<1>3. CASE LatVal(x) # Bot
  <2>1. RenRef(x) = LatVal(x) /\ LatVal(x) \in Nat
    BY <1>1, <1>3 DEF RenRef
  <2>2. LatVal(x) \notin Temps
    BY <2>1, SccpAssumption
  <2> QED
    BY <1>1, <1>3, <2>1, <2>2 DEF Eval
<1> QED
  BY <1>2, <1>3

(* A definition that dominates a block dominates its predecessors, but for *)
(* the predecessor's own.                                                  *)
LEMMA AvailableVia ==
  ASSUME NEW a \in Blocks(prog), NEW b \in Blocks(prog), b \in Succs(prog, a)
  PROVE  Available(prog, b) \subseteq Available(prog, a) \cup Defs(prog, a)
<1> SUFFICES ASSUME NEW t \in Available(prog, b), t \notin Defs(prog, a)
             PROVE  t \in Available(prog, a)
  OBVIOUS
<1>1. PICK d \in Blocks(prog) : SDom(prog, d, b) /\ t \in Defs(prog, d)
  BY DEF Available
<1>2. PICK S \in SUBSET (Blocks(prog) \ {b, d}) : Closed(prog, S, d)
  BY <1>1 DEF SDom
<1>3. a # d /\ d # b
  BY <1>1 DEF SDom
<1>4. a \notin S
  BY <1>2, <1>3 DEF Closed
<1>5. S \in SUBSET (Blocks(prog) \ {a, d})
  BY <1>2, <1>4
<1>6. SDom(prog, d, a)
  BY <1>2, <1>3, <1>5 DEF SDom
<1> QED
  BY <1>1, <1>6 DEF Available

(* What blocks define is temporaries.                                      *)
LEMMA DefsAre ==
  ASSUME Typed, NEW b \in Blocks(prog)
  PROVE  Available(prog, b) \subseteq Temps /\ Defs(prog, b) \subseteq Temps /\ PhiDefs(prog, b) \subseteq Temps
<1>1. \A c \in Blocks(prog) : Defs(prog, c) \subseteq Temps /\ PhiDefs(prog, c) \subseteq Temps
  BY PhiAt, InsAt DEF Defs, PhiDefs, InsDefs
<1> QED
  BY <1>1 DEF Available

(* Nothing dominates the start block.                                      *)
LEMMA NothingAtStart == ASSUME Typed PROVE Reached(0) = {}
<1>1. ASSUME NEW d, SDom(prog, d, 0) PROVE FALSE
  BY <1>1 DEF SDom, Closed
<1>2. Available(prog, 0) = {}
  BY <1>1 DEF Available
<1>3. PhiDefs(prog, 0) = {}
  BY ProgIs DEF PhiDefs, WellFormed
<1> QED
  BY <1>2, <1>3 DEF Reached

(* What the search found, once it is over.                                 *)
LEMMA Results ==
  ASSUME SearchInv, pc = "done"
  PROVE  /\ visit[0] > 0
         /\ \A a, b \in Blocks(prog) : ~DeadEdge(a, b) => visit[b] > 0 /\ b \in Succs(prog, a)
         /\ \A b \in Blocks(prog) : \A k \in {0, 1} : visit[b] > 0 /\ Takes(b, k) => ~dead[<<b, k>>]
         /\ \A b \in Blocks(prog) : visit[b] > 0 =>
              /\ \A j \in DOMAIN prog.phi[b] : val[prog.phi[b][j].to] = PhiValue(prog.phi[b][j], b)
              /\ \A j \in DOMAIN prog.ins[b] : val[prog.ins[b][j].to] = InsValue(prog.ins[b][j])
<1>1. /\ \A b \in Blocks(prog) : (Came(b) <=> visit[b] > 0) /\ (Seen(b) <=> visit[b] > 0)
      /\ Listed = {} /\ \A type, b, j : type \notin {"trim", "done"} => ~Pending(type, b, j)
  BY SearchOver DEF Searching
<1>2. Typed /\ EdgesOK /\ UpToDate
  BY DEF SearchInv
<1>3. visit[0] > 0
  <2>1. Start \in Edges(prog) /\ Dest(Start) = 0 /\ 0 \in Blocks(prog)
    BY <1>2, EdgeIs, ProgIs
  <2>2. ~dead[Start]
    BY <1>1, <1>2 DEF EdgesOK
  <2>3. Came(0)
    BY <1>2, <2>1, <2>2 DEF EdgesOK
  <2> QED
    BY <1>1, <2>1, <2>3
<1>4. \A a, b \in Blocks(prog) : ~DeadEdge(a, b) => visit[b] > 0 /\ b \in Succs(prog, a)
  BY <1>1, <1>2, AliveFrom
<1>5. ASSUME NEW b \in Blocks(prog), NEW k \in {0, 1}, visit[b] > 0, Takes(b, k)
      PROVE  ~dead[<<b, k>>]
  <2>1. EdgeAlive(b, k)
    BY <1>2, <1>5, AliveIs
  <2> QED
    BY <1>1, <1>2, <1>5, <2>1 DEF UpToDate
<1>6. ASSUME NEW b \in Blocks(prog), visit[b] > 0
      PROVE  /\ \A j \in DOMAIN prog.phi[b] : val[prog.phi[b][j].to] = PhiValue(prog.phi[b][j], b)
             /\ \A j \in DOMAIN prog.ins[b] : val[prog.ins[b][j].to] = InsValue(prog.ins[b][j])
  BY <1>1, <1>2, <1>6 DEF UpToDate
<1> QED
  BY <1>3, <1>4, <1>5, <1>6

-----------------------------------------------------------------------------
(* What runs once fold is done.                                            *)
XDone ==
  IInv /\ OutTrimmed /\ XTyped /\ pc = "done" /\ OnPath /\ Ready /\ Agrees /\ Matches /\ OnEdge
Run == prog' = prog /\ out' = out /\ val' = val /\ dead' = dead /\ visit' = visit /\ pc' = pc

LEMMA DoneIs ==
  ASSUME XDone
  PROVE  /\ SearchInv /\ Typed /\ out \in Functions(prog.n) /\ Consistent(out)
         /\ Blocks(prog) = 0..prog.n - 1 /\ prog.n \in Nat
         /\ Trimmed(out, at)
<1>1. SearchInv /\ Typed /\ out \in Functions(prog.n) /\ Consistent(out)
  BY DEF XDone, IInv, SearchInv, OutOK
<1>2. Blocks(prog) = 0..prog.n - 1 /\ prog.n \in Nat
  BY <1>1, ProgIs
<1>3. visit[at] # 0 /\ at \in Blocks(prog)
  BY DEF XDone, OnPath, XTyped
<1>4. Trimmed(out, at)
  BY <1>3 DEF XDone, OutTrimmed
<1> QED
  BY <1>1, <1>2, <1>4

(* The argument a phi takes is that of the edge just taken, and is ready.  *)
LEMMA PhiOperand ==
  ASSUME XDone, xpc = "enter", NEW j \in DOMAIN prog.phi[at]
  PROVE  LET f == prog.phi[at][j]
             a == ArgOf(f, from)
         IN /\ from \in Blocks(prog) /\ from # Gone /\ ~DeadEdge(from, at)
            /\ a \in DOMAIN f.blk /\ f.blk[a] = from /\ f.arg[a] \in Operands
            /\ f.arg[a] \in Temps => Has(f.arg[a])
            /\ PhiArg(env, f, from) = Eval(env, f.arg[a])
<1> DEFINE f == prog.phi[at][j]
<1> DEFINE a == ArgOf(f, from)
<1>1. Typed /\ SearchInv /\ at \in Blocks(prog) /\ from \in Blocks(prog) \cup {Gone}
  BY DoneIs DEF XDone, XTyped
<1>2. from # Gone
  <2>1. at = 0 => prog.phi[at] = <<>>
    BY <1>1, ProgIs DEF WellFormed
  <2> QED
    BY <2>1 DEF XDone, OnPath
<1>3. from \in Blocks(prog) /\ ~DeadEdge(from, at)
  BY <1>1, <1>2 DEF XDone, OnPath
<1>4. from \in Preds(prog, at)
  <2>1. at \in Succs(prog, from)
    BY <1>1, <1>3, Results DEF XDone
  <2> QED
    BY <1>3, <2>1 DEF Preds
<1>5. /\ ToSet(f.blk) = Preds(prog, at) /\ DOMAIN f.blk = 1..Len(f.blk) /\ Len(f.blk) \in Nat
      /\ \A c \in DOMAIN f.blk : f.blk[c] \in Blocks(prog) /\ f.arg[c] \in Operands
  BY <1>1, PhiAt
<1>6. f.blk \in Seq(Blocks(prog))
  <2>1. prog \in Functions(prog.n) /\ prog.n \in Nat /\ Blocks(prog) = 0..prog.n - 1
    BY <1>1, ProgIs
  <2>2. at \in 0..prog.n - 1
    BY <1>1, <2>1
  <2> QED
    BY <2>1, <2>2, PartsAre
<1> HIDE DEF f
<1>7. a \in 1..Len(f.blk) /\ f.blk[a] = from
  BY <1>4, <1>5, <1>6, ArgOfIs
<1>8. a \in DOMAIN f.blk /\ f.arg[a] \in Operands /\ a # 0
  BY <1>5, <1>7
<1>9. f.arg[a] \in Temps => f.arg[a] \in Available(prog, from) \cup Defs(prog, from)
  BY <1>1, <1>7, <1>8, ProgIs DEF DefinedBefore, f
<1>10. f.arg[a] \in Temps => Has(f.arg[a])
  BY <1>2, <1>9 DEF XDone, Ready
<1>11. PhiArg(env, f, from) = Eval(env, f.arg[a])
  BY <1>8 DEF PhiArg
<1> QED
  BY <1>2, <1>3, <1>7, <1>8, <1>10, <1>11 DEF f

(* What the phis of the function found compute.                            *)
LEMMA PhiDoes ==
  ASSUME XDone, NEW j \in DOMAIN prog.phi[at], NEW e
  PROVE  PhisEval(e, prog.phi[at])[prog.phi[at][j].to] = PhiArg(e, prog.phi[at][j], from)
<1> DEFINE ps == prog.phi[at]
<1> DEFINE k == CHOOSE k \in DOMAIN ps : ps[k].to = ps[j].to
<1>1. k \in DOMAIN ps /\ ps[k].to = ps[j].to
  OBVIOUS
<1>2. Typed /\ at \in Blocks(prog)
  BY DoneIs DEF XDone, XTyped
<1>3. k = j
  BY <1>1, <1>2, ProgIs DEF DefinedOnce
<1>4. ps[j].to \in Temps
  BY <1>2, PhiAt
<1> HIDE DEF ps
<1> QED
  BY <1>3, <1>4 DEF PhisEval, ps

LEMMA PhiLeaves ==
  ASSUME NEW ps, NEW e, NEW t \in Temps, \A j \in DOMAIN ps : ps[j].to # t
  PROVE  PhisEval(e, ps)[t] = e[t]
  BY DEF PhisEval

(* A phi that is not constant is left one phi, with the same argument.     *)
LEMMA PhiKept ==
  ASSUME XDone, xpc = "enter", NEW j \in DOMAIN prog.phi[at], val[prog.phi[at][j].to] = Bot
  PROVE  PhisEval(env2, out.phi[at])[prog.phi[at][j].to] = PhiArg(env, prog.phi[at][j], from)
<1> DEFINE f == prog.phi[at][j]
<1> DEFINE a == ArgOf(f, from)
<1> DEFINE ps == out.phi[at]
<1> DEFINE k == CHOOSE k \in DOMAIN ps : ps[k].to = f.to
<1> DEFINE g == ps[k]
<1> DEFINE c == ArgOf(g, from)
<1>1. /\ from \in Blocks(prog) /\ from # Gone /\ ~DeadEdge(from, at)
      /\ a \in DOMAIN f.blk /\ f.blk[a] = from /\ f.arg[a] \in Operands
      /\ f.arg[a] \in Temps => Has(f.arg[a])
      /\ PhiArg(env, f, from) = Eval(env, f.arg[a])
  BY PhiOperand
<1>2. /\ Typed /\ out \in Functions(prog.n) /\ Consistent(out) /\ prog.n \in Nat
      /\ at \in 0..prog.n - 1 /\ at \in Blocks(prog) /\ PhisTrimmed(out, at)
  BY DoneIs DEF XDone, XTyped, Trimmed
<1>3. IsInjective(f.blk) /\ f.to \in Temps
  BY <1>2, PhiAt
<1>4. k \in DOMAIN ps /\ g.to = f.to
  <2>1. \E x \in DOMAIN ps : ps[x].to = f.to
    BY <1>2 DEF PhisTrimmed
  <2> QED
    BY <2>1
<1> HIDE DEF k
<1>5. \A x \in DOMAIN g.blk : \E y \in DOMAIN f.blk :
        g.blk[x] = f.blk[y] /\ (~DeadEdge(f.blk[y], at) => g.arg[x] = RenRef(f.arg[y]))
  <2>1. PICK z \in DOMAIN prog.phi[at] :
          /\ g.to = prog.phi[at][z].to
          /\ \A x \in DOMAIN g.blk : \E y \in DOMAIN prog.phi[at][z].blk :
               /\ g.blk[x] = prog.phi[at][z].blk[y]
               /\ ~DeadEdge(prog.phi[at][z].blk[y], at) => g.arg[x] = RenRef(prog.phi[at][z].arg[y])
    BY <1>2, <1>4 DEF PhisTrimmed
  <2>2. z = j
    BY <1>2, <1>4, <2>1, ProgIs DEF DefinedOnce
  <2> QED
    BY <2>1, <2>2
<1>6. g.blk \in Seq(Blocks(prog)) /\ DOMAIN g.blk = 1..Len(g.blk)
  <2>1. Blocks(out) = Blocks(prog)
    BY <1>2, SuccessorsAre
  <2> QED
    BY <1>2, <1>4, <2>1, PartsAre
<1>7. from \in ToSet(g.blk)
  <2>1. at \in Succs(out, from)
    BY <1>1 DEF XDone, OnEdge
  <2>2. from \in Preds(out, at)
    BY <1>1, <1>2, <2>1, SuccessorsAre DEF Preds
  <2> QED
    BY <1>2, <1>4, <2>2 DEF Consistent
<1> HIDE DEF f, g
<1>8. c \in DOMAIN g.blk /\ g.blk[c] = from /\ c # 0
  BY <1>6, <1>7, ArgOfIs
<1>9. g.arg[c] = RenRef(f.arg[a])
  <2>1. PICK y \in DOMAIN f.blk :
          g.blk[c] = f.blk[y] /\ (~DeadEdge(f.blk[y], at) => g.arg[c] = RenRef(f.arg[y]))
    BY <1>5, <1>8
  <2>2. y = a
    BY <1>1, <1>3, <1>8, <2>1 DEF IsInjective
  <2> QED
    BY <1>1, <2>1, <2>2
<1>10. PhiArg(env2, g, from) = Eval(env2, RenRef(f.arg[a]))
  BY <1>8, <1>9 DEF PhiArg
<1>11. Eval(env2, RenRef(f.arg[a])) = Eval(env, f.arg[a])
  BY <1>1, <1>2, SameOperand DEF XDone
<1>12. PhisEval(env2, ps)[f.to] = PhiArg(env2, g, from)
  BY <1>3, <1>4 DEF PhisEval, k, g
<1> QED
  BY <1>1, <1>10, <1>11, <1>12 DEF f

LEMMA StutterTrims == ASSUME OutTrimmed, UNCHANGED vars PROVE OutTrimmed'
<1>1. prog' = prog /\ val' = val /\ dead' = dead /\ visit' = visit /\ out' = out /\ pc' = pc /\ i' = i
  BY DEF vars
<1>2. Past' = Past
  BY <1>1 DEF Past
<1>3. ASSUME NEW b, Trimmed(out, b) PROVE Trimmed(out, b)'
  BY <1>1, <1>3, TrimmedNext
<1>4. (pc = "trim" => \A b \in Past : visit[b] # 0 => Trimmed(out, b))'
  BY <1>1, <1>2, <1>3 DEF OutTrimmed
<1>5. (pc = "done" => \A b \in Blocks(prog) : visit[b] # 0 => Trimmed(out, b))'
  BY <1>1, <1>3 DEF OutTrimmed
<1> QED
  BY <1>4, <1>5 DEF OutTrimmed

LEMMA RunKeeps ==
  ASSUME XDone, UNCHANGED vars
  PROVE  /\ IInv' /\ OutTrimmed' /\ Run
         /\ (XTyped' /\ OnPath' /\ Ready' /\ Agrees' /\ Matches' /\ OnEdge') => XInv'
<1>1. Run /\ pc = "done"
  BY DEF Run, vars, XDone
<1>2. IInv' /\ OutTrimmed'
  BY StutterKeeps, StutterTrims DEF XDone
<1> QED
  BY <1>1, <1>2 DEF XInv, Run

(* A phi's value is what fold found, if that is not Bot.                   *)
LEMMA PhiAgrees ==
  ASSUME XDone, xpc = "enter", NEW j \in DOMAIN prog.phi[at]
  PROVE  /\ PhiArg(env, prog.phi[at][j], from) \in Nat
         /\ val[prog.phi[at][j].to] # Bot =>
              PhiArg(env, prog.phi[at][j], from) = val[prog.phi[at][j].to]
<1> DEFINE f == prog.phi[at][j]
<1> DEFINE a == ArgOf(f, from)
<1>1. /\ ~DeadEdge(from, at) /\ a \in DOMAIN f.blk /\ f.blk[a] = from /\ f.arg[a] \in Operands
      /\ f.arg[a] \in Temps => Has(f.arg[a])
      /\ PhiArg(env, f, from) = Eval(env, f.arg[a])
  BY PhiOperand
<1>2. Typed /\ SearchInv /\ at \in Blocks(prog) /\ visit[at] > 0 /\ XTyped /\ Agrees /\ pc = "done"
  BY DoneIs DEF XDone, XTyped, OnPath
<1>3. f.to \in Temps /\ val[f.to] = Join(Heard(f, at)) /\ Heard(f, at) \in SUBSET Vals
  BY <1>2, Results, PhiValueIs, PhiAt
<1> HIDE DEF f, a
<1>4. Eval(env, f.arg[a]) \in Nat /\ (LatVal(f.arg[a]) # Bot => Eval(env, f.arg[a]) = LatVal(f.arg[a]))
  BY <1>1, <1>2, EvalIs
<1>5. Leq(LatVal(f.arg[a]), Join(Heard(f, at)))
  <2>1. LatVal(f.arg[a]) \in Heard(f, at)
    BY <1>1 DEF Heard
  <2> QED
    BY <1>3, <2>1, JoinFacts
<1>6. val[f.to] # Bot => Eval(env, f.arg[a]) = val[f.to]
  BY <1>3, <1>4, <1>5 DEF Leq, Top, Bot
<1> QED
  BY <1>1, <1>4, <1>6 DEF f

LEMMA XPhisKeeps == ASSUME XDone, XPhis PROVE XInv'
<1>1. /\ xpc = "enter" /\ xpc' = "ins" /\ xi' = 1 /\ at' = at /\ from' = from /\ UNCHANGED vars
      /\ env' = PhisEval(env, prog.phi[at]) /\ env2' = PhisEval(env2, out.phi[at])
  BY DEF XPhis
<1>2. /\ Typed /\ SearchInv /\ at \in Blocks(prog) /\ visit[at] > 0 /\ XTyped /\ Agrees /\ Matches
      /\ pc = "done" /\ Trimmed(out, at)
  BY DoneIs DEF XDone, XTyped, OnPath
<1>3. Run /\ IInv' /\ OutTrimmed'
  BY <1>1, RunKeeps
<1>4. ASSUME NEW t \in Temps
      PROVE  /\ env'[t] \in Nat \cup {Undef}
             /\ Has(t) \/ t \in PhiDefs(prog, at) => env'[t] # Undef
             /\ env'[t] # Undef /\ val[t] # Bot => env'[t] = val[t]
             /\ val[t] = Bot => env2'[t] = env'[t]
  <2>1. CASE t \in PhiDefs(prog, at)
    <3>1. PICK j \in DOMAIN prog.phi[at] : prog.phi[at][j].to = t
      BY <2>1 DEF PhiDefs
    <3>2. env'[t] = PhiArg(env, prog.phi[at][j], from)
      BY <1>1, <3>1, PhiDoes
    <3>3. env'[t] \in Nat /\ (val[t] # Bot => env'[t] = val[t])
      BY <1>1, <3>1, <3>2, PhiAgrees
    <3>4. val[t] = Bot => env2'[t] = env'[t]
      BY <1>1, <3>1, <3>2, PhiKept
    <3> QED
      BY <3>3, <3>4 DEF Undef
  <2>2. CASE t \notin PhiDefs(prog, at)
    <3>1. env'[t] = env[t]
      BY <1>1, <2>2, PhiLeaves DEF PhiDefs
    <3>2. env2'[t] = env2[t]
      <4>1. \A k \in DOMAIN out.phi[at] : out.phi[at][k].to # t
        BY <1>2, <2>2 DEF Trimmed, PhisTrimmed, PhiDefs
      <4> QED
        BY <1>1, <4>1, PhiLeaves
    <3> QED
      BY <1>1, <1>2, <2>2, <3>1, <3>2 DEF XTyped, Agrees, Matches, Has
  <2> QED
    BY <2>1, <2>2
<1>5. XTyped'
  <2>1. env' \in [Temps -> Nat \cup {Undef}]
    <3>1. env' = [t \in Temps |-> env'[t]]
      BY <1>1 DEF PhisEval
    <3> HIDE DEF PhisEval
    <3> QED
      BY <1>4, <3>1
  <2>2. DOMAIN env2' = Temps
    BY <1>1 DEF PhisEval
  <2>3. xi' <= Len(prog'.ins[at']) + 1 /\ at' \in Blocks(prog') /\ from' \in Blocks(prog') \cup {Gone}
    <3>1. Len(prog.ins[at]) \in Nat
      <4>1. prog \in Functions(prog.n) /\ prog.n \in Nat /\ at \in 0..prog.n - 1
        BY <1>2, ProgIs
      <4> QED
        BY <4>1, PartsAre
    <3>2. prog' = prog
      BY <1>3 DEF Run
    <3> QED
      BY <1>1, <1>2, <3>1, <3>2 DEF XTyped
  <2> QED
    BY <1>1, <2>1, <2>2, <2>3 DEF XTyped
<1>6. OnPath' /\ OnEdge'
  <2>1. DeadEdge(from, at)' <=> DeadEdge(from, at)
    BY <1>1, <1>3, SameTrim DEF Run
  <2> QED
    BY <1>1, <1>3, <2>1 DEF OnPath, OnEdge, Run, XDone
<1>7. Ready'
  <2>1. ASSUME NEW t \in Reached(at) PROVE env'[t] # Undef
    <3>1. t \in Temps
      BY <1>2, DefsAre DEF Reached
    <3>2. CASE t \in PhiDefs(prog, at)
      BY <1>4, <3>1, <3>2
    <3>3. CASE from = Gone
      <4>1. at = 0
        BY <1>1, <3>3 DEF XDone, OnPath
      <4> QED
        BY <1>2, <2>1, <4>1, NothingAtStart
    <3>4. CASE t \in Available(prog, at) /\ from # Gone
      <4>1. from \in Blocks(prog) /\ ~DeadEdge(from, at)
        BY <1>2, <3>4 DEF XDone, XTyped, OnPath
      <4>2. at \in Succs(prog, from)
        BY <1>2, <4>1, Results
      <4>3. t \in Available(prog, from) \cup Defs(prog, from)
        BY <1>2, <3>4, <4>1, <4>2, AvailableVia
      <4>4. Has(t)
        BY <1>1, <3>4, <4>3 DEF XDone, Ready
      <4> QED
        BY <1>4, <3>1, <4>4
    <3> QED
      BY <2>1, <3>2, <3>3, <3>4 DEF Reached
  <2>2. Reached(at)' = Reached(at) /\ xi' - 1 = 0
    BY <1>1, <1>3 DEF Reached, Run
  <2> QED
    BY <1>1, <2>1, <2>2 DEF Ready, Has
<1>8. Agrees' /\ Matches'
  BY <1>3, <1>4 DEF Agrees, Matches, Has, Run
<1> QED
  BY <1>1, <1>5, <1>6, <1>7, <1>8, RunKeeps

(* What an instruction makes of two numbers.                               *)
ResultOf(op, l, r, loaded) ==
  IF op = "load" THEN loaded ELSE IF op = "xor" THEN (l + r) % 2
  ELSE IF r = 0 THEN Undef ELSE l \div r

LEMMA ResultIs ==
  ASSUME NEW e, NEW s, s.op \in {"xor", "div", "load"}, DOMAIN s.arg = {1, 2}, NEW loaded \in {0, 1},
         Eval(e, s.arg[1]) \in Nat, Eval(e, s.arg[2]) \in Nat
  PROVE  /\ Result(e, s, loaded) = ResultOf(s.op, Eval(e, s.arg[1]), Eval(e, s.arg[2]), loaded)
         /\ Result(e, s, loaded) \in Nat \cup {Undef}
<1> DEFINE l == Eval(e, s.arg[1])
<1> DEFINE r == Eval(e, s.arg[2])
<1>1. ~\E x \in DOMAIN s.arg : Eval(e, s.arg[x]) = Undef
  BY DEF Undef
<1>2. Result(e, s, loaded) = ResultOf(s.op, l, r, loaded)
  BY <1>1 DEF Result, ResultOf
<1>3. l \in Nat /\ r \in Nat
  OBVIOUS
<1> HIDE DEF l, r
<1>4. (l + r) % 2 \in Nat
  BY <1>3
<1>5. r # 0 => l \div r \in Nat
  BY <1>3
<1>6. ResultOf(s.op, l, r, loaded) \in Nat \cup {Undef}
  BY <1>4, <1>5 DEF ResultOf
<1> QED
  BY <1>2, <1>6 DEF l, r

LEMMA FoldsTo ==
  ASSUME NEW op \in {"xor", "div", "load"}, NEW l \in Nat, NEW r \in Nat, NEW v,
         NEW u, NEW w, u # Bot => u = l, w # Bot => w = r, InsVal(op, u, w) # Bot
  PROVE  ResultOf(op, l, r, v) = InsVal(op, u, w)
<1>1. op # "load" /\ u = l /\ w = r /\ l # Top /\ r # Top
  BY DEF InsVal, Top
<1>2. InsVal(op, u, w) = OpFold(op, l, r)
  BY <1>1 DEF InsVal
<1>3. CASE op = "xor"
  BY <1>2, <1>3 DEF OpFold, ResultOf
<1>4. CASE op = "div"
  BY <1>2, <1>4 DEF OpFold, ResultOf
<1> QED
  BY <1>1, <1>3, <1>4

(* The operands of the next instruction are ready.                         *)
LEMMA InsOperands ==
  ASSUME XDone, xpc = "ins", xi <= Len(prog.ins[at])
  PROVE  LET s == prog.ins[at][xi]
         IN /\ xi \in DOMAIN prog.ins[at] /\ s.to \in Temps /\ s.op \in {"xor", "div", "load"}
            /\ DOMAIN s.arg = {1, 2}
            /\ \A x \in {1, 2} : s.arg[x] \in Operands /\ (s.arg[x] \in Temps => Has(s.arg[x]))
            /\ val[s.to] = InsVal(s.op, LatVal(s.arg[1]), LatVal(s.arg[2]))
<1> DEFINE s == prog.ins[at][xi]
<1>1. Typed /\ SearchInv /\ at \in Blocks(prog) /\ visit[at] > 0 /\ XTyped /\ pc = "done"
  BY DoneIs DEF XDone, XTyped, OnPath
<1>2. xi \in DOMAIN prog.ins[at]
  <2>1. prog \in Functions(prog.n) /\ prog.n \in Nat /\ at \in 0..prog.n - 1
    BY <1>1, ProgIs
  <2>2. Len(prog.ins[at]) \in Nat /\ DOMAIN prog.ins[at] = 1..Len(prog.ins[at])
    BY <2>1, PartsAre
  <2> QED
    BY <1>1, <2>2 DEF XTyped
<1>3. /\ s.to \in Temps /\ s.op \in {"xor", "div", "load"}
      /\ s.arg \in Seq(Operands) /\ Len(s.arg) = 2 /\ ToSet(s.arg) = {s.arg[1], s.arg[2]}
      /\ s.arg[1] \in Operands /\ s.arg[2] \in Operands
  BY <1>1, <1>2, InsAt
<1>4. ToSet(s.arg) \cap Temps \subseteq Reached(at) \cup {prog.ins[at][k].to : k \in 1..xi - 1}
  BY <1>1, <1>2, ProgIs DEF DefinedBefore, Reached
<1>5. \A t \in Reached(at) \cup {prog.ins[at][k].to : k \in 1..xi - 1} : Has(t)
  BY DEF XDone, Ready
<1>6. val[s.to] = InsVal(s.op, LatVal(s.arg[1]), LatVal(s.arg[2]))
  BY <1>1, <1>2, Results, InsValueIs
<1> HIDE DEF s
<1>7. DOMAIN s.arg = {1, 2}
  BY <1>3
<1>8. \A x \in {1, 2} : s.arg[x] \in Operands /\ (s.arg[x] \in Temps => Has(s.arg[x]))
  BY <1>3, <1>4, <1>5
<1> QED
  BY <1>2, <1>3, <1>6, <1>7, <1>8 DEF s

(* It makes what fold found; what is left of it makes the same.            *)
LEMMA InsDoes ==
  ASSUME XDone, xpc = "ins", xi <= Len(prog.ins[at]), NEW loaded \in {0, 1}
  PROVE  LET s == prog.ins[at][xi]
             s2 == out.ins[at][xi]
         IN /\ Result(env, s, loaded) \in Nat \cup {Undef}
            /\ val[s.to] # Bot => Result(env, s, loaded) = val[s.to] /\ s2.op = "nop"
            /\ val[s.to] = Bot => /\ s2.op # "nop" /\ s2.to = s.to
                                  /\ Result(env2, s2, loaded) = Result(env, s, loaded)
<1> DEFINE s == prog.ins[at][xi]
<1> DEFINE s2 == out.ins[at][xi]
<1>1. /\ xi \in DOMAIN prog.ins[at] /\ s.to \in Temps /\ s.op \in {"xor", "div", "load"}
      /\ DOMAIN s.arg = {1, 2}
      /\ \A x \in {1, 2} : s.arg[x] \in Operands /\ (s.arg[x] \in Temps => Has(s.arg[x]))
      /\ val[s.to] = InsVal(s.op, LatVal(s.arg[1]), LatVal(s.arg[2]))
  BY InsOperands
<1>2. Typed /\ XTyped /\ Agrees /\ Matches /\ Trimmed(out, at)
  BY DoneIs DEF XDone
<1>3. s2 = TrimIns(s)
  BY <1>1, <1>2 DEF Trimmed
<1>4. s.op # "nop" /\ s \in InsOf
  <2>1. prog \in Functions(prog.n) /\ prog.n \in Nat /\ at \in 0..prog.n - 1
    BY <1>2, ProgIs DEF XTyped
  <2> QED
    BY <1>1, <2>1, PartsAre
<1> HIDE DEF s, s2
<1> DEFINE l == Eval(env, s.arg[1])
<1> DEFINE r == Eval(env, s.arg[2])
<1>5. /\ l \in Nat /\ (LatVal(s.arg[1]) # Bot => l = LatVal(s.arg[1]))
      /\ r \in Nat /\ (LatVal(s.arg[2]) # Bot => r = LatVal(s.arg[2]))
  BY <1>1, <1>2, EvalIs
<1>6. Result(env, s, loaded) = ResultOf(s.op, l, r, loaded) /\ Result(env, s, loaded) \in Nat \cup {Undef}
  BY <1>1, <1>5, ResultIs
<1>7. ASSUME val[s.to] # Bot PROVE Result(env, s, loaded) = val[s.to] /\ s2.op = "nop"
  <2>1. ResultOf(s.op, l, r, loaded) = val[s.to]
    BY <1>1, <1>5, <1>7, FoldsTo
  <2>2. s2.op = "nop"
    BY <1>3, <1>4, <1>7 DEF TrimIns, InsOf
  <2> QED
    BY <1>6, <2>1, <2>2
<1>8. ASSUME val[s.to] = Bot
      PROVE  s2.op # "nop" /\ s2.to = s.to /\ Result(env2, s2, loaded) = Result(env, s, loaded)
  <2> DEFINE args == [x \in DOMAIN s.arg |-> RenRef(s.arg[x])]
  <2>1. s2 = [s EXCEPT !.arg = args]
    BY <1>3, <1>8 DEF TrimIns
  <2>2. DOMAIN args = {1, 2} /\ args[1] = RenRef(s.arg[1]) /\ args[2] = RenRef(s.arg[2])
    BY <1>1
  <2> HIDE DEF args
  <2>3. s2.op = s.op /\ s2.to = s.to /\ s2.arg = args
    BY <2>1, <1>4 DEF InsOf
  <2>4. Eval(env2, s2.arg[1]) = l /\ Eval(env2, s2.arg[2]) = r
    <3>1. xpc # "end"
      OBVIOUS
    <3>2. Eval(env2, RenRef(s.arg[1])) = l
      BY <1>1, <1>2, <3>1, SameOperand
    <3>3. Eval(env2, RenRef(s.arg[2])) = r
      BY <1>1, <1>2, <3>1, SameOperand
    <3> QED
      BY <2>2, <2>3, <3>2, <3>3
  <2> HIDE DEF l, r
  <2>5. Result(env2, s2, loaded) = ResultOf(s2.op, Eval(env2, s2.arg[1]), Eval(env2, s2.arg[2]), loaded)
    BY <1>1, <1>5, <2>2, <2>3, <2>4, ResultIs
  <2> QED
    BY <1>1, <1>6, <2>3, <2>4, <2>5
<1> QED
  BY <1>6, <1>7, <1>8 DEF s, s2

LEMMA XInsKeeps ==
  ASSUME XDone, NEW loaded \in {0, 1}, XIns(loaded)
  PROVE  XInv'
<1> DEFINE s == prog.ins[at][xi]
<1> DEFINE s2 == out.ins[at][xi]
<1> DEFINE v == Result(env, s, loaded)
<1>1. /\ xpc = "ins" /\ xi <= Len(prog.ins[at]) /\ at' = at /\ from' = from /\ UNCHANGED vars
      /\ xi' = xi + 1 /\ env' = [env EXCEPT ![s.to] = v]
      /\ env2' = IF s2.op = "nop" THEN env2 ELSE [env2 EXCEPT ![s2.to] = Result(env2, s2, loaded)]
      /\ xpc' = IF v = Undef THEN "end" ELSE xpc
  BY DEF XIns
<1>2. Typed /\ at \in Blocks(prog) /\ XTyped /\ Agrees /\ Matches /\ pc = "done"
  BY DoneIs DEF XDone, XTyped
<1>3. Run /\ IInv' /\ OutTrimmed'
  BY <1>1, RunKeeps
<1>4. xi \in DOMAIN prog.ins[at] /\ s.to \in Temps
  BY <1>1, InsOperands
<1>5. /\ v \in Nat \cup {Undef}
      /\ val[s.to] # Bot => v = val[s.to] /\ s2.op = "nop"
      /\ val[s.to] = Bot => s2.op # "nop" /\ s2.to = s.to /\ Result(env2, s2, loaded) = v
  BY <1>1, InsDoes
<1> HIDE DEF s, s2, v
<1>6. /\ env' \in [Temps -> Nat \cup {Undef}] /\ env'[s.to] = v
      /\ \A t \in Temps : t # s.to => env'[t] = env[t]
  BY <1>1, <1>2, <1>4, <1>5 DEF XTyped
<1>7. /\ DOMAIN env2' = Temps /\ \A t \in Temps : t # s.to => env2'[t] = env2[t]
      /\ val[s.to] = Bot => env2'[s.to] = v
  <2>1. DOMAIN env2 = Temps
    BY <1>2 DEF XTyped
  <2>2. CASE val[s.to] = Bot
    BY <1>1, <1>4, <1>5, <2>1, <2>2
  <2>3. CASE val[s.to] # Bot
    BY <1>1, <1>5, <2>1, <2>3
  <2> QED
    BY <2>2, <2>3
<1>8. XTyped'
  <2>1. xi' <= Len(prog'.ins[at']) + 1 /\ at' \in Blocks(prog') /\ from' \in Blocks(prog') \cup {Gone}
    <3>1. Len(prog.ins[at]) \in Nat /\ xi \in Nat
      <4>1. prog \in Functions(prog.n) /\ prog.n \in Nat /\ at \in 0..prog.n - 1
        BY <1>2, ProgIs
      <4> QED
        BY <1>2, <4>1, PartsAre DEF XTyped
    <3>2. prog' = prog
      BY <1>3 DEF Run
    <3> QED
      BY <1>1, <1>2, <3>1, <3>2 DEF XTyped
  <2> QED
    BY <1>1, <1>2, <1>6, <1>7, <2>1 DEF XTyped
<1>9. OnPath' /\ OnEdge'
  <2>1. DeadEdge(from, at)' <=> DeadEdge(from, at)
    BY <1>1, <1>3, SameTrim DEF Run
  <2> QED
    BY <1>1, <1>3, <2>1 DEF OnPath, OnEdge, Run, XDone
<1>10. Ready'
  <2>1. ASSUME xpc' = "ins", NEW t \in Temps, Has(t) \/ t = s.to PROVE env'[t] # Undef
    BY <1>1, <1>6, <2>1 DEF Has
  <2>2. ASSUME xpc' = "ins", NEW t \in Reached(at) PROVE env'[t] # Undef
    <3>1. t \in Temps /\ Has(t)
      BY <1>1, <1>2, <2>2, DefsAre DEF Reached, XDone, Ready
    <3> QED
      BY <2>1, <2>2, <3>1
  <2>3. ASSUME xpc' = "ins", NEW k \in 1..xi PROVE env'[prog.ins[at][k].to] # Undef
    <3>1. k \in DOMAIN prog.ins[at]
      <4>1. prog \in Functions(prog.n) /\ prog.n \in Nat /\ at \in 0..prog.n - 1
        BY <1>2, ProgIs
      <4>2. DOMAIN prog.ins[at] = 1..Len(prog.ins[at])
        BY <4>1, PartsAre
      <4> QED
        BY <1>4, <4>2
    <3>2. prog.ins[at][k].to \in Temps
      BY <1>2, <3>1, InsAt
    <3>3. k = xi \/ k \in 1..xi - 1
      BY <1>2 DEF XTyped
    <3>4. k \in 1..xi - 1 => Has(prog.ins[at][k].to)
      BY <1>1 DEF XDone, Ready
    <3> QED
      BY <2>1, <2>3, <3>2, <3>3, <3>4 DEF s
  <2>4. Reached(at)' = Reached(at) /\ xi' - 1 = xi /\ prog'.ins[at'] = prog.ins[at]
    BY <1>1, <1>2, <1>3 DEF Reached, Run, XTyped
  <2> QED
    BY <1>1, <2>2, <2>3, <2>4 DEF Ready, Has
<1>11. Agrees'
  BY <1>2, <1>3, <1>5, <1>6 DEF Agrees, Has, Run
<1>12. Matches'
  BY <1>1, <1>2, <1>3, <1>6, <1>7 DEF Matches, Run
<1> QED
  BY <1>8, <1>9, <1>10, <1>11, <1>12, <1>1, RunKeeps

(* The argument of the jump is ready.                                      *)
LEMMA JmpOperand ==
  ASSUME XDone, AtJmp
  PROVE  /\ prog.arg[at] \in Operands /\ (prog.arg[at] \in Temps => Has(prog.arg[at]))
         /\ \A t \in Available(prog, at) \cup Defs(prog, at) : Has(t)
<1>1. Typed /\ at \in Blocks(prog) /\ XTyped /\ xpc = "ins" /\ xi > Len(prog.ins[at])
  BY DoneIs DEF XDone, XTyped, AtJmp
<1>2. DOMAIN prog.ins[at] = 1..xi - 1
  <2>1. prog \in Functions(prog.n) /\ prog.n \in Nat /\ at \in 0..prog.n - 1
    BY <1>1, ProgIs
  <2>2. Len(prog.ins[at]) \in Nat /\ DOMAIN prog.ins[at] = 1..Len(prog.ins[at])
    BY <2>1, PartsAre
  <2>3. xi - 1 = Len(prog.ins[at])
    BY <1>1, <2>2 DEF XTyped
  <2> QED
    BY <2>2, <2>3
<1>3. \A t \in InsDefs(prog, at) : Has(t)
  BY <1>1, <1>2 DEF InsDefs, XDone, Ready
<1>4. \A t \in Reached(at) : Has(t)
  BY <1>1 DEF XDone, Ready
<1>5. prog.arg[at] \in Temps => prog.arg[at] \in Reached(at) \cup InsDefs(prog, at)
  BY <1>1, ProgIs DEF DefinedBefore, Reached
<1>6. prog.arg[at] \in Operands
  BY <1>1, JmpAt
<1> QED
  BY <1>3, <1>4, <1>5, <1>6 DEF Reached, Defs

(* The jump left goes where the one found goes.                            *)
LEMMA SameJump ==
  ASSUME XDone, AtJmp
  PROVE  Target(out, env2) = Target(prog, env)
<1> DEFINE x == prog.arg[at]
<1>1. /\ Typed /\ at \in Blocks(prog) /\ XTyped /\ Agrees /\ Matches /\ xpc # "end" /\ JmpTrimmed(out, at)
  BY DoneIs DEF XDone, XTyped, AtJmp, Trimmed
<1>2. x \in Operands /\ (x \in Temps => Has(x))
  BY JmpOperand
<1>3. prog.jmp[at] \in {"ret", "jmp", "jnz"}
  BY <1>1, JmpAt
<1>4. /\ Eval(env2, RenRef(x)) = Eval(env, x)
      /\ RenRef(x) \in Temps <=> LatVal(x) = Bot
      /\ LatVal(x) = Bot => x \in Temps /\ RenRef(x) = x
      /\ LatVal(x) # Bot => RenRef(x) = Eval(env, x)
  BY <1>1, <1>2, SameOperand
<1> HIDE DEF x
<1>5. JmpTrimmed(out, at) <=>
        IF prog.jmp[at] = "jnz" /\ RenRef(x) \notin Temps
        THEN out.jmp[at] = "jmp" /\ out.s1[at] = IF RenRef(x) = 0 THEN prog.s2[at] ELSE prog.s1[at]
        ELSE /\ out.jmp[at] = prog.jmp[at] /\ out.arg[at] = RenRef(x)
             /\ out.s1[at] = prog.s1[at] /\ out.s2[at] = prog.s2[at]
  BY DEF JmpTrimmed, x
<1>6. CASE prog.jmp[at] = "jnz" /\ RenRef(x) \notin Temps
  <2>1. out.jmp[at] = "jmp" /\ out.s1[at] = IF Eval(env, x) = 0 THEN prog.s2[at] ELSE prog.s1[at]
    BY <1>1, <1>4, <1>5, <1>6
  <2>2. Target(out, env2) = <<"jump", out.s1[at]>>
    BY <2>1 DEF Target
  <2>3. Target(prog, env) = <<"jump", IF Eval(env, x) # 0 THEN prog.s1[at] ELSE prog.s2[at]>>
    BY <1>6 DEF Target, x
  <2> QED
    BY <2>1, <2>2, <2>3
<1>7. CASE ~(prog.jmp[at] = "jnz" /\ RenRef(x) \notin Temps)
  <2>1. /\ out.jmp[at] = prog.jmp[at] /\ out.s1[at] = prog.s1[at] /\ out.s2[at] = prog.s2[at]
        /\ Eval(env2, out.arg[at]) = Eval(env, prog.arg[at])
    BY <1>1, <1>4, <1>5, <1>7 DEF x
  <2>2. CASE prog.jmp[at] = "ret"
    BY <2>1, <2>2 DEF Target
  <2>3. CASE prog.jmp[at] = "jmp"
    BY <2>1, <2>3 DEF Target
  <2>4. CASE prog.jmp[at] = "jnz"
    BY <2>1, <2>4 DEF Target
  <2> QED
    BY <1>3, <2>2, <2>3, <2>4
<1> QED
  BY <1>6, <1>7

(* It takes an edge found executable, that the function left has too.      *)
LEMMA JumpTakes ==
  ASSUME XDone, AtJmp, prog.jmp[at] # "ret"
  PROVE  LET d == Target(prog, env)[2]
         IN /\ d \in Blocks(prog) /\ visit[d] > 0 /\ ~DeadEdge(at, d) /\ d \in Succs(out, at)
<1> DEFINE x == prog.arg[at]
<1> DEFINE d == Target(prog, env)[2]
<1>1. /\ Typed /\ SearchInv /\ at \in Blocks(prog) /\ visit[at] > 0 /\ XTyped /\ Agrees /\ pc = "done"
      /\ JmpTrimmed(out, at)
  BY DoneIs DEF XDone, XTyped, OnPath, Trimmed
<1>2. Eval(env, x) \in Nat /\ (LatVal(x) # Bot => Eval(env, x) = LatVal(x))
  BY <1>1, JmpOperand, EvalIs
<1>3. PICK k \in {0, 1} : Takes(at, k) /\ d = Succ(prog, at, k) /\ d # Gone
  <2>1. CASE prog.jmp[at] = "jmp"
    <3>1. Takes(at, 0) /\ d = Succ(prog, at, 0)
      BY <2>1 DEF Takes, Target, Succ
    <3>2. prog.s1[at] # Gone
      BY <1>1, <2>1, JmpAt
    <3> QED
      BY <3>1, <3>2 DEF Succ
  <2>2. CASE prog.jmp[at] = "jnz"
    <3> DEFINE k == IF Eval(env, x) # 0 THEN 0 ELSE 1
    <3>1. d = Succ(prog, at, k)
      BY <2>2 DEF Target, Succ
    <3>2. Takes(at, k)
      BY <1>2, <2>2 DEF Takes
    <3>3. prog.s1[at] # Gone /\ prog.s2[at] # Gone
      BY <1>1, <2>2, JmpAt
    <3>4. d # Gone
      BY <3>1, <3>3 DEF Succ
    <3> QED
      BY <3>1, <3>2, <3>4
  <2> QED
    BY <1>1, <2>1, <2>2, JmpAt
<1> HIDE DEF d
<1>4. ~dead[<<at, k>>]
  BY <1>1, <1>3, Results
<1>5. ~DeadEdge(at, d)
  BY <1>3, <1>4 DEF DeadEdge
<1>6. d \in Blocks(prog)
  BY <1>1, <1>3, JmpAt DEF Succ
<1>7. visit[d] > 0
  BY <1>1, <1>5, <1>6, Results
<1>8. d \in Succs(out, at)
  <2>1. Target(out, env2)[2] = d
    BY SameJump DEF d
  <2>2. out.jmp[at] \in {"jmp", "jnz"}
    BY <1>1, JmpAt DEF JmpTrimmed
  <2>3. Target(out, env2)[2] \in {out.s1[at], out.s2[at]}
    BY <2>2 DEF Target
  <2> QED
    BY <1>3, <2>1, <2>3 DEF Succs
<1> QED
  BY <1>5, <1>6, <1>7, <1>8 DEF d

LEMMA XJmpKeeps == ASSUME XDone, XJmp PROVE XInv'
<1>1. /\ AtJmp /\ UNCHANGED vars /\ xi' = xi /\ env' = env /\ env2' = env2 /\ xpc = "ins"
      /\ IF prog.jmp[at] = "ret" THEN xpc' = "end" /\ at' = at /\ from' = from
         ELSE xpc' = "enter" /\ from' = at /\ at' = Target(prog, env)[2]
  BY DEF XJmp, AtJmp
<1>2. Typed /\ at \in Blocks(prog) /\ XTyped /\ Agrees /\ Matches /\ pc = "done"
  BY DoneIs DEF XDone, XTyped
<1>3. Run /\ IInv' /\ OutTrimmed'
  BY <1>1, RunKeeps
<1>4. Agrees' /\ Matches'
  BY <1>1, <1>2, <1>3 DEF Agrees, Matches, Has, Run
<1>5. \A a, b : DeadEdge(a, b)' <=> DeadEdge(a, b)
  BY <1>3, SameTrim DEF Run
<1>6. CASE prog.jmp[at] = "ret"
  <2>1. XTyped'
    BY <1>1, <1>2, <1>3, <1>6 DEF XTyped, Run
  <2>2. OnPath' /\ OnEdge' /\ Ready'
    BY <1>1, <1>3, <1>5, <1>6 DEF OnPath, OnEdge, Ready, Run, XDone
  <2> QED
    BY <1>1, <1>4, <2>1, <2>2, RunKeeps
<1>7. CASE prog.jmp[at] # "ret"
  <2>1. at' \in Blocks(prog) /\ visit[at'] > 0 /\ ~DeadEdge(at, at') /\ at' \in Succs(out, at)
    BY <1>1, <1>7, JumpTakes
  <2>2. from' = at /\ xpc' = "enter" /\ at # Gone
    BY <1>1, <1>2, <1>7, JmpAt
  <2>3. XTyped'
    BY <1>1, <1>2, <1>3, <2>1, <2>2 DEF XTyped, Run
  <2>4. OnPath' /\ OnEdge'
    <3>1. ~DeadEdge(from, at)'
      BY <1>3, <2>1, <2>2 DEF DeadEdge, Succ, Run
    <3> QED
      BY <1>3, <2>1, <2>2, <3>1 DEF OnPath, OnEdge, Run
  <2>5. Ready'
    <3>1. \A t \in Available(prog, at) \cup Defs(prog, at) : Has(t)
      BY <1>1, JmpOperand
    <3> QED
      BY <1>1, <1>3, <2>2, <3>1 DEF Ready, Has, Run
  <2> QED
    BY <1>1, <1>4, <2>3, <2>4, <2>5, RunKeeps
<1> QED
  BY <1>6, <1>7

(* When fold is done the start block has been visited, which is where the  *)
(* execution begins.                                                       *)
StartVisited == pc = "done" => visit[0] > 0
LEMMA StartIsVisited == IInv => StartVisited
  BY Results DEF IInv, StartVisited

LEMMA FoldKeeps == ASSUME XInv, Fold PROVE XInv'
<1>1. Next /\ UNCHANGED xvars /\ pc # "done"
  BY DEF Fold, Next, Search, Trim, PopEdge, EdgePhi, EdgePhisSeen, EdgeIns, EdgeJmp, EdgeLeft,
         PopUse, UsePhi, UseIns, UseJmp, SearchDone, TrimLive, TrimDead, TrimEnd
<1>2. IInv' /\ OutTrimmed'
  BY <1>1, StepKeeps, StepTrims DEF XInv
<1>3. StartVisited'
  <2>1. (IInv => StartVisited)'
    BY StartIsVisited, PTL
  <2> QED
    BY <1>2, <2>1
<1>4. /\ xpc' = xpc /\ at' = at /\ from' = from /\ xi' = xi /\ env' = env /\ env2' = env2
      /\ XStart /\ XTyped /\ IInv
  BY <1>1 DEF xvars, XInv
<1>5. XStart'
  BY <1>4 DEF XStart
<1>6. prog' = prog
  BY <1>1 DEF Next, Search, Trim, Stopped, vars, PopEdge, EdgePhi, EdgePhisSeen, EdgeIns, EdgeJmp, EdgeLeft,
         PopUse, UsePhi, UseIns, UseJmp, SearchDone, TrimLive, TrimDead, TrimEnd
<1>7. XTyped'
  BY <1>4, <1>6 DEF XTyped, XStart
<1>8. (pc = "done" => OnPath /\ Ready /\ Agrees /\ Matches /\ OnEdge)'
  BY <1>3, <1>5 DEF StartVisited, XStart, OnPath, Ready, Agrees, Matches, OnEdge, Has
<1> QED
  BY <1>2, <1>5, <1>7, <1>8 DEF XInv

LEMMA XStepKeeps == XInv /\ [XNext]_all => XInv'
<1> SUFFICES ASSUME XInv, [XNext]_all PROVE XInv'
  OBVIOUS
<1>1. pc = "done" => XDone
  BY DEF XInv, XDone
<1>2. CASE Fold
  BY <1>2, FoldKeeps
<1>3. CASE XPhis
  BY <1>1, <1>3, XPhisKeeps DEF XPhis
<1>4. ASSUME NEW v \in {0, 1}, XIns(v) PROVE XInv'
  BY <1>1, <1>4, XInsKeeps DEF XIns
<1>5. CASE XJmp
  BY <1>1, <1>5, XJmpKeeps DEF XJmp, AtJmp
<1>6. CASE UNCHANGED all
  <2>1. UNCHANGED vars /\ UNCHANGED xvars
    BY <1>6 DEF all
  <2>2. IInv' /\ OutTrimmed'
    BY <2>1, StutterKeeps, StutterTrims DEF XInv
  <2>3. prog' = prog /\ out' = out /\ val' = val /\ dead' = dead /\ visit' = visit /\ pc' = pc
    BY <2>1 DEF vars
  <2>4. xpc' = xpc /\ at' = at /\ from' = from /\ xi' = xi /\ env' = env /\ env2' = env2
    BY <2>1 DEF xvars
  <2>5. XTyped' /\ (pc # "done" => XStart)'
    BY <2>3, <2>4 DEF XInv, XTyped, XStart
  <2>6. DeadEdge(from, at)' <=> DeadEdge(from, at)
    BY <2>3, <2>4, SameTrim
  <2>7. (pc = "done" => OnPath /\ Ready /\ Agrees /\ Matches /\ OnEdge)'
    BY <2>3, <2>4, <2>6 DEF XInv, OnPath, Ready, Reached, Agrees, Matches, OnEdge, Has
  <2> QED
    BY <2>2, <2>5, <2>7 DEF XInv
<1> QED
  BY <1>2, <1>3, <1>4, <1>5, <1>6 DEF XNext, XStopped

LEMMA XInitHolds == XInit => XInv
<1> SUFFICES ASSUME XInit PROVE XInv
  OBVIOUS
<1>1. IInv
  BY InitHolds DEF XInit
<1>2. pc = "loop" /\ XStart
  BY DEF XInit, Init, XStart
<1>3. OutTrimmed
  BY <1>2 DEF OutTrimmed
<1>4. XTyped
  <2>1. 0 \in Blocks(prog)
    BY <1>1, ProgIs DEF IInv, SearchInv
  <2> QED
    BY <2>1 DEF XInit, XTyped
<1> QED
  BY <1>1, <1>2, <1>3, <1>4 DEF XInv

(* The execution, whichever way the instructions fold.c leaves alone turn  *)
(* out, keeps the invariant.                                               *)
THEOREM ExecInvariant == XSpec => []XInv
  BY XInitHolds, XStepKeeps, PTL DEF XSpec

(* What fold found is true of every execution: it stays in the blocks and  *)
(* on the edges found executable, and a temporary found constant has that  *)
(* value whenever it has one.                                              *)
THEOREM FactsFound == XSpec => []FactsHold
<1>1. XInv => FactsHold
  BY DEF XInv, FactsHold, OnPath, Agrees, Has
<1> QED
  BY <1>1, ExecInvariant, PTL

(* The function fold leaves behaves as the one it was given: it takes the  *)
(* same jumps, returns the same value, and computes the same value for     *)
(* every temporary it kept (fold.c:271-314).                               *)
THEOREM BehaviourKept == XSpec => []SameBehaviour
<1>1. XInv => SameBehaviour
  <2> SUFFICES ASSUME XInv PROVE SameBehaviour
    OBVIOUS
  <2>1. AtJmp => XDone
    BY DEF XInv, XDone, AtJmp
  <2>2. pc = "done" => Matches
    BY DEF XInv
  <2> QED
    BY <2>1, <2>2, SameJump DEF SameBehaviour, Matches
<1> QED
  BY <1>1, ExecInvariant, PTL
=============================================================================
