----------------------------- MODULE LiveProofs -----------------------------
(***************************************************************************)
(* Proofs about Live, for every function that is Shaped and Copied: the    *)
(* sweeps compute what the paths to a use justify, and the pressure of a   *)
(* block is the largest number of registers live in it.                    *)
(*                                                                         *)
(* Nothing dead is kept because in and out only ever hold what some path   *)
(* justifies; nothing live is missing because a sweep without a change     *)
(* leaves a solution of the equations, down which the use at the end of a  *)
(* path is carried to its start.                                           *)
(***************************************************************************)
EXTENDS Live, Recursion

Into(b) == LiveInto(b, Paths)
OutInto(b) ==
  RGlob \cup UNION {(Into(s) \ PhiTos(s)) \cup PhiArgs(b, s) : s \in ToSet(prog.succ[b])}

LastOf(b) == Len(prog.ins[b])

-----------------------------------------------------------------------------
(* The parts of a function.                                                *)
LEMMA Parts ==
  ASSUME Shaped(prog), NEW b \in Blocks
  PROVE  /\ prog.n \in Nat \ {0} /\ Blocks = 0..(prog.n - 1)
         /\ LastOf(b) \in Nat /\ DOMAIN prog.ins[b] = 1..LastOf(b)
         /\ \A x \in 1..LastOf(b) :
              /\ prog.ins[b][x].to \in Temps \cup {None}
              /\ prog.ins[b][x].uses \in SUBSET Temps
              /\ prog.ins[b][x].call \in BOOLEAN
              /\ prog.ins[b][x].ret \in SUBSET Temps
              /\ prog.ins[b][x].arg \in SUBSET Temps
         /\ ToSet(prog.succ[b]) \subseteq Blocks
         /\ prog.jmp[b] \in SUBSET Temps
         /\ prog.ret[b] \in (SUBSET Temps) \cup {None}
<1> DEFINE Ins == [to : Temps \cup {None}, uses : SUBSET Temps, call : BOOLEAN,
                   ret : SUBSET Temps, arg : SUBSET Temps]
<1>1. /\ prog.n \in Nat \ {0} /\ Blocks = 0..(prog.n - 1)
      /\ prog.ins[b] \in Seq(Ins) /\ prog.succ[b] \in Seq(Blocks)
      /\ prog.jmp[b] \in SUBSET Temps
      /\ prog.ret[b] \in (SUBSET Temps) \cup {None}
  BY DEF Shaped, Blocks
<1>2. \A x \in 1..LastOf(b) : prog.ins[b][x] \in Ins
  <2> HIDE DEF Ins
  <2> QED
    BY <1>1 DEF LastOf
<1>3. LastOf(b) \in Nat /\ DOMAIN prog.ins[b] = 1..LastOf(b)
  <2> HIDE DEF Ins
  <2> QED
    BY <1>1 DEF LastOf
<1>4. ToSet(prog.succ[b]) \subseteq Blocks
  BY <1>1 DEF ToSet
<1> QED
  BY <1>1, <1>2, <1>3, <1>4

(* Their reads and writes.                                                 *)
LEMMA ReadsWrites ==
  ASSUME Shaped(prog), NEW b \in Blocks, NEW x \in 1..LastOf(b)
  PROVE  Reads(prog.ins[b][x]) \in SUBSET Temps
<1>1. /\ prog.ins[b][x].uses \in SUBSET Temps
      /\ prog.ins[b][x].arg \in SUBSET Temps
  BY Parts
<1> QED
  BY <1>1 DEF Reads

(* What happens between two instructions: nothing is read or written       *)
(* behind the last, and the set changes from one to the one before by what *)
(* that writes and reads.                                                  *)
LEMMA AtEnd ==
  ASSUME NEW body, Len(body) \in Nat
  PROVE  Exposed(body, Len(body) + 1) = {} /\ Through(body, Len(body) + 1) = Temps
<1>1. (Len(body) + 1)..Len(body) = {}
  OBVIOUS
<1> QED
  BY <1>1 DEF Exposed, Through

(* What one more instruction at the front lets through is what it does not *)
(* write.                                                                  *)
LEMMA ThroughStep ==
  ASSUME NEW body, Len(body) \in Nat, NEW x \in 2..(Len(body) + 1)
  PROVE  Through(body, x - 1) = Through(body, x) \ Defs(body[x - 1])
<1>1. (x - 1)..Len(body) = {x - 1} \cup x..Len(body)
  OBVIOUS
<1> QED
  BY <1>1 DEF Through

(* What is read before it is written, with one more instruction at the     *)
(* front.                                                                  *)
LEMMA ExposedStep ==
  ASSUME NEW body, Len(body) \in Nat, NEW x \in 2..(Len(body) + 1),
         Reads(body[x - 1]) \in SUBSET Temps
  PROVE  Exposed(body, x - 1) = (Exposed(body, x) \ Defs(body[x - 1])) \cup Reads(body[x - 1])
<1> DEFINE Met(t, w, y) == t \in Reads(body[y]) /\ \A z \in w..(y - 1) : t \notin Defs(body[z])
<1>1. (x - 1)..Len(body) = {x - 1} \cup x..Len(body)
  OBVIOUS
<1>2. \A t : Met(t, x - 1, x - 1) <=> t \in Reads(body[x - 1])
  <2>1. (x - 1)..((x - 1) - 1) = {}
    OBVIOUS
  <2> QED
    BY <2>1
<1>3. ASSUME NEW y \in x..Len(body), NEW t
      PROVE  Met(t, x - 1, y) <=> t \notin Defs(body[x - 1]) /\ Met(t, x, y)
  <2>1. (x - 1)..(y - 1) = {x - 1} \cup x..(y - 1)
    OBVIOUS
  <2> QED
    BY <2>1
<1>4. \A t \in Temps : t \in Exposed(body, x - 1) <=> \E y \in (x - 1)..Len(body) : Met(t, x - 1, y)
  BY DEF Exposed
<1>5. \A t \in Temps : t \in Exposed(body, x) <=> \E y \in x..Len(body) : Met(t, x, y)
  BY DEF Exposed
<1>6. Exposed(body, x - 1) \subseteq Temps /\ Exposed(body, x) \subseteq Temps
  BY DEF Exposed
<1> HIDE DEF Met
<1>7. ASSUME NEW t \in Temps
      PROVE  t \in Exposed(body, x - 1) <=>
               t \in (Exposed(body, x) \ Defs(body[x - 1])) \cup Reads(body[x - 1])
  BY <1>1, <1>2, <1>3, <1>4, <1>5
<1> QED
  BY <1>6, <1>7

(* The same of what is live.                                               *)
LEMMA BetweenStep ==
  ASSUME Shaped(prog), NEW b \in Blocks, NEW x \in 2..(LastOf(b) + 1)
  PROVE  Between(b, x - 1) =
           (Between(b, x) \ Defs(prog.ins[b][x - 1])) \cup Reads(prog.ins[b][x - 1])
<1>1. LastOf(b) \in Nat /\ x - 1 \in 1..LastOf(b)
  BY Parts
<1>2. Reads(prog.ins[b][x - 1]) \in SUBSET Temps
  BY <1>1, ReadsWrites
<1>3. /\ Exposed(prog.ins[b], x - 1) =
           (Exposed(prog.ins[b], x) \ Defs(prog.ins[b][x - 1])) \cup Reads(prog.ins[b][x - 1])
      /\ Through(prog.ins[b], x - 1) = Through(prog.ins[b], x) \ Defs(prog.ins[b][x - 1])
  BY <1>1, <1>2, ExposedStep, ThroughStep DEF LastOf
<1> QED
  BY <1>3 DEF Between

(* Behind the last instruction of a block: what leaves it, and what its    *)
(* jump reads.                                                             *)
LEMMA BetweenEnd ==
  ASSUME Shaped(prog), NEW b \in Blocks, out[b] \cup LastReads(b) \subseteq Temps
  PROVE  Between(b, LastOf(b) + 1) = out[b] \cup LastReads(b)
<1>1. LastOf(b) \in Nat
  BY Parts
<1> QED
  BY <1>1, AtEnd DEF Between, LastOf

(* At the start of a block.                                                *)
LEMMA FirstThrough ==
  ASSUME Shaped(prog), NEW b \in Blocks
  PROVE  Through(prog.ins[b], 1) = Temps \ BlkDefs(b)
<1>1. DOMAIN prog.ins[b] = 1..Len(prog.ins[b])
  BY Parts DEF LastOf
<1> QED
  BY <1>1 DEF Through, BlkDefs, ToSet

-----------------------------------------------------------------------------
(* What is read first in a block, and what lives through it, is live into  *)
(* it.                                                                     *)
LEMMA IntoFirst ==
  ASSUME Shaped(prog), NEW b \in Blocks, NEW t \in ReadFirst(b)
  PROVE  t \in Into(b)
<1> DEFINE q == [x \in 1..1 |-> b]
<1>1. prog.n \in Nat \ {0} /\ 1 \in 1..prog.n
  BY DEF Shaped
<1>2. q \in [1..1 -> Blocks] /\ q[1] = b /\ Len(q) = 1 /\ DOMAIN q = 1..1
  OBVIOUS
<1> HIDE DEF q
<1>3. q \in Paths
  <2>1. q \in UNION {[1..m -> Blocks] : m \in 1..prog.n}
    BY <1>1, <1>2
  <2>2. IsInjective(q)
    BY <1>2 DEF IsInjective
  <2>3. 1..(Len(q) - 1) = {}
    BY <1>2
  <2> QED
    BY <2>1, <2>2, <2>3 DEF Paths
<1> QED
  BY <1>2, <1>3 DEF Into, LiveInto

(* A path, its length and its steps.                                       *)
LEMMA PathFacts ==
  ASSUME Shaped(prog), NEW q \in Paths
  PROVE  \E m \in 1..prog.n :
           /\ q \in [1..m -> Blocks] /\ Len(q) = m /\ DOMAIN q = 1..m
           /\ \A x, y \in 1..m : q[x] = q[y] => x = y
           /\ \A x \in 1..(m - 1) : q[x + 1] \in ToSet(prog.succ[q[x]])
<1>1. prog.n \in Nat
  BY DEF Shaped
<1>2. PICK m \in 1..prog.n : q \in [1..m -> Blocks]
  BY DEF Paths
<1>3. Len(q) = m /\ DOMAIN q = 1..m
  BY <1>1, <1>2
<1>4. \A x, y \in 1..m : q[x] = q[y] => x = y
  BY <1>3 DEF Paths, IsInjective
<1>5. \A x \in 1..(m - 1) : q[x + 1] \in ToSet(prog.succ[q[x]])
  BY <1>3 DEF Paths
<1> QED
  BY <1>2, <1>3, <1>4, <1>5

(* A sequence of blocks that differ is no longer than there are blocks.    *)
LEMMA NoLonger ==
  ASSUME Shaped(prog), NEW m \in Nat, NEW r \in [1..m -> Blocks],
         \A x, y \in 1..m : r[x] = r[y] => x = y
  PROVE  m <= prog.n
<1>1. prog.n \in Nat /\ Blocks = 0..(prog.n - 1)
  BY DEF Shaped, Blocks
<1>2. IsFiniteSet(1..m) /\ Cardinality(1..m) = m
  BY FS_Interval
<1>3. IsFiniteSet(Blocks) /\ Cardinality(Blocks) = prog.n
  <2>1. PICK k \in Nat : prog.n = k + 1
    <3>1. prog.n \in Nat \ {0}
      BY DEF Shaped
    <3>2. prog.n - 1 \in Nat /\ prog.n = (prog.n - 1) + 1
      BY <3>1
    <3> QED
      BY <3>2
  <2>2. IsFiniteSet(0..k) /\ Cardinality(0..k) = k + 1
    BY FS_Interval
  <2> QED
    BY <1>1, <2>1, <2>2
<1>4. r \in Injection(1..m, Blocks)
  BY DEF Injection, IsInjective
<1> QED
  BY <1>2, <1>3, <1>4, FS_Injection

(* What is live into a successor, unless it is written on the way, is live *)
(* into the block: the path to its use is put behind the block, or cut     *)
(* where it comes through it.                                              *)
LEMMA IntoStep ==
  ASSUME Shaped(prog), NEW b \in Blocks, NEW s \in ToSet(prog.succ[b]),
         NEW t \in Into(s), t \notin BlkDefs(b), t \notin PhiTos(s)
  PROVE  t \in Into(b)
<1> DEFINE Free(q, x) == t \notin BlkDefs(q[x]) \cup PhiTos(q[x + 1])
<1>0. prog.n \in Nat /\ s \in Blocks
  BY Parts DEF Shaped
<1>1. PICK q \in Paths : /\ q[1] = s /\ t \in ReadFirst(q[Len(q)])
                         /\ \A x \in 1..(Len(q) - 1) : Free(q, x)
  BY DEF Into, LiveInto
<1>2. PICK m \in 1..prog.n :
        /\ q \in [1..m -> Blocks] /\ Len(q) = m /\ DOMAIN q = 1..m
        /\ \A x, y \in 1..m : q[x] = q[y] => x = y
        /\ \A x \in 1..(m - 1) : q[x + 1] \in ToSet(prog.succ[q[x]])
  BY PathFacts
<1>m. m \in Nat /\ 1 <= m /\ m <= prog.n
  BY <1>0
<1>q. /\ t \in ReadFirst(q[m])
      /\ \A x \in 1..(m - 1) : Free(q, x)
  BY <1>1, <1>2
<1>3. ASSUME NEW l \in 1..prog.n, NEW r \in [1..l -> Blocks], r[1] = b,
             \A x, y \in 1..l : r[x] = r[y] => x = y,
             \A x \in 1..(l - 1) : r[x + 1] \in ToSet(prog.succ[r[x]]) /\ Free(r, x),
             t \in ReadFirst(r[l])
      PROVE  t \in Into(b)
  <2>1. Len(r) = l /\ DOMAIN r = 1..l
    BY <1>0
  <2>2. r \in Paths
    <3>1. r \in UNION {[1..k -> Blocks] : k \in 1..prog.n}
      OBVIOUS
    <3>2. IsInjective(r)
      BY <1>3, <2>1 DEF IsInjective
    <3>3. \A x \in 1..(Len(r) - 1) : r[x + 1] \in ToSet(prog.succ[r[x]])
      BY <1>3, <2>1
    <3> QED
      BY <3>1, <3>2, <3>3 DEF Paths
  <2>3. t \in {u \in ReadFirst(r[Len(r)]) :
                 \A x \in 1..(Len(r) - 1) : u \notin BlkDefs(r[x]) \cup PhiTos(r[x + 1])}
    BY <1>3, <2>1
  <2>4. r \in {p \in Paths : p[1] = b}
    BY <1>3, <2>2
  <2> QED
    BY <2>3, <2>4 DEF Into, LiveInto
<1>4. CASE \E k \in 1..m : q[k] = b
  <2>1. PICK k \in 1..m : q[k] = b
    BY <1>4
  <2> DEFINE l == m - k + 1
  <2> DEFINE r == [x \in 1..l |-> q[x + k - 1]]
  <2>2. l \in 1..prog.n /\ k \in Nat /\ l + k - 1 = m
    BY <1>0, <1>m
  <2>3. \A x \in 1..l : x + k - 1 \in 1..m /\ x \in Nat
    BY <1>m
  <2>4. \A x \in 1..l : r[x] = q[x + k - 1]
    OBVIOUS
  <2>5. r \in [1..l -> Blocks]
    BY <1>2, <2>3
  <2> HIDE DEF r, l
  <2>6. r[1] = b
    <3>1. 1 \in 1..l /\ 1 + k - 1 = k
      BY <2>2
    <3> QED
      BY <2>1, <2>4, <3>1
  <2>7. \A x, y \in 1..l : r[x] = r[y] => x = y
    <3> TAKE x, y \in 1..l
    <3> HAVE r[x] = r[y]
    <3>1. x + k - 1 = y + k - 1
      BY <1>2, <2>3, <2>4
    <3> QED
      BY <2>2, <2>3, <3>1
  <2>8. \A x \in 1..(l - 1) : r[x + 1] \in ToSet(prog.succ[r[x]]) /\ Free(r, x)
    <3> TAKE x \in 1..(l - 1)
    <3>1. /\ x \in 1..l /\ x + 1 \in 1..l
          /\ x + k - 1 \in 1..(m - 1) /\ (x + 1) + k - 1 = (x + k - 1) + 1
      BY <2>2, <1>m
    <3>2. r[x] = q[x + k - 1] /\ r[x + 1] = q[(x + k - 1) + 1]
      BY <2>4, <3>1
    <3> QED
      BY <1>2, <1>q, <3>1, <3>2
  <2>9. t \in ReadFirst(r[l])
    <3>1. r[l] = q[m]
      BY <2>2, <2>4
    <3> QED
      BY <1>q, <3>1
  <2> QED
    BY <1>3, <2>2, <2>5, <2>6, <2>7, <2>8, <2>9
<1>5. CASE \A k \in 1..m : q[k] # b
  <2> DEFINE l == m + 1
  <2> DEFINE r == [x \in 1..l |-> IF x = 1 THEN b ELSE q[x - 1]]
  <2>1. l \in Nat /\ \A x \in 1..l : x # 1 => x - 1 \in 1..m
    BY <1>m
  <2>2. r \in [1..l -> Blocks] /\ r[1] = b
    BY <1>2, <1>m, <2>1
  <2>3. \A x \in 1..l : x # 1 => r[x] = q[x - 1]
    OBVIOUS
  <2>4. l = m + 1
    OBVIOUS
  <2> HIDE DEF r, l
  <2>5. \A x, y \in 1..l : r[x] = r[y] => x = y
    <3> TAKE x, y \in 1..l
    <3> HAVE r[x] = r[y]
    <3>1. CASE x # 1 /\ y # 1
      <4>1. x - 1 = y - 1
        BY <1>2, <2>1, <2>3, <3>1
      <4> QED
        BY <4>1
    <3>2. CASE x = 1 \/ y = 1
      BY <1>5, <2>1, <2>2, <2>3, <3>2
    <3> QED
      BY <3>1, <3>2
  <2>6. l \in 1..prog.n
    <3>1. l <= prog.n
      BY <2>1, <2>2, <2>5, NoLonger
    <3> QED
      BY <1>0, <1>m, <2>1, <2>4, <3>1
  <2>7. \A x \in 1..(l - 1) : r[x + 1] \in ToSet(prog.succ[r[x]]) /\ Free(r, x)
    <3> TAKE x \in 1..(l - 1)
    <3>1. x \in 1..m /\ x \in 1..l /\ x + 1 \in 1..l /\ x + 1 # 1 /\ (x + 1) - 1 = x
      BY <2>4, <1>m
    <3>2. r[x + 1] = q[x]
      BY <2>3, <3>1
    <3>3. CASE x = 1
      BY <1>1, <2>2, <3>2, <3>3
    <3>4. CASE x # 1
      <4>1. x - 1 \in 1..(m - 1) /\ (x - 1) + 1 = x
        BY <3>1, <3>4, <1>m
      <4>2. r[x] = q[x - 1]
        BY <2>3, <3>1, <3>4
      <4> QED
        BY <1>2, <1>q, <3>2, <4>1, <4>2
    <3> QED
      BY <3>3, <3>4
  <2>8. t \in ReadFirst(r[l])
    <3>1. l \in 1..l /\ l # 1 /\ l - 1 = m
      BY <2>4, <1>m
    <3> QED
      BY <1>q, <2>3, <3>1
  <2> QED
    BY <1>3, <2>2, <2>5, <2>6, <2>7, <2>8
<1> QED
  BY <1>4, <1>5

-----------------------------------------------------------------------------
(* A block's equations.  Fed holds when what its successors need at their  *)
(* starts is in out.                                                       *)
Fed(b) ==
  \A s \in ToSet(prog.succ[b]) : (Between(s, 1) \ PhiTos(s)) \cup PhiArgs(b, s) \subseteq out[b]

(* What out justifies is live in the block only if a path justifies it.    *)
LEMMA NothingDead ==
  ASSUME Shaped(prog), NEW b \in Blocks, out[b] \subseteq OutInto(b)
  PROVE  Between(b, 1) \subseteq Into(b)
<1> SUFFICES ASSUME NEW t \in Between(b, 1) PROVE t \in Into(b)
  OBVIOUS
<1>1. CASE t \in ReadFirst(b)
  BY <1>1, IntoFirst
<1>2. CASE t \notin ReadFirst(b)
  <2>1. t \in Through(prog.ins[b], 1) /\ t \in out[b] /\ t \notin LastReads(b)
    BY <1>2 DEF Between, ReadFirst
  <2>2. PICK s \in ToSet(prog.succ[b]) : t \in Into(s) \ PhiTos(s)
    BY <1>2, <2>1 DEF OutInto, LastReads, ReadFirst
  <2>3. t \notin BlkDefs(b)
    BY <2>1, FirstThrough
  <2> QED
    BY <2>2, <2>3, IntoStep
<1> QED
  BY <1>1, <1>2

(* When every block is fed, what a path justifies is there: carry it from  *)
(* the end of the path to its start.                                       *)
LEMMA NothingMissing ==
  ASSUME Shaped(prog), \A b \in Blocks : Fed(b), NEW b \in Blocks
  PROVE  Into(b) \subseteq Between(b, 1)
<1> SUFFICES ASSUME NEW t \in Into(b) PROVE t \in Between(b, 1)
  OBVIOUS
<1>1. PICK q \in Paths :
        /\ q[1] = b /\ t \in ReadFirst(q[Len(q)])
        /\ \A x \in 1..(Len(q) - 1) : t \notin BlkDefs(q[x]) \cup PhiTos(q[x + 1])
  BY DEF Into, LiveInto
<1>2. PICK m \in 1..prog.n :
        /\ q \in [1..m -> Blocks] /\ Len(q) = m /\ DOMAIN q = 1..m
        /\ \A x, y \in 1..m : q[x] = q[y] => x = y
        /\ \A x \in 1..(m - 1) : q[x + 1] \in ToSet(prog.succ[q[x]])
  BY PathFacts
<1>3. m \in Nat /\ 1 <= m
  BY DEF Shaped
<1> DEFINE S == {k \in 0..(m - 1) : t \in Between(q[k + 1], 1)}
<1>4. m - 1 \in S
  <2>2. ASSUME NEW c \in Blocks PROVE ReadFirst(c) \subseteq Between(c, 1)
    <3>1. UNION {PhiArgs(c, s) : s \in ToSet(prog.succ[c])} \subseteq out[c]
      BY DEF Fed
    <3> QED
      BY <3>1 DEF ReadFirst, Between
  <2>3. m - 1 \in 0..(m - 1) /\ (m - 1) + 1 = m /\ m \in 1..m
    BY <1>3
  <2> QED
    BY <1>1, <1>2, <2>2, <2>3
<1>5. \A k \in 1..(m - 1) : k \in S => k - 1 \in S
  <2> SUFFICES ASSUME NEW k \in 1..(m - 1), k \in S PROVE k - 1 \in S
    OBVIOUS
  <2>1. k - 1 \in 0..(m - 1) /\ (k - 1) + 1 = k /\ k \in 1..m /\ k + 1 \in 1..m
    BY <1>3
  <2>2. q[k] \in Blocks /\ q[k + 1] \in ToSet(prog.succ[q[k]])
    BY <1>2, <2>1
  <2>3. t \in Between(q[k + 1], 1) /\ t \notin PhiTos(q[k + 1]) /\ t \notin BlkDefs(q[k])
    BY <1>1, <1>2
  <2>4. t \in out[q[k]]
    BY <2>2, <2>3 DEF Fed
  <2>5. t \in Through(prog.ins[q[k]], 1)
    <3>1. t \in Temps
      BY <2>3 DEF Between, Exposed, Through
    <3> QED
      BY <2>2, <2>3, <3>1, FirstThrough
  <2> QED
    BY <2>1, <2>4, <2>5 DEF Between
<1>6. \A k \in 0..(m - 1) : k \in S
  <2>1. m - 1 \in Nat
    BY <1>3
  <2> HIDE DEF S
  <2> QED
    BY <1>4, <1>5, <2>1, DownFrom
<1>7. 0 \in 0..(m - 1) /\ 0 + 1 = 1
  BY <1>3
<1>8. t \in Between(q[0 + 1], 1)
  BY <1>6, <1>7
<1> QED
  BY <1>1, <1>7, <1>8

-----------------------------------------------------------------------------
(* The invariant.  A block is settled once it has been scanned in this     *)
(* sweep, or in the last if that sweep has found nothing new so far.       *)
UnderScan(b) == b = n /\ lpc = "ins"
Settled(b) == (b > n \/ chg = FALSE) /\ ~UnderScan(b)
JmpGen(b) == IF prog.ret[b] = None THEN prog.jmp[b] ELSE {}

SetsOK ==
  /\ prog \in Programs
  /\ in \in [Blocks -> SUBSET Temps]
  /\ out \in [Blocks -> SUBSET Temps]
  /\ gen \in [Blocks -> SUBSET Temps]
  /\ chg \in BOOLEAN
  /\ n \in Blocks
  /\ lpc \in {"block", "ins", "done"}
  /\ lpc = "ins" => i \in 1..(LastOf(n) + 1)
  /\ lpc = "done" => n = 0 /\ chg = FALSE

(* What in holds, and the equations it solves.                             *)
Solved ==
  /\ lpc = "ins" => in[n] = Between(n, i)
  /\ \A b \in Blocks : Settled(b) => in[b] = Between(b, 1)
  /\ \A b \in Blocks : Settled(b) \/ UnderScan(b) => RGlob \subseteq out[b]
  /\ \A b \in Blocks : chg = FALSE /\ (b > n \/ (b = n /\ lpc # "block")) => Fed(b)

Justified ==
  /\ \A b \in Blocks : out[b] \subseteq OutInto(b)
  /\ \A b \in Blocks : ~UnderScan(b) => in[b] \subseteq Into(b)

(* What gen has gathered.                                                  *)
Gathered ==
  /\ \A b \in Blocks : Settled(b) => Mentions(prog.ins[b]) \cup JmpGen(b) \subseteq gen[b]
  /\ lpc = "ins" =>
       /\ JmpGen(n) \subseteq gen[n]
       /\ \A y \in i..LastOf(n) : InsGen(prog.ins[n][y]) \subseteq gen[n]

IInv == SetsOK /\ Solved /\ Justified /\ Gathered

-----------------------------------------------------------------------------
(* What is said of the function alone stays true while it does not change. *)
LEMMA FunctionKept ==
  ASSUME prog' = prog
  PROVE  /\ Blocks' = Blocks
         /\ \A b : LastOf(b)' = LastOf(b) /\ LastReads(b)' = LastReads(b)
                   /\ JmpGen(b)' = JmpGen(b) /\ PhiTos(b)' = PhiTos(b)
                   /\ \A s : PhiArgs(b, s)' = PhiArgs(b, s)
  BY DEF Blocks, LastOf, LastReads, JmpGen, PhiTos, PhiArgs

(* The paths, and what they justify, depend on the function alone, which   *)
(* no step changes.                                                        *)
LEMMA PathsKept ==
  ASSUME prog' = prog
  PROVE  \A b : Into(b)' = Into(b) /\ OutInto(b)' = OutInto(b)
<1>1. Paths' = Paths
  BY DEF Paths, Blocks
<1>2. \A b : ReadFirst(b)' = ReadFirst(b) /\ BlkDefs(b)' = BlkDefs(b)
  BY FunctionKept DEF ReadFirst, BlkDefs
<1>3. \A b : Into(b)' = Into(b)
  <2> DEFINE Carried(q) ==
        {t \in ReadFirst(q[Len(q)]) :
           \A x \in 1..(Len(q) - 1) : t \notin BlkDefs(q[x]) \cup PhiTos(q[x + 1])}
  <2>1. ASSUME NEW q PROVE Carried(q)' = Carried(q)
    <3>1. ReadFirst(q[Len(q)])' = ReadFirst(q[Len(q)])
      BY <1>2
    <3>2. \A x : BlkDefs(q[x])' = BlkDefs(q[x]) /\ PhiTos(q[x + 1])' = PhiTos(q[x + 1])
      BY <1>2, FunctionKept
    <3>3. \A t : t \in Carried(q)' <=> t \in Carried(q)
      BY <3>1, <3>2
    <3> HIDE DEF Carried
    <3> QED
      BY <3>3
  <2>2. \A b : Into(b) = UNION {Carried(q) : q \in {r \in Paths : r[1] = b}}
    BY DEF Into, LiveInto
  <2>3. \A b : Into(b)' = UNION {Carried(q)' : q \in {r \in Paths' : r[1] = b}}
    BY DEF Into, LiveInto
  <2> HIDE DEF Carried
  <2> QED
    BY <1>1, <2>1, <2>2, <2>3
<1> QED
  BY <1>3, FunctionKept DEF OutInto

(* What lies between two instructions changes only when out does.          *)
LEMMA BetweenKept ==
  ASSUME prog' = prog, NEW b, out'[b] = out[b]
  PROVE  \A x : Between(b, x)' = Between(b, x)
  BY FunctionKept DEF Between

(* Initially every set is empty and nothing is settled.                    *)
LEMMA InitIInv == ASSUME LiveAssumption, LiveInit PROVE IInv
<1>1. Shaped(prog) /\ prog \in Programs
  BY DEF LiveInit, LiveAssumption
<1>2. prog.n \in Nat \ {0} /\ Blocks = 0..(prog.n - 1)
  BY <1>1 DEF Shaped, Blocks
<1>3. SetsOK
  BY <1>1, <1>2 DEF LiveInit, LiveReady, SetsOK
<1>4. \A b \in Blocks : in[b] = {} /\ out[b] = {}
  BY DEF LiveInit, LiveReady
<1>5. \A b \in Blocks : ~Settled(b) /\ ~UnderScan(b)
  BY <1>2 DEF LiveInit, LiveReady, Settled, UnderScan
<1> QED
  BY <1>3, <1>4, <1>5 DEF LiveInit, LiveReady, IInv, Solved, Justified, Gathered

(* Whether the successors have fed a block depends on the function and on  *)
(* out.                                                                    *)
LEMMA FedKept ==
  ASSUME prog' = prog, out' = out
  PROVE  \A b : Fed(b)' <=> Fed(b)
<1>1. \A b, x : Between(b, x)' = Between(b, x)
  BY BetweenKept
<1> QED
  BY <1>1, FunctionKept DEF Fed

(* A block is entered: out grows by what the successors justify, and holds *)
(* it all when it does not change.                                         *)
LEMMA EnterKeeps == ASSUME LiveAssumption, IInv, BlkEnter PROVE IInv'
<1> DEFINE o == Grown(n) \cup RGlob
<1>1. Shaped(prog) /\ prog \in Programs /\ RGlob \subseteq Temps /\ n \in Blocks
  BY DEF LiveAssumption, IInv, SetsOK
<1>2. /\ lpc = "block" /\ prog' = prog /\ n' = n /\ lpc' = "ins" /\ i' = LastOf(n) + 1
      /\ out' = [out EXCEPT ![n] = o]
      /\ in' = [in EXCEPT ![n] = JmpLive(n, o)]
      /\ chg' = (chg \/ Grown(n) # out[n])
  BY DEF BlkEnter, LastOf
<1>3. /\ in \in [Blocks -> SUBSET Temps] /\ out \in [Blocks -> SUBSET Temps]
      /\ gen \in [Blocks -> SUBSET Temps] /\ chg \in BOOLEAN
  BY DEF IInv, SetsOK
<1>4. /\ Blocks' = Blocks /\ LastOf(n) \in Nat /\ LastOf(n)' = LastOf(n)
      /\ ToSet(prog.succ[n]) \subseteq Blocks
      /\ prog.jmp[n] \in SUBSET Temps /\ prog.ret[n] \in (SUBSET Temps) \cup {None}
  BY <1>1, <1>2, Parts, FunctionKept
<1>5. o \in SUBSET Temps /\ RGlob \subseteq o
  <2>1. ASSUME NEW s \in ToSet(prog.succ[n]) PROVE LiveOn(n, s) \subseteq Temps
    BY <1>3, <1>4 DEF LiveOn, PhiArgs
  <2> QED
    BY <1>1, <1>3, <2>1 DEF Grown
<1>6. JmpLive(n, o) = o \cup LastReads(n) /\ JmpLive(n, o) \in SUBSET Temps
  BY <1>4, <1>5 DEF JmpLive, LastReads
<1> HIDE DEF o
<1>7. /\ in' \in [Blocks -> SUBSET Temps] /\ out' \in [Blocks -> SUBSET Temps]
      /\ in'[n] = JmpLive(n, o) /\ out'[n] = o
      /\ \A b \in Blocks \ {n} : in'[b] = in[b] /\ out'[b] = out[b]
  BY <1>1, <1>2, <1>3, <1>5, <1>6
<1>8. /\ gen' \in [Blocks -> SUBSET Temps] /\ JmpGen(n) \subseteq gen'[n]
      /\ \A b \in Blocks \ {n} : gen'[b] = gen[b]
  <2> DEFINE g == gen[n] \cup (UNION {PhiArgs(n, s) : s \in ToSet(prog.succ[n])}) \cup JmpGen(n)
  <2>1. g \in SUBSET Temps /\ JmpGen(n) \subseteq g
    BY <1>1, <1>3, <1>4 DEF PhiArgs, JmpGen
  <2>2. gen' = [gen EXCEPT ![n] = g]
    BY DEF BlkEnter, JmpGen
  <2> HIDE DEF g
  <2> QED
    BY <1>1, <1>3, <2>1, <2>2
<1>9. chg' \in BOOLEAN /\ (chg' = FALSE => chg = FALSE /\ Grown(n) = out[n])
  BY <1>2, <1>3
<1>10. \A b \in Blocks : Settled(b)' => Settled(b) /\ b # n
  BY <1>2, <1>9 DEF Settled, UnderScan
<1>11. \A b \in Blocks : UnderScan(b)' <=> b = n
  BY <1>2 DEF UnderScan
<1>12. SetsOK'
  BY <1>1, <1>2, <1>4, <1>7, <1>8, <1>9 DEF SetsOK
<1>13. Solved'
  <2>1. ASSUME NEW c, NEW x, c = n, x = i' PROVE in'[c] = Between(c, x)'
    <3>1. /\ Exposed(prog.ins[n], LastOf(n) + 1) = {}
          /\ Through(prog.ins[n], LastOf(n) + 1) = Temps
      BY <1>4, AtEnd DEF LastOf
    <3>2. LastReads(c)' = LastReads(c) /\ out'[c] = o /\ prog' = prog
      BY <1>2, <1>7, <2>1, FunctionKept
    <3>3. Between(c, x)' = Temps \cap (o \cup LastReads(c))
      BY <1>2, <2>1, <3>1, <3>2 DEF Between
    <3> QED
      BY <1>6, <1>7, <2>1, <3>3
  <2>2. ASSUME NEW b \in Blocks, Settled(b)' PROVE in'[b] = Between(b, 1)'
    BY <1>2, <1>7, <1>10, <2>2, BetweenKept DEF IInv, Solved
  <2>3. ASSUME NEW b \in Blocks, Settled(b)' \/ UnderScan(b)' PROVE RGlob \subseteq out'[b]
    BY <1>5, <1>7, <1>10, <1>11, <2>3 DEF IInv, Solved
  <2>4. ASSUME NEW b \in Blocks, chg' = FALSE, b > n \/ b = n PROVE Fed(b)'
    <3>1. \A c \in Blocks : Settled(c)
      BY <1>2, <1>9, <2>4 DEF Settled, UnderScan
    <3>2. out[n] = o
      BY <1>1, <1>9, <2>4, <3>1 DEF o, IInv, Solved
    <3>3. out' = out
      BY <1>2, <1>3, <3>2
    <3>4. CASE b > n
      BY <1>2, <1>9, <2>4, <3>3, <3>4, FedKept DEF IInv, Solved
    <3>5. CASE b = n
      <4>1. \A s \in ToSet(prog.succ[n]) : in[s] = Between(s, 1)
        BY <1>4, <3>1 DEF IInv, Solved
      <4>2. \A s \in ToSet(prog.succ[n]) : LiveOn(n, s) \subseteq out[n]
        BY <1>9, <2>4 DEF Grown
      <4>3. Fed(n)
        BY <4>1, <4>2 DEF Fed, LiveOn
      <4> QED
        BY <1>2, <3>3, <3>5, <4>3, FedKept
    <3> QED
      BY <2>4, <3>4, <3>5
  <2>5. (in[n] = Between(n, i))'
    BY <1>2, <2>1
  <2>6. \A b \in Blocks : chg' = FALSE /\ (b > n' \/ (b = n' /\ lpc' # "block")) => Fed(b)'
    BY <1>2, <2>4
  <2> QED
    BY <1>4, <2>2, <2>3, <2>5, <2>6 DEF Solved
<1>14. Justified'
  <2>1. \A b : Into(b)' = Into(b) /\ OutInto(b)' = OutInto(b)
    BY <1>2, PathsKept
  <2>2. o \subseteq OutInto(n)
    <3>1. ASSUME NEW s \in ToSet(prog.succ[n]) PROVE LiveOn(n, s) \subseteq OutInto(n)
      <4>1. in[s] \subseteq Into(s)
        BY <1>2, <1>4 DEF IInv, Justified, UnderScan
      <4> QED
        BY <4>1 DEF LiveOn, OutInto
    <3>2. out[n] \subseteq OutInto(n) /\ RGlob \subseteq OutInto(n)
      BY <1>1 DEF IInv, Justified, OutInto
    <3> QED
      BY <3>1, <3>2 DEF o, Grown
  <2>3. ASSUME NEW b \in Blocks PROVE out'[b] \subseteq OutInto(b)
    BY <1>7, <2>2 DEF IInv, Justified
  <2>4. ASSUME NEW b \in Blocks, ~UnderScan(b)' PROVE in'[b] \subseteq Into(b)
    BY <1>2, <1>7, <1>11, <2>4 DEF IInv, Justified, UnderScan
  <2> QED
    BY <1>4, <2>1, <2>3, <2>4 DEF Justified
<1>15. Gathered'
  <2>1. \A b : JmpGen(b)' = JmpGen(b)
    BY <1>2, FunctionKept
  <2>2. i'..LastOf(n) = {}
    BY <1>2, <1>4
  <2>3. ASSUME NEW b \in Blocks, Settled(b)'
        PROVE  Mentions(prog.ins[b]) \cup JmpGen(b) \subseteq gen'[b]
    BY <1>8, <1>10, <2>3 DEF IInv, Gathered
  <2> QED
    BY <1>2, <1>4, <1>8, <2>1, <2>2, <2>3 DEF Gathered
<1> QED
  BY <1>12, <1>13, <1>14, <1>15 DEF IInv

(* A call has no result and its block mentions its registers.              *)
LEMMA Calls ==
  ASSUME LiveAssumption, prog \in Programs, NEW b \in Blocks, NEW x \in 1..LastOf(b),
         prog.ins[b][x].call
  PROVE  /\ prog.ins[b][x].to = None
         /\ prog.ins[b][x].ret \cup prog.ins[b][x].arg \subseteq Mentions(prog.ins[b])
<1>1. Copied(prog) /\ Shaped(prog)
  BY DEF LiveAssumption
<1>2. prog.ins[b][x] \in ToSet(prog.ins[b])
  BY <1>1, Parts DEF ToSet
<1> QED
  BY <1>1, <1>2 DEF Copied, Blocks

(* One instruction: its writes go, its reads come, and gen names both.     *)
LEMMA InsKeeps == ASSUME LiveAssumption, IInv, InsStep PROVE IInv'
<1> DEFINE s == prog.ins[n][i - 1]
<1> DEFINE live == IF s.call THEN CallLive(s, in[n]) ELSE in[n]
<1> DEFINE now == InsLive(s, live)
<1>1. Shaped(prog) /\ prog \in Programs /\ None \notin Temps /\ n \in Blocks
  BY DEF LiveAssumption, IInv, SetsOK
<1>2. /\ lpc = "ins" /\ prog' = prog /\ n' = n /\ lpc' = lpc /\ i' = i - 1
      /\ out' = out /\ chg' = chg /\ i > 1
      /\ in' = [in EXCEPT ![n] = now]
      /\ gen' = [gen EXCEPT ![n] = @ \cup InsGen(s)]
  BY DEF InsStep
<1>3. /\ in \in [Blocks -> SUBSET Temps] /\ out \in [Blocks -> SUBSET Temps]
      /\ gen \in [Blocks -> SUBSET Temps] /\ chg \in BOOLEAN
  BY DEF IInv, SetsOK
<1>4. LastOf(n) \in Nat /\ i \in 2..(LastOf(n) + 1) /\ i - 1 \in 1..LastOf(n)
  <2>1. LastOf(n) \in Nat
    BY <1>1, Parts
  <2>2. i \in 1..(LastOf(n) + 1)
    BY <1>2 DEF IInv, SetsOK
  <2> QED
    BY <1>2, <2>1, <2>2
<1>5. /\ s.to \in Temps \cup {None} /\ s.uses \in SUBSET Temps
      /\ s.ret \in SUBSET Temps /\ s.arg \in SUBSET Temps
      /\ s.call \in BOOLEAN /\ (s.call => s.to = None)
  BY <1>1, <1>4, Parts, Calls
<1>6. InsGen(s) \in SUBSET Temps
  BY <1>5 DEF InsGen
<1>7. now \in SUBSET Temps /\ now = (in[n] \ Defs(s)) \cup Reads(s)
  <2>1. in[n] \in SUBSET Temps
    BY <1>1, <1>3
  <2>2. CASE s.call
    BY <1>1, <1>5, <2>1, <2>2 DEF InsLive, CallLive, Defs, Reads
  <2>3. CASE ~s.call
    BY <1>1, <1>5, <2>1, <2>3 DEF InsLive, Defs, Reads
  <2> HIDE DEF now
  <2> QED
    BY <2>2, <2>3
<1>8. now = Between(n, i - 1)
  <2>1. in[n] = Between(n, i)
    BY <1>2 DEF IInv, Solved
  <2> QED
    BY <1>1, <1>4, <1>7, <2>1, BetweenStep
<1> HIDE DEF s, now
<1>9. /\ in' \in [Blocks -> SUBSET Temps] /\ in'[n] = now
      /\ \A b \in Blocks \ {n} : in'[b] = in[b]
  BY <1>1, <1>2, <1>3, <1>7
<1>10. /\ gen' \in [Blocks -> SUBSET Temps] /\ gen'[n] = gen[n] \cup InsGen(s)
       /\ \A b \in Blocks \ {n} : gen'[b] = gen[b]
  BY <1>1, <1>2, <1>3, <1>6
<1>11. /\ Blocks' = Blocks /\ LastOf(n)' = LastOf(n)
       /\ \A b : JmpGen(b)' = JmpGen(b)
  BY <1>2, FunctionKept
<1>12. \A b \in Blocks : /\ Settled(b)' <=> Settled(b)
                         /\ UnderScan(b)' <=> UnderScan(b)
                         /\ Settled(b) \/ ~UnderScan(b) => b # n
  BY <1>2 DEF Settled, UnderScan
<1>13. SetsOK'
  BY <1>1, <1>2, <1>3, <1>4, <1>9, <1>10, <1>11 DEF SetsOK, IInv
<1>14. Solved'
  <2>1. \A b, x : Between(b, x)' = Between(b, x)
    BY <1>2, BetweenKept
  <2>2. ASSUME NEW c, NEW x, c = n, x = i' PROVE in'[c] = Between(c, x)'
    BY <1>2, <1>8, <1>9, <2>1, <2>2
  <2>3. (in[n] = Between(n, i))'
    BY <1>2, <2>2
  <2>4. ASSUME NEW b \in Blocks, Settled(b) PROVE in'[b] = Between(b, 1)'
    BY <1>9, <1>12, <2>1, <2>4 DEF IInv, Solved
  <2>5. \A b \in Blocks : Fed(b)' <=> Fed(b)
    BY <1>2, FedKept
  <2> QED
    BY <1>2, <1>11, <1>12, <2>3, <2>4, <2>5 DEF IInv, Solved
<1>15. Justified'
  <2>1. \A b : Into(b)' = Into(b) /\ OutInto(b)' = OutInto(b)
    BY <1>2, PathsKept
  <2> QED
    BY <1>2, <1>9, <1>11, <1>12, <2>1 DEF IInv, Justified
<1>16. Gathered'
  <2>1. ASSUME NEW y \in (i - 1)..LastOf(n) PROVE InsGen(prog.ins[n][y]) \subseteq gen'[n]
    <3>1. CASE y = i - 1
      BY <1>10, <3>1 DEF s
    <3>2. CASE y # i - 1
      <4>1. y \in i..LastOf(n)
        BY <1>4, <3>2
      <4> QED
        BY <1>2, <1>10, <4>1 DEF IInv, Gathered
    <3> QED
      BY <3>1, <3>2
  <2>2. JmpGen(n) \subseteq gen'[n]
    BY <1>2, <1>10 DEF IInv, Gathered
  <2>3. ASSUME NEW b \in Blocks, Settled(b)
        PROVE  Mentions(prog.ins[b]) \cup JmpGen(b) \subseteq gen'[b]
    BY <1>10, <1>12, <2>3 DEF IInv, Gathered
  <2> QED
    BY <1>2, <1>11, <1>12, <2>1, <2>2, <2>3 DEF Gathered
<1> QED
  BY <1>13, <1>14, <1>15, <1>16 DEF IInv

(* A block scanned to its first instruction is settled.                    *)
LEMMA BlockScanned ==
  ASSUME LiveAssumption, IInv, lpc = "ins", i = 1
  PROVE  /\ in[n] = Between(n, 1) /\ RGlob \subseteq out[n]
         /\ in[n] \subseteq Into(n)
         /\ Mentions(prog.ins[n]) \cup JmpGen(n) \subseteq gen[n]
<1>1. Shaped(prog) /\ n \in Blocks
  BY DEF LiveAssumption, IInv, SetsOK
<1>2. in[n] = Between(n, 1) /\ RGlob \subseteq out[n]
  BY <1>1 DEF IInv, Solved, UnderScan
<1>3. in[n] \subseteq Into(n)
  BY <1>1, <1>2, NothingDead DEF IInv, Justified
<1>4. Mentions(prog.ins[n]) \cup JmpGen(n) \subseteq gen[n]
  <2>1. DOMAIN prog.ins[n] = 1..LastOf(n)
    BY <1>1, Parts
  <2> QED
    BY <2>1 DEF IInv, Gathered, Mentions, ToSet
<1> QED
  BY <1>2, <1>3, <1>4

(* Between blocks nothing is written; one block more is settled, or the    *)
(* next sweep starts from blocks that all are.                             *)
LEMMA TurnKeeps ==
  ASSUME LiveAssumption, IInv, BlkLeave \/ Sweep \/ End
  PROVE  IInv'
<1>1. Shaped(prog) /\ n \in Blocks /\ chg \in BOOLEAN
  BY DEF LiveAssumption, IInv, SetsOK
<1>2. prog.n \in Nat \ {0} /\ Blocks = 0..(prog.n - 1)
  BY <1>1 DEF Shaped, Blocks
<1>3. /\ lpc = "ins" /\ i = 1 /\ lpc' # "ins"
      /\ prog' = prog /\ in' = in /\ out' = out /\ gen' = gen
  BY DEF BlkLeave, Sweep, End
<1>4. n' \in Blocks /\ chg' \in BOOLEAN /\ lpc' \in {"block", "done"}
      /\ (lpc' = "done" => n' = 0 /\ chg' = FALSE)
  <2>1. CASE BlkLeave
    <3>1. n - 1 \in Blocks
      BY <1>1, <1>2, <2>1 DEF BlkLeave
    <3> QED
      BY <1>1, <2>1, <3>1 DEF BlkLeave
  <2>2. CASE Sweep
    <3>1. prog.n - 1 \in Blocks
      BY <1>2
    <3> QED
      BY <2>2, <3>1 DEF Sweep
  <2>3. CASE End
    BY <1>1, <2>3 DEF End
  <2> QED
    BY <2>1, <2>2, <2>3
<1>5. \A b \in Blocks : (b > n' \/ chg' = FALSE) => Settled(b) \/ b = n
  BY <1>1, <1>2, <1>3 DEF BlkLeave, Sweep, End, Settled, UnderScan
<1>6. \A b \in Blocks :
        chg' = FALSE /\ (b > n' \/ (b = n' /\ lpc' # "block")) => chg = FALSE /\ b >= n
  BY <1>1, <1>2, <1>3 DEF BlkLeave, Sweep, End
<1>7. /\ Blocks' = Blocks
      /\ \A b : JmpGen(b)' = JmpGen(b) /\ Into(b)' = Into(b) /\ OutInto(b)' = OutInto(b)
      /\ \A b, x : Between(b, x)' = Between(b, x)
      /\ \A b : Fed(b)' <=> Fed(b)
  BY <1>3, FunctionKept, PathsKept, BetweenKept, FedKept
<1>8. \A b \in Blocks : /\ Settled(b)' => Settled(b) \/ b = n
                        /\ ~UnderScan(b)'
  BY <1>3, <1>5 DEF Settled, UnderScan
<1>9. SetsOK'
  BY <1>3, <1>4, <1>7 DEF IInv, SetsOK
<1>10. Solved'
  <2>1. ASSUME NEW b \in Blocks, Settled(b)' PROVE in'[b] = Between(b, 1)' /\ RGlob \subseteq out'[b]
    BY <1>3, <1>7, <1>8, <2>1, BlockScanned DEF IInv, Solved
  <2>2. ASSUME NEW b \in Blocks, chg' = FALSE, b > n' \/ (b = n' /\ lpc' # "block")
        PROVE  Fed(b)'
    <3>1. chg = FALSE /\ (b > n \/ b = n)
      BY <1>1, <1>2, <1>6, <2>2
    <3> QED
      BY <1>3, <1>7, <3>1 DEF IInv, Solved
  <2> QED
    BY <1>3, <1>7, <1>8, <2>1, <2>2 DEF Solved
<1>11. Justified'
  <2>1. ASSUME NEW b \in Blocks PROVE in[b] \subseteq Into(b)
    BY <1>3, BlockScanned DEF IInv, Justified, UnderScan
  <2> QED
    BY <1>3, <1>7, <2>1 DEF IInv, Justified
<1>12. Gathered'
  <2>1. ASSUME NEW b \in Blocks, Settled(b)'
        PROVE  Mentions(prog.ins[b]) \cup JmpGen(b) \subseteq gen[b]
    BY <1>3, <1>8, <2>1, BlockScanned DEF IInv, Gathered
  <2> QED
    BY <1>3, <1>7, <2>1 DEF Gathered
<1> QED
  BY <1>9, <1>10, <1>11, <1>12 DEF IInv

(* Every step keeps it.                                                    *)
LEMMA StepKeeps == ASSUME LiveAssumption, IInv, [LiveNext]_lvars PROVE IInv'
<1>1. CASE BlkEnter
  BY <1>1, EnterKeeps
<1>2. CASE InsStep
  BY <1>2, InsKeeps
<1>3. CASE BlkLeave \/ Sweep \/ End
  BY <1>3, TurnKeeps
<1>4. CASE UNCHANGED lvars
  <2>1. /\ prog' = prog /\ in' = in /\ out' = out /\ gen' = gen
        /\ chg' = chg /\ n' = n /\ i' = i /\ lpc' = lpc
    BY <1>4 DEF lvars
  <2>2. /\ Blocks' = Blocks
        /\ \A b : /\ LastOf(b)' = LastOf(b) /\ JmpGen(b)' = JmpGen(b)
                  /\ Into(b)' = Into(b) /\ OutInto(b)' = OutInto(b)
                  /\ (Settled(b)' <=> Settled(b)) /\ (UnderScan(b)' <=> UnderScan(b))
                  /\ (Fed(b)' <=> Fed(b))
                  /\ \A x : Between(b, x)' = Between(b, x)
    BY <2>1, FunctionKept, PathsKept, BetweenKept, FedKept DEF Settled, UnderScan
  <2>3. SetsOK' /\ Justified' /\ Gathered'
    BY <2>1, <2>2 DEF IInv, SetsOK, Justified, Gathered
  <2>4. Solved'
    BY <2>1, <2>2 DEF IInv, Solved
  <2> QED
    BY <2>3, <2>4 DEF IInv
<1> QED
  BY <1>1, <1>2, <1>3, <1>4 DEF LiveNext

(* What a block neither writes nor reads lives through it.                 *)
LEMMA LivesThrough ==
  ASSUME LiveAssumption, prog \in Programs, NEW b \in Blocks,
         Mentions(prog.ins[b]) \cup JmpGen(b) \subseteq gen[b],
         RGlob \subseteq out[b], out[b] \in SUBSET Temps
  PROVE  Between(b, 1) \ gen[b] = out[b] \ gen[b]
<1>1. Shaped(prog) /\ Copied(prog)
  BY DEF LiveAssumption
<1>2. DOMAIN prog.ins[b] = 1..LastOf(b) /\ LastOf(b) \in Nat
  BY <1>1, Parts
<1>3. ASSUME NEW x \in 1..LastOf(b)
      PROVE  /\ Reads(prog.ins[b][x]) \subseteq gen[b]
             /\ Defs(prog.ins[b][x]) \subseteq gen[b]
  <2> DEFINE s == prog.ins[b][x]
  <2>1. InsGen(s) \subseteq Mentions(prog.ins[b])
    BY <1>2 DEF Mentions, ToSet
  <2>2. s.call => s.ret \cup s.arg \subseteq Mentions(prog.ins[b])
    BY Calls
  <2> HIDE DEF s
  <2> QED
    BY <2>1, <2>2 DEF s, InsGen, Reads, Defs
<1>4. LastReads(b) \subseteq out[b] \cup gen[b]
  BY <1>1 DEF LastReads, JmpGen, Copied, Blocks
<1>5. ASSUME NEW t, t \notin gen[b]
      PROVE  t \in Between(b, 1) <=> t \in out[b]
  <2>1. t \notin Exposed(prog.ins[b], 1)
    <3>1. \A y \in 1..LastOf(b) : t \notin Reads(prog.ins[b][y])
      BY <1>3, <1>5
    <3> QED
      BY <3>1 DEF Exposed, LastOf
  <2>2. t \in Temps => t \in Through(prog.ins[b], 1)
    BY <1>3, <1>5 DEF Through, LastOf
  <2> QED
    BY <1>4, <1>5, <2>1, <2>2 DEF Between
<1> QED
  BY <1>5

(* When the sweeps have stopped, the invariant is LiveOK.                  *)
LEMMA LiveHolds == ASSUME LiveAssumption, IInv PROVE LiveOK
<1> SUFFICES ASSUME lpc = "done" PROVE LiveOK
  BY DEF LiveOK
<1>1. /\ Shaped(prog) /\ prog \in Programs /\ n = 0 /\ chg = FALSE
      /\ in \in [Blocks -> SUBSET Temps] /\ out \in [Blocks -> SUBSET Temps]
  BY DEF LiveAssumption, IInv, SetsOK
<1>2. \A b \in Blocks : b > n \/ b = n
  BY <1>1 DEF Shaped, Blocks
<1>3. \A b \in Blocks : Settled(b) /\ ~UnderScan(b)
  BY <1>1 DEF Settled, UnderScan
<1>4. \A b \in Blocks : Fed(b)
  BY <1>1, <1>2 DEF IInv, Solved
<1>5. ASSUME NEW b \in Blocks
      PROVE  in[b] = Between(b, 1) /\ in[b] = Into(b)
  <2>1. in[b] = Between(b, 1) /\ in[b] \subseteq Into(b)
    BY <1>3 DEF IInv, Solved, Justified
  <2> QED
    BY <1>1, <1>4, <2>1, NothingMissing
<1>6. in = [b \in Blocks |-> LiveInto(b, Paths)]
  BY <1>1, <1>5 DEF Into
<1>7. ASSUME NEW b \in Blocks
      PROVE  /\ out[b] = RGlob \cup UNION {(in[s] \ PhiTos(s)) \cup PhiArgs(b, s) :
                                            s \in ToSet(prog.succ[b])}
             /\ in[b] \ gen[b] = out[b] \ gen[b]
  <2>1. \A s \in ToSet(prog.succ[b]) : s \in Blocks /\ in[s] = Into(s) /\ in[s] = Between(s, 1)
    BY <1>1, <1>5, Parts
  <2>2. RGlob \subseteq out[b] /\ out[b] \subseteq OutInto(b)
    BY <1>3 DEF IInv, Solved, Justified
  <2>3. \A s \in ToSet(prog.succ[b]) : (in[s] \ PhiTos(s)) \cup PhiArgs(b, s) \subseteq out[b]
    BY <1>4, <2>1 DEF Fed
  <2>4. OutInto(b) = RGlob \cup UNION {(in[s] \ PhiTos(s)) \cup PhiArgs(b, s) :
                                         s \in ToSet(prog.succ[b])}
    BY <2>1 DEF OutInto
  <2>5. in[b] \ gen[b] = out[b] \ gen[b]
    <3>1. Mentions(prog.ins[b]) \cup JmpGen(b) \subseteq gen[b]
      BY <1>3 DEF IInv, Gathered
    <3> QED
      BY <1>1, <1>5, <2>2, <3>1, LivesThrough
  <2> QED
    BY <2>2, <2>3, <2>4, <2>5
<1> QED
  BY <1>6, <1>7 DEF LiveOK

-----------------------------------------------------------------------------
(* When the sweeps stop, in and out hold exactly what a path to a use      *)
(* justifies, and gen tells what may live through a block (live.c:57-130). *)
THEOREM LiveCorrect == ASSUME LiveAssumption PROVE LiveSpec => []LiveOK
<1>1. LiveInit => IInv
  BY InitIInv
<1>2. IInv /\ [LiveNext]_lvars => IInv'
  BY StepKeeps
<1>3. IInv => LiveOK
  BY LiveHolds
<1> QED
  BY <1>1, <1>2, <1>3, PTL DEF LiveSpec

-----------------------------------------------------------------------------
(* Counting.  The sizes of finite sets of temporaries add up.              *)
LEMMA CountType ==
  ASSUME IsFiniteSet(Temps), NEW S \in SUBSET Temps
  PROVE  Count(S) \in [Classes -> Nat]
<1>1. ASSUME NEW k PROVE Cardinality(OfClass(S, k)) \in Nat
  <2>1. OfClass(S, k) \subseteq Temps
    BY DEF OfClass
  <2> QED
    BY <2>1, FS_Subset, FS_CardinalityType
<1> QED
  BY <1>1 DEF Count

(* The count of two sets that share nothing is the sum of their counts.    *)
LEMMA CountUnion ==
  ASSUME IsFiniteSet(Temps), NEW S \in SUBSET Temps, NEW T \in SUBSET Temps, S \cap T = {}
  PROVE  Count(S \cup T) = Plus(Count(S), Count(T))
<1>1. ASSUME NEW k \in Classes
      PROVE  Cardinality(OfClass(S \cup T, k)) =
               Cardinality(OfClass(S, k)) + Cardinality(OfClass(T, k))
  <2>1. OfClass(S \cup T, k) = OfClass(S, k) \cup OfClass(T, k)
    BY DEF OfClass
  <2>2. OfClass(S, k) \cap OfClass(T, k) = {}
    BY DEF OfClass
  <2>3. IsFiniteSet(OfClass(S, k)) /\ IsFiniteSet(OfClass(T, k))
    <3>1. OfClass(S, k) \subseteq Temps /\ OfClass(T, k) \subseteq Temps
      BY DEF OfClass
    <3> QED
      BY <3>1, FS_Subset
  <2> DEFINE A == OfClass(S, k)
  <2> DEFINE B == OfClass(T, k)
  <2>4. Cardinality(A \cup B) = Cardinality(A) + Cardinality(B) - Cardinality(A \cap B)
    <3> HIDE DEF A, B
    <3> QED
      BY <2>3, FS_Union DEF A, B
  <2>5. Cardinality(A \cap B) = 0
    BY <2>2, FS_EmptySet
  <2>6. Cardinality(A) \in Nat /\ Cardinality(B) \in Nat
    BY <2>3, FS_CardinalityType
  <2>7. Cardinality(A \cup B) = Cardinality(A) + Cardinality(B)
    <3> HIDE DEF A, B
    <3> QED
      BY <2>4, <2>5, <2>6
  <2> QED
    BY <2>1, <2>7
<1> QED
  BY <1>1 DEF Count, Plus

(* The count of what is left of a set is the difference of the counts.     *)
LEMMA CountRest ==
  ASSUME IsFiniteSet(Temps), NEW S \in SUBSET Temps, NEW T \in SUBSET S
  PROVE  Count(S \ T) = Minus(Count(S), Count(T))
<1>1. /\ S \ T \in SUBSET Temps /\ T \in SUBSET Temps
      /\ (S \ T) \cap T = {} /\ (S \ T) \cup T = S
  OBVIOUS
<1>2. Count(S) = Plus(Count(S \ T), Count(T))
  BY <1>1, CountUnion
<1>3. /\ Count(S) \in [Classes -> Nat] /\ Count(T) \in [Classes -> Nat]
      /\ Count(S \ T) \in [Classes -> Nat]
  BY <1>1, CountType
<1>4. \A k \in Classes : Count(S)[k] = Count(S \ T)[k] + Count(T)[k]
  BY <1>2 DEF Plus
<1>5. ASSUME NEW k \in Classes PROVE Count(S \ T)[k] = Minus(Count(S), Count(T))[k]
  BY <1>3, <1>4 DEF Minus
<1> QED
  BY <1>3, <1>5 DEF Minus

(* The greatest of two counts.                                             *)
LEMMA MostIs ==
  ASSUME NEW v \in [Classes -> Nat], NEW w \in [Classes -> Int]
  PROVE  /\ Most(v, w) \in [Classes -> Nat]
         /\ \A k \in Classes : /\ Most(v, w)[k] \in {v[k], w[k]}
                               /\ Most(v, w)[k] >= v[k] /\ Most(v, w)[k] >= w[k]
  BY DEF Most

(* A call takes what it returns in and gives what it is passed, which is   *)
(* not counted yet.                                                        *)
LEMMA CallCounts ==
  ASSUME IsFiniteSet(Temps), NEW s, NEW I \in SUBSET Temps, NEW E \in SUBSET Temps,
         s.ret \subseteq I, s.arg \in SUBSET Temps,
         s.arg \cap (I \ s.ret) = {}, E \cap (s.ret \cup s.arg) = {}
  PROVE  CallCount(s, Count(I \ E)) = Count(CallLive(s, I) \ E)
<1>1. s.ret \in SUBSET (I \ E) /\ I \ E \in SUBSET Temps
  OBVIOUS
<1>2. Count((I \ E) \ s.ret) = Minus(Count(I \ E), Count(s.ret))
  BY <1>1, CountRest
<1>3. /\ (I \ E) \ s.ret \in SUBSET Temps /\ ((I \ E) \ s.ret) \cap s.arg = {}
      /\ ((I \ E) \ s.ret) \cup s.arg = CallLive(s, I) \ E
  BY DEF CallLive
<1>4. Count(((I \ E) \ s.ret) \cup s.arg) = Plus(Count((I \ E) \ s.ret), Count(s.arg))
  BY <1>3, CountUnion
<1> QED
  BY <1>2, <1>3, <1>4 DEF CallCount

(* Any other instruction takes what it writes, if it was live, and gives   *)
(* what it reads and was not; E is left out of the count throughout.       *)
LEMMA InsCounts ==
  ASSUME IsFiniteSet(Temps), NEW s, NEW L \in SUBSET Temps, NEW E \in SUBSET L,
         s.uses \in SUBSET Temps, s.to \in E => s.to \in s.uses
  PROVE  InsCount(s, Count(L \ E), L) = Count(InsLive(s, L) \ E)
<1> DEFINE new == s.uses \ (L \ {s.to})
<1>1. L \ E \in SUBSET Temps /\ new \in SUBSET Temps
  OBVIOUS
<1>2. CASE s.to \notin E
  <2>1. {s.to} \cap L \in SUBSET (L \ E)
    BY <1>2
  <2>2. Count((L \ E) \ ({s.to} \cap L)) = Minus(Count(L \ E), Count({s.to} \cap L))
    BY <1>1, <2>1, CountRest
  <2> DEFINE left == (L \ E) \ ({s.to} \cap L)
  <2>3. left \in SUBSET Temps /\ left \cap new = {} /\ left \cup new = InsLive(s, L) \ E
    BY <1>2 DEF InsLive
  <2>4. Count(left \cup new) = Plus(Count(left), Count(new))
    <3> HIDE DEF left, new
    <3> QED
      BY <1>1, <2>3, CountUnion
  <2> QED
    BY <2>2, <2>3, <2>4 DEF InsCount
<1>3. CASE s.to \in E
  <2> DEFINE fresh == s.uses \ L
  <2>1. {s.to} \cap L = {s.to} /\ new = {s.to} \cup fresh /\ {s.to} \cap fresh = {}
    BY <1>3
  <2>2. {s.to} \in SUBSET Temps /\ fresh \in SUBSET Temps
    BY <1>3
  <2>3. /\ (L \ E) \cap fresh = {}
        /\ (L \ E) \cup fresh = InsLive(s, L) \ E
    BY <1>3 DEF InsLive
  <2> HIDE DEF new, fresh
  <2>4. Count(new) = Plus(Count({s.to}), Count(fresh))
    BY <2>1, <2>2, CountUnion
  <2>5. Count(InsLive(s, L) \ E) = Plus(Count(L \ E), Count(fresh))
    BY <1>1, <2>2, <2>3, CountUnion
  <2>6. /\ Count(L \ E) \in [Classes -> Nat] /\ Count({s.to}) \in [Classes -> Nat]
        /\ Count(fresh) \in [Classes -> Nat]
    BY <1>1, <2>2, CountType
  <2>7. ASSUME NEW a \in [Classes -> Nat], NEW b \in [Classes -> Nat], NEW c \in [Classes -> Nat]
        PROVE  Plus(Minus(a, b), Plus(b, c)) = Plus(a, c)
    BY DEF Plus, Minus
  <2>8. InsCount(s, Count(L \ E), L) =
          Plus(Minus(Count(L \ E), Count({s.to})), Plus(Count({s.to}), Count(fresh)))
    BY <2>1, <2>4 DEF InsCount, new
  <2> QED
    BY <2>5, <2>6, <2>7, <2>8
<1> QED
  BY <1>2, <1>3

-----------------------------------------------------------------------------
(* The pressure's invariant.  Excluded is what the count leaves out: in a  *)
(* block that returns, the registers of T.rglob.  Highs are the numbers of *)
(* live temporaries at the points scanned so far, v the greatest of them.  *)
Excluded(b) == IF prog.ret[b] # None THEN RGlob ELSE {}
Targets == UNION {ToSet(prog.succ[b]) : b \in Blocks}
Highs(b, x, k) ==
  {Count(Between(b, y))[k] : y \in x..(LastOf(b) + 1)} \cup
  {AtCall(b, y)[k] : y \in x..LastOf(b)}
Tops(v, b, x, k) == v \in Highs(b, x, k) /\ \A w \in Highs(b, x, k) : v >= w

(* A register of a call never lives from one block to the next.            *)
Confined ==
  /\ \A b \in Blocks : out[b] \cap CallRegs(prog) = {}
  /\ \A b \in Targets : ~UnderScan(b) => in[b] \cap CallRegs(prog) = {}
  /\ \A b \in Blocks : prog.ret[b] # None => out[b] \subseteq RGlob
  /\ lpc = "ins" /\ prog.ret[n] # None => RGlob \subseteq in[n]

Tallied ==
  /\ nlv \in [Classes -> Nat]
  /\ nlive \in [Blocks -> [Classes -> Nat]]
  /\ lpc = "ins" => nlv = Count(in[n] \ Excluded(n))
  /\ \A b \in Blocks : prog.ret[b] = None =>
       /\ Settled(b) => \A k \in Classes : Tops(nlive[b][k], b, 1, k)
       /\ UnderScan(b) => \A k \in Classes : Tops(nlive[b][k], b, i, k)
  /\ lpc = "done" => i = 1

PInv == IInv /\ Confined /\ Tallied

(* What a call is passed is not live behind it, what it returns is.        *)
LEMMA CallRegsLive ==
  ASSUME PressureAssumption, prog \in Programs, NEW b \in Blocks, NEW x \in 1..LastOf(b),
         prog.ins[b][x].call, out[b] \cap CallRegs(prog) = {}
  PROVE  LET s == prog.ins[b][x]
         IN /\ s.ret \cup s.arg \subseteq CallRegs(prog)
            /\ s.ret \subseteq Between(b, x + 1)
            /\ s.arg \cap (Between(b, x + 1) \ s.ret) = {}
<1> DEFINE s == prog.ins[b][x]
<1>1. Shaped(prog) /\ Fenced(prog)
  BY DEF PressureAssumption, LiveAssumption
<1>2. x \in DOMAIN prog.ins[b] /\ s \in ToSet(prog.ins[b]) /\ b \in 0..(prog.n - 1)
  BY <1>1, Parts DEF ToSet, Blocks
<1>3. s.ret \cup s.arg \subseteq CallRegs(prog)
  BY <1>2 DEF CallRegs
<1>4. /\ s.ret \subseteq Exposed(prog.ins[b], x + 1)
      /\ (s.arg \ s.ret) \cap Exposed(prog.ins[b], x + 1) = {}
      /\ prog.ret[b] # None =>
           (s.arg \ s.ret) \cap prog.ret[b] \cap Through(prog.ins[b], x + 1) = {}
      /\ prog.ret[b] = None => prog.jmp[b] \cap CallRegs(prog) = {}
      /\ RGlob \cap CallRegs(prog) = {}
  BY <1>1, <1>2 DEF Fenced
<1>5. ASSUME NEW t \in s.arg, t \in Between(b, x + 1), t \notin s.ret PROVE FALSE
  <2>1. t \notin Exposed(prog.ins[b], x + 1) /\ t \in CallRegs(prog)
    BY <1>3, <1>4, <1>5
  <2>2. t \in Through(prog.ins[b], x + 1) /\ t \in LastReads(b)
    BY <1>5, <2>1 DEF Between
  <2> QED
    BY <1>4, <1>5, <2>1, <2>2 DEF LastReads
<1> QED
  BY <1>3, <1>4, <1>5 DEF Between

(* Nothing of a call is live into a block that is jumped to.               *)
LEMMA ConfinedInto ==
  ASSUME PressureAssumption, prog \in Programs, NEW b \in Blocks, b \in Targets,
         out[b] \cap CallRegs(prog) = {}, prog.ret[b] # None => out[b] \subseteq RGlob
  PROVE  Between(b, 1) \cap CallRegs(prog) = {}
<1>1. Shaped(prog) /\ Fenced(prog)
  BY DEF PressureAssumption, LiveAssumption
<1>2. Exposed(prog.ins[b], 1) \cap CallRegs(prog) = {}
  BY <1>1 DEF Fenced, Targets, Blocks
<1>3. /\ prog.ret[b] = None => prog.jmp[b] \cap CallRegs(prog) = {}
      /\ prog.ret[b] # None => prog.ret[b] \cap Through(prog.ins[b], 1) = {}
      /\ RGlob \cap CallRegs(prog) = {}
  BY <1>1 DEF Fenced, Blocks
<1> QED
  BY <1>2, <1>3 DEF Between, LastReads

(* Initially nothing is counted.                                           *)
LEMMA InitPInv == ASSUME PressureAssumption, LiveInit PROVE PInv
<1>1. IInv /\ Shaped(prog)
  BY InitIInv DEF PressureAssumption, LiveAssumption, LiveInit
<1>2. \A b \in Blocks : in[b] = {} /\ out[b] = {} /\ ~Settled(b) /\ ~UnderScan(b)
  BY <1>1 DEF LiveInit, LiveReady, Settled, UnderScan, Shaped, Blocks
<1>3. Targets \subseteq Blocks
  BY <1>1, Parts DEF Targets
<1>4. Confined
  BY <1>2, <1>3 DEF Confined, LiveInit, LiveReady
<1>5. nlv \in [Classes -> Nat] /\ nlive \in [Blocks -> [Classes -> Nat]]
  BY DEF LiveInit, LiveReady
<1>6. Tallied
  BY <1>2, <1>5 DEF Tallied, LiveInit, LiveReady
<1> QED
  BY <1>1, <1>4, <1>6 DEF PInv

(* The highest count seen from an instruction on changes only when out     *)
(* does.                                                                   *)
LEMMA TopsKept ==
  ASSUME prog' = prog, NEW b, out'[b] = out[b]
  PROVE  \A v, x, k : Tops(v, b, x, k)' <=> Tops(v, b, x, k)
<1>1. \A y : Between(b, y)' = Between(b, y)
  BY BetweenKept
<1>2. \A y : AtCall(b, y)' = AtCall(b, y)
  BY <1>1 DEF AtCall
<1>3. LastOf(b)' = LastOf(b)
  BY FunctionKept
<1>4. \A x, k : Highs(b, x, k)' = Highs(b, x, k)
  BY <1>1, <1>2, <1>3 DEF Highs
<1> QED
  BY <1>4 DEF Tops

(* What is left out of the count depends on the function alone.            *)
LEMMA RestKept ==
  ASSUME prog' = prog
  PROVE  /\ Targets' = Targets
         /\ \A b : Excluded(b)' = Excluded(b)
  BY FunctionKept DEF Targets, Excluded

(* A block is entered: the count starts from what is live at its end.      *)
LEMMA EnterTallies ==
  ASSUME PressureAssumption, PInv, BlkEnter
  PROVE  Confined' /\ Tallied'
<1> DEFINE o == Grown(n) \cup RGlob
<1>1. /\ Shaped(prog) /\ Fenced(prog) /\ prog \in Programs /\ n \in Blocks
      /\ RGlob \subseteq Temps /\ IsFiniteSet(Temps) /\ LiveAssumption /\ IInv
  BY DEF PressureAssumption, LiveAssumption, PInv, IInv, SetsOK
<1>2. /\ lpc = "block" /\ prog' = prog /\ n' = n /\ lpc' = "ins" /\ i' = LastOf(n) + 1
      /\ out' = [out EXCEPT ![n] = o]
      /\ in' = [in EXCEPT ![n] = JmpLive(n, o)]
      /\ nlv' = JmpCount(n, o)
      /\ nlive' = [nlive EXCEPT ![n] = nlv']
      /\ (chg' = FALSE => chg = FALSE)
  BY DEF BlkEnter, LastOf, IInv, SetsOK, PInv
<1>3. /\ in \in [Blocks -> SUBSET Temps] /\ out \in [Blocks -> SUBSET Temps]
      /\ nlive \in [Blocks -> [Classes -> Nat]]
  BY DEF PInv, IInv, SetsOK, Tallied
<1>4. /\ Blocks' = Blocks /\ Targets' = Targets /\ LastOf(n) \in Nat
      /\ ToSet(prog.succ[n]) \subseteq Blocks /\ ToSet(prog.succ[n]) \subseteq Targets
      /\ Targets \subseteq Blocks
      /\ prog.jmp[n] \in SUBSET Temps /\ prog.ret[n] \in (SUBSET Temps) \cup {None}
  BY <1>1, <1>2, Parts, FunctionKept, RestKept DEF Targets
<1>5. /\ out' \in [Blocks -> SUBSET Temps] /\ in' \in [Blocks -> SUBSET Temps]
  <2>1. IInv'
    BY <1>1, EnterKeeps
  <2> QED
    BY <1>4, <2>1 DEF IInv, SetsOK
<1>6. /\ in'[n] = JmpLive(n, o) /\ out'[n] = o
      /\ \A b \in Blocks \ {n} : in'[b] = in[b] /\ out'[b] = out[b]
  BY <1>1, <1>2, <1>3
<1>7. o \in SUBSET Temps /\ JmpLive(n, o) \in SUBSET Temps
  BY <1>1, <1>5, <1>6
<1>8. o \cap CallRegs(prog) = {}
  <2>1. ASSUME NEW s \in ToSet(prog.succ[n]) PROVE LiveOn(n, s) \cap CallRegs(prog) = {}
    <3>1. in[s] \cap CallRegs(prog) = {}
      BY <1>2, <1>4 DEF PInv, Confined, UnderScan
    <3>2. PhiArgs(n, s) \cap CallRegs(prog) = {}
      <4>1. \A h \in ToSet(prog.phi[s]) : \A y \in DOMAIN h.arg : h.arg[y] \notin CallRegs(prog)
        BY <1>1 DEF Fenced, Blocks
      <4> QED
        BY <4>1 DEF PhiArgs
    <3> QED
      BY <3>1, <3>2 DEF LiveOn
  <2>2. out[n] \cap CallRegs(prog) = {} /\ RGlob \cap CallRegs(prog) = {}
    BY <1>1 DEF PInv, Confined, Fenced
  <2> QED
    BY <2>1, <2>2 DEF Grown
<1>9. prog.ret[n] # None => o = RGlob /\ prog.ret[n] \cap RGlob = {}
  <2> SUFFICES ASSUME prog.ret[n] # None PROVE o = RGlob /\ prog.ret[n] \cap RGlob = {}
    OBVIOUS
  <2>1. prog.succ[n] = <<>> /\ prog.ret[n] \cap RGlob = {}
    BY <1>1 DEF Fenced, Blocks
  <2>2. ToSet(prog.succ[n]) = {}
    BY <2>1 DEF ToSet
  <2>3. out[n] \subseteq RGlob
    BY <1>1 DEF PInv, Confined
  <2> QED
    BY <2>1, <2>2, <2>3 DEF Grown
<1> HIDE DEF o
<1>10. nlv' = Count(JmpLive(n, o) \ Excluded(n))
  <2>1. CASE prog.ret[n] # None
    <3>1. JmpLive(n, o) \ Excluded(n) = prog.ret[n]
      BY <1>9, <2>1 DEF JmpLive, Excluded
    <3> QED
      BY <1>2, <2>1, <3>1 DEF JmpCount
  <2>2. CASE prog.ret[n] = None
    <3> DEFINE new == prog.jmp[n] \ o
    <3>1. new \in SUBSET Temps /\ o \cap new = {} /\ JmpLive(n, o) \ Excluded(n) = o \cup new
      BY <1>4, <2>2 DEF JmpLive, Excluded
    <3>2. Count(o \cup new) = Plus(Count(o), Count(new))
      <4> HIDE DEF new
      <4> QED
        BY <1>1, <1>7, <3>1, CountUnion
    <3> QED
      BY <1>2, <2>2, <3>1, <3>2 DEF JmpCount
  <2> QED
    BY <2>1, <2>2
<1>11. nlv' \in [Classes -> Nat]
  <2>1. JmpLive(n, o) \ Excluded(n) \in SUBSET Temps
    BY <1>7
  <2> QED
    BY <1>1, <1>10, <2>1, CountType
<1>12. /\ nlive' \in [Blocks -> [Classes -> Nat]] /\ nlive'[n] = nlv'
       /\ \A b \in Blocks \ {n} : nlive'[b] = nlive[b]
  BY <1>1, <1>2, <1>3, <1>11
<1>13. Confined'
  <2>1. \A b \in Blocks : out'[b] \cap CallRegs(prog) = {}
    BY <1>6, <1>8 DEF PInv, Confined
  <2>2. ASSUME NEW b \in Targets, b # n PROVE in'[b] \cap CallRegs(prog) = {}
    BY <1>2, <1>4, <1>6, <2>2 DEF PInv, Confined, UnderScan
  <2>3. ASSUME NEW b \in Blocks, prog.ret[b] # None PROVE out'[b] \subseteq RGlob
    BY <1>6, <1>9, <2>3 DEF PInv, Confined
  <2>4. prog.ret[n] # None => RGlob \subseteq in'[n]
    BY <1>6, <1>9 DEF JmpLive
  <2>5. CallRegs(prog)' = CallRegs(prog)
    BY <1>2
  <2>6. \A b : UnderScan(b)' <=> b = n
    BY <1>2 DEF UnderScan
  <2> QED
    BY <1>2, <1>4, <2>1, <2>2, <2>3, <2>4, <2>5, <2>6 DEF Confined
<1>14. Tallied'
  <2>1. nlv' = Count(in'[n] \ Excluded(n))
    BY <1>6, <1>10
  <2>2. Excluded(n)' = Excluded(n)
    BY <1>2, RestKept
  <2>3. ASSUME NEW b \in Blocks, prog.ret[b] = None, Settled(b)', NEW k \in Classes, NEW v,
               v = nlive'[b][k]
        PROVE  Tops(v, b, 1, k)'
    <3>1. b # n /\ Settled(b)
      BY <1>2, <2>3 DEF Settled, UnderScan
    <3>2. Tops(nlive[b][k], b, 1, k) /\ nlive'[b] = nlive[b]
      BY <1>12, <2>3, <3>1 DEF PInv, Tallied
    <3> QED
      BY <1>2, <1>6, <2>3, <3>1, <3>2, TopsKept
  <2>4. ASSUME NEW c, c = n, NEW x, x = i', prog.ret[c] = None, NEW k \in Classes, NEW v,
               v = nlive'[c][k]
        PROVE  Tops(v, c, x, k)'
    <3>1. Between(c, x)' = in'[c]
      <4>1. (in[n] = Between(n, i))'
        BY <1>1, <1>2, EnterKeeps DEF IInv, Solved
      <4> QED
        BY <1>2, <2>4, <4>1
    <3>2. in'[c] \ Excluded(c) = in'[c]
      BY <2>4 DEF Excluded
    <3>3. v = Count(in'[c])[k]
      BY <1>12, <2>1, <2>4, <3>2
    <3>4. /\ LastOf(c) = LastOf(n) /\ LastOf(c)' = LastOf(c)
      BY <1>2, <2>4, FunctionKept
    <3>5. x..(LastOf(c) + 1) = {x} /\ x..LastOf(c) = {}
      BY <1>2, <1>4, <2>4, <3>4
    <3>6. Highs(c, x, k)' = {Count(in'[c])[k]}
      BY <3>1, <3>4, <3>5 DEF Highs
    <3>7. Count(in'[c])[k] \in Nat
      BY <1>1, <1>5, <2>4, CountType
    <3> QED
      BY <3>3, <3>6, <3>7 DEF Tops
  <2>5. (nlv = Count(in[n] \ Excluded(n)))'
    BY <1>2, <2>1, <2>2
  <2>6. ASSUME NEW b \in Blocks, prog.ret[b] = None
        PROVE  /\ Settled(b)' => \A k \in Classes : Tops(nlive[b][k], b, 1, k)'
               /\ UnderScan(b)' => \A k \in Classes : Tops(nlive[b][k], b, i, k)'
    <3>1. UnderScan(b)' <=> b = n
      BY <1>2 DEF UnderScan
    <3> QED
      BY <2>3, <2>4, <2>6, <3>1
  <2> QED
    BY <1>2, <1>4, <1>11, <1>12, <2>5, <2>6 DEF Tallied
<1> QED
  BY <1>13, <1>14

(* The numbers at the points of a block, from one point to the one before. *)
LEMMA AtPoints ==
  ASSUME PressureAssumption, NEW b, NEW x, NEW k \in Classes
  PROVE  Count(Between(b, x))[k] \in Nat /\ AtCall(b, x)[k] \in Nat
<1>1. Between(b, x) \in SUBSET Temps /\ Between(b, x + 1) \ prog.ins[b][x].ret \in SUBSET Temps
  BY DEF Between, Exposed, Through
<1>2. /\ Count(Between(b, x)) \in [Classes -> Nat]
      /\ Count(Between(b, x + 1) \ prog.ins[b][x].ret) \in [Classes -> Nat]
  BY <1>1, CountType DEF PressureAssumption
<1>3. NRSave \in [Classes -> Nat]
  BY DEF PressureAssumption
<1>4. \A v, w \in [Classes -> Nat] : Plus(v, w)[k] \in Nat
  BY DEF Plus
<1>5. AtCall(b, x)[k] \in Nat
  <2>1. CASE prog.ins[b][x].call
    BY <1>2, <1>3, <1>4, <2>1 DEF AtCall
  <2>2. CASE ~prog.ins[b][x].call
    BY <2>2 DEF AtCall
  <2> QED
    BY <2>1, <2>2
<1> QED
  BY <1>2, <1>5

(* The counts met from an instruction on are those met behind it, the one  *)
(* before it, and the one at it if it is a call.                           *)
LEMMA HighsStep ==
  ASSUME Shaped(prog), NEW b \in Blocks, NEW x \in 1..LastOf(b), NEW k
  PROVE  Highs(b, x, k) = Highs(b, x + 1, k) \cup {Count(Between(b, x))[k], AtCall(b, x)[k]}
<1>1. LastOf(b) \in Nat
  BY Parts
<1>2. /\ x..(LastOf(b) + 1) = {x} \cup (x + 1)..(LastOf(b) + 1)
      /\ x..LastOf(b) = {x} \cup (x + 1)..LastOf(b)
  BY <1>1
<1> QED
  BY <1>2 DEF Highs

(* The larger of the highest count so far and the new ones is the highest  *)
(* count.                                                                  *)
LEMMA TopsStep ==
  ASSUME PressureAssumption, Shaped(prog), NEW b \in Blocks, NEW x \in 1..LastOf(b),
         NEW k \in Classes, NEW v \in Nat, Tops(v, b, x + 1, k),
         NEW w \in Nat, w \in {v, Count(Between(b, x))[k], AtCall(b, x)[k]},
         w >= v, w >= Count(Between(b, x))[k], w >= AtCall(b, x)[k]
  PROVE  Tops(w, b, x, k)
<1>1. \A u \in Highs(b, x + 1, k) : u \in Nat
  BY AtPoints DEF Highs
<1>2. \A u \in Highs(b, x + 1, k) : w >= u
  <2>1. \A a, c, d \in Nat : a >= c /\ c >= d => a >= d
    OBVIOUS
  <2> QED
    BY <1>1, <2>1 DEF Tops
<1> QED
  BY <1>2, HighsStep DEF Tops

(* One instruction: the count follows the set, and the pressure the count. *)
LEMMA InsTallies ==
  ASSUME PressureAssumption, PInv, InsStep
  PROVE  Confined' /\ Tallied'
<1> DEFINE s == prog.ins[n][i - 1]
<1> DEFINE E == Excluded(n)
<1> DEFINE live == IF s.call THEN CallLive(s, in[n]) ELSE in[n]
<1> DEFINE v == IF s.call THEN CallCount(s, nlv) ELSE nlv
<1> DEFINE peak == IF s.call THEN Most(nlive[n], CallPeak(s, nlv)) ELSE nlive[n]
<1> DEFINE now == InsLive(s, live)
<1>1. /\ Shaped(prog) /\ Fenced(prog) /\ prog \in Programs /\ n \in Blocks
      /\ RGlob \subseteq Temps /\ IsFiniteSet(Temps) /\ LiveAssumption /\ IInv
      /\ NRSave \in [Classes -> Nat]
  BY DEF PressureAssumption, LiveAssumption, PInv, IInv, SetsOK
<1>2. /\ lpc = "ins" /\ prog' = prog /\ n' = n /\ lpc' = lpc /\ i' = i - 1
      /\ out' = out /\ chg' = chg /\ i > 1
      /\ in' = [in EXCEPT ![n] = now]
      /\ nlv' = InsCount(s, v, live)
      /\ nlive' = [nlive EXCEPT ![n] = Most(peak, nlv')]
  BY DEF InsStep
<1>3. /\ in \in [Blocks -> SUBSET Temps]
      /\ nlive \in [Blocks -> [Classes -> Nat]] /\ nlv \in [Classes -> Nat]
      /\ in[n] = Between(n, i) /\ nlv = Count(in[n] \ E)
      /\ out[n] \cap CallRegs(prog) = {}
  BY <1>1, <1>2 DEF PInv, IInv, SetsOK, Solved, Tallied, Confined
<1>4. LastOf(n) \in Nat /\ i - 1 \in 1..LastOf(n) /\ (i - 1) + 1 = i
  <2>1. LastOf(n) \in Nat
    BY <1>1, Parts
  <2>2. i \in 1..(LastOf(n) + 1)
    BY <1>1, <1>2 DEF IInv, SetsOK
  <2> QED
    BY <1>2, <2>1, <2>2
<1>5. /\ s.to \in Temps \cup {None} /\ s.uses \in SUBSET Temps
      /\ s.ret \in SUBSET Temps /\ s.arg \in SUBSET Temps /\ s.call \in BOOLEAN
  BY <1>1, <1>4, Parts
<1>6. s.call => /\ s.ret \cup s.arg \subseteq CallRegs(prog) /\ s.ret \subseteq in[n]
                /\ s.arg \cap (in[n] \ s.ret) = {}
  BY <1>1, <1>3, <1>4, CallRegsLive
<1>7. /\ E \in SUBSET Temps /\ E \subseteq in[n] /\ E \cap CallRegs(prog) = {}
      /\ (s.to \in E => s.to \in s.uses)
  <2>1. CASE prog.ret[n] = None
    BY <2>1 DEF Excluded
  <2>2. CASE prog.ret[n] # None
    <3>1. s \in ToSet(prog.ins[n])
      BY <1>1, <1>4, Parts DEF ToSet
    <3>2. /\ RGlob \cap CallRegs(prog) = {}
          /\ s.to \in RGlob => s.to \in s.uses
      BY <1>1, <2>2, <3>1 DEF Fenced, Blocks
    <3>3. RGlob \subseteq in[n]
      BY <1>2, <2>2 DEF PInv, Confined
    <3>4. E = RGlob
      BY <2>2 DEF Excluded
    <3> QED
      BY <1>1, <3>2, <3>3, <3>4
  <2> QED
    BY <2>1, <2>2
<1> HIDE DEF s, E
<1>8. in[n] \in SUBSET Temps
  BY <1>1, <1>3
<1>9. /\ live \in SUBSET Temps /\ E \subseteq live /\ v = Count(live \ E)
  <2>1. CASE s.call
    <3>1. CallCount(s, Count(in[n] \ E)) = Count(CallLive(s, in[n]) \ E)
      <4> DEFINE I == in[n]
      <4>1. /\ E \cap (s.ret \cup s.arg) = {} /\ E \in SUBSET Temps /\ I \in SUBSET Temps
            /\ s.ret \subseteq I /\ s.arg \in SUBSET Temps /\ s.arg \cap (I \ s.ret) = {}
        BY <1>5, <1>6, <1>7, <1>8, <2>1
      <4> HIDE DEF I, live, v, peak, now
      <4>2. CallCount(s, Count(I \ E)) = Count(CallLive(s, I) \ E)
        BY <1>1, <4>1, CallCounts
      <4> QED
        BY <4>2 DEF I
    <3>2. CallLive(s, in[n]) \in SUBSET Temps /\ E \subseteq CallLive(s, in[n])
      BY <1>5, <1>6, <1>7, <1>8, <2>1 DEF CallLive
    <3> QED
      BY <1>3, <2>1, <3>1, <3>2
  <2>2. CASE ~s.call
    BY <1>3, <1>7, <1>8, <2>2
  <2> QED
    BY <2>1, <2>2
<1>10. InsCount(s, v, live) = Count(now \ E) /\ now \in SUBSET Temps /\ E \subseteq now
  <2> HIDE DEF live, v
  <2>1. InsCount(s, Count(live \ E), live) = Count(InsLive(s, live) \ E)
    BY <1>1, <1>5, <1>7, <1>9, InsCounts
  <2>2. InsLive(s, live) \in SUBSET Temps /\ E \subseteq InsLive(s, live)
    BY <1>5, <1>7, <1>9 DEF InsLive
  <2> QED
    BY <1>9, <2>1, <2>2
<1>11. peak \in [Classes -> Nat]
  <2>1. CallPeak(s, nlv) \in [Classes -> Int]
    <3>1. Count(s.ret) \in [Classes -> Nat]
      BY <1>1, <1>5, CountType
    <3>2. \A a, b, c \in [Classes -> Nat] : Plus(Minus(a, b), c) \in [Classes -> Int]
      BY DEF Plus, Minus
    <3> QED
      BY <1>1, <1>3, <3>1, <3>2 DEF CallPeak
  <2>2. nlive[n] \in [Classes -> Nat]
    BY <1>1, <1>3
  <2>3. Most(nlive[n], CallPeak(s, nlv)) \in [Classes -> Nat]
    BY <2>1, <2>2, MostIs
  <2> QED
    BY <2>2, <2>3
<1> HIDE DEF live, v, peak, now
<1>12. nlv' = Count(now \ E) /\ nlv' \in [Classes -> Nat]
  <2>1. now \ E \in SUBSET Temps
    BY <1>10
  <2>2. nlv' = Count(now \ E)
    BY <1>2, <1>10
  <2> QED
    BY <1>1, <2>1, <2>2, CountType
<1>13. /\ in'[n] = now /\ (\A b \in Blocks \ {n} : in'[b] = in[b])
       /\ nlive' \in [Blocks -> [Classes -> Nat]] /\ nlive'[n] = Most(peak, nlv')
       /\ \A b \in Blocks \ {n} : nlive'[b] = nlive[b]
  <2>1. Most(peak, nlv') \in [Classes -> Nat]
    <3>1. nlv' \in [Classes -> Int]
      BY <1>12
    <3> QED
      BY <1>11, <3>1, MostIs
  <2> QED
    BY <1>1, <1>2, <1>3, <2>1
<1>14. /\ Blocks' = Blocks /\ Targets' = Targets /\ Targets \subseteq Blocks
       /\ \A b : Excluded(b)' = Excluded(b)
       /\ \A b : (UnderScan(b)' <=> b = n) /\ (UnderScan(b) <=> b = n)
       /\ \A b : Settled(b)' => Settled(b) /\ b # n
  BY <1>1, <1>2, Parts, FunctionKept, RestKept DEF Targets, UnderScan, Settled
<1>15. Confined'
  <2>1. \A b \in Targets : b # n => in'[b] \cap CallRegs(prog) = {}
    BY <1>13, <1>14 DEF PInv, Confined
  <2>2. prog.ret[n] # None => RGlob \subseteq in'[n]
    BY <1>10, <1>13 DEF E, Excluded
  <2>3. CallRegs(prog)' = CallRegs(prog)
    BY <1>2
  <2> QED
    BY <1>2, <1>14, <2>1, <2>2, <2>3 DEF PInv, Confined
<1>16. ASSUME prog.ret[n] = None, NEW k \in Classes
       PROVE  Tops(nlive'[n][k], n, i - 1, k)
  <2>1. Tops(nlive[n][k], n, (i - 1) + 1, k)
    BY <1>1, <1>4, <1>14, <1>16 DEF PInv, Tallied
  <2>2. E = {}
    BY <1>16 DEF E, Excluded
  <2>3. Count(Between(n, i - 1))[k] = nlv'[k]
    <3>1. in'[n] = Between(n, i - 1)
      <4>1. (in[n] = Between(n, i))'
        BY <1>1, <1>2, InsKeeps DEF InsStep, IInv, Solved
      <4>2. \A c, x : c = n /\ x = i' => in'[c] = Between(c, x)'
        BY <1>2, <4>1
      <4>3. \A c, x : Between(c, x)' = Between(c, x)
        BY <1>2, BetweenKept
      <4> QED
        BY <1>2, <4>2, <4>3
    <3> QED
      BY <1>12, <1>13, <2>2, <3>1
  <2>4. /\ nlive[n][k] \in Nat /\ nlv'[k] \in Nat /\ peak[k] \in Nat /\ nlive'[n][k] \in Nat
    BY <1>1, <1>3, <1>11, <1>12, <1>13
  <2>5. /\ nlive'[n][k] \in {peak[k], nlv'[k]}
        /\ nlive'[n][k] >= peak[k] /\ nlive'[n][k] >= nlv'[k]
    <3>1. nlv' \in [Classes -> Int]
      BY <1>12
    <3>2. /\ Most(peak, nlv')[k] \in {peak[k], nlv'[k]}
          /\ Most(peak, nlv')[k] >= peak[k] /\ Most(peak, nlv')[k] >= nlv'[k]
      BY <1>11, <3>1, MostIs
    <3> QED
      BY <1>13, <3>2
  <2>6. /\ peak[k] \in {nlive[n][k], AtCall(n, i - 1)[k]}
        /\ peak[k] >= nlive[n][k] /\ peak[k] >= AtCall(n, i - 1)[k]
    <3>1. CASE s.call
      <4>1. Count(in[n] \ s.ret) = Minus(Count(in[n]), Count(s.ret)) /\ nlv = Count(in[n])
        BY <1>1, <1>3, <1>6, <1>8, <2>2, <3>1, CountRest
      <4>2. AtCall(n, i - 1) = CallPeak(s, nlv)
        BY <1>3, <1>4, <3>1, <4>1 DEF AtCall, CallPeak, s
      <4>3. AtCall(n, i - 1)[k] \in Nat
        BY AtPoints
      <4>4. peak[k] = IF nlive[n][k] > AtCall(n, i - 1)[k] THEN nlive[n][k]
                      ELSE AtCall(n, i - 1)[k]
        BY <3>1, <4>2 DEF peak, Most
      <4> QED
        BY <2>4, <4>3, <4>4
    <3>2. CASE ~s.call
      <4>1. AtCall(n, i - 1)[k] = 0 /\ peak = nlive[n]
        BY <3>2 DEF AtCall, peak, s
      <4> QED
        BY <2>4, <4>1
    <3> QED
      BY <3>1, <3>2
  <2>7. /\ nlive'[n][k] >= nlive[n][k] /\ nlive'[n][k] >= AtCall(n, i - 1)[k]
        /\ nlive'[n][k] >= Count(Between(n, i - 1))[k]
        /\ nlive'[n][k] \in {nlive[n][k], Count(Between(n, i - 1))[k], AtCall(n, i - 1)[k]}
    <3>1. AtCall(n, i - 1)[k] \in Nat
      BY AtPoints
    <3> QED
      BY <2>3, <2>4, <2>5, <2>6, <3>1
  <2> QED
    BY <1>1, <1>4, <2>1, <2>4, <2>7, TopsStep
<1>17. Tallied'
  <2>1. (nlv = Count(in[n] \ Excluded(n)))'
    <3>1. \A c : c = n => nlv' = Count(in'[c] \ Excluded(c)')
      BY <1>12, <1>13, <1>14 DEF E
    <3> QED
      BY <1>2, <3>1
  <2>2. ASSUME NEW b \in Blocks, prog.ret[b] = None, Settled(b)', NEW k \in Classes
        PROVE  Tops(nlive[b][k], b, 1, k)'
    <3>1. b # n /\ Settled(b) /\ nlive'[b] = nlive[b]
      BY <1>13, <1>14, <2>2
    <3>2. Tops(nlive'[b][k], b, 1, k)
      BY <2>2, <3>1 DEF PInv, Tallied
    <3> QED
      BY <1>2, <3>2, TopsKept
  <2>3. ASSUME NEW b \in Blocks, prog.ret[b] = None, UnderScan(b)', NEW k \in Classes
        PROVE  Tops(nlive[b][k], b, i, k)'
    <3>1. Tops(nlive'[b][k], b, i', k)
      BY <1>2, <1>14, <1>16, <2>3
    <3> QED
      BY <1>2, <3>1, TopsKept
  <2> QED
    BY <1>2, <1>12, <1>13, <1>14, <2>1, <2>2, <2>3 DEF Tallied
<1> QED
  BY <1>15, <1>17

(* Between blocks nothing is counted.                                      *)
LEMMA TurnTallies ==
  ASSUME PressureAssumption, PInv, BlkLeave \/ Sweep \/ End
  PROVE  Confined' /\ Tallied'
<1>1. /\ Shaped(prog) /\ prog \in Programs /\ n \in Blocks /\ chg \in BOOLEAN
      /\ LiveAssumption /\ IInv
  BY DEF PressureAssumption, LiveAssumption, PInv, IInv, SetsOK
<1>2. prog.n \in Nat \ {0} /\ Blocks = 0..(prog.n - 1)
  BY <1>1 DEF Shaped, Blocks
<1>3. /\ lpc = "ins" /\ i = 1 /\ lpc' # "ins" /\ i' = i
      /\ prog' = prog /\ in' = in /\ out' = out /\ nlv' = nlv /\ nlive' = nlive
  BY DEF BlkLeave, Sweep, End
<1>4. \A b \in Blocks : (b > n' \/ chg' = FALSE) => Settled(b) \/ b = n
  BY <1>1, <1>2, <1>3 DEF BlkLeave, Sweep, End, Settled, UnderScan
<1>5. /\ Blocks' = Blocks /\ Targets' = Targets /\ Targets \subseteq Blocks
      /\ \A b : ~UnderScan(b)' /\ (UnderScan(b) <=> b = n)
      /\ \A b \in Blocks : Settled(b)' => Settled(b) \/ b = n
      /\ \A b, v, x, k : Tops(v, b, x, k)' <=> Tops(v, b, x, k)
  BY <1>1, <1>3, <1>4, Parts, FunctionKept, RestKept, TopsKept DEF Targets, UnderScan, Settled
<1>6. Confined'
  <2>1. ASSUME NEW b \in Targets PROVE in[b] \cap CallRegs(prog) = {}
    <3>1. CASE b = n
      <4>1. in[n] = Between(n, 1)
        BY <1>1, <1>3, BlockScanned
      <4> QED
        BY <1>1, <1>5, <3>1, <4>1, ConfinedInto DEF PInv, Confined
    <3>2. CASE b # n
      BY <1>5, <3>2 DEF PInv, Confined
    <3> QED
      BY <3>1, <3>2
  <2>2. CallRegs(prog)' = CallRegs(prog)
    BY <1>3
  <2> QED
    BY <1>3, <1>5, <2>1, <2>2 DEF PInv, Confined
<1>7. Tallied'
  <2>1. ASSUME NEW b \in Blocks, prog.ret[b] = None, Settled(b)', NEW k \in Classes
        PROVE  Tops(nlive[b][k], b, 1, k)
    BY <1>3, <1>5, <2>1 DEF PInv, Tallied
  <2>2. ASSUME NEW b \in Blocks, prog.ret[b] = None, Settled(b)', NEW k \in Classes
        PROVE  Tops(nlive[b][k], b, 1, k)'
    <3>1. nlive'[b][k] = nlive[b][k]
      BY <1>3
    <3> QED
      BY <1>5, <2>1, <2>2, <3>1
  <2> QED
    BY <1>3, <1>5, <2>2 DEF PInv, Tallied
<1> QED
  BY <1>6, <1>7

(* Every step keeps it.                                                    *)
LEMMA StepKeepsPInv == ASSUME PressureAssumption, PInv, [LiveNext]_lvars PROVE PInv'
<1>1. LiveAssumption /\ IInv
  BY DEF PressureAssumption, PInv
<1>2. IInv'
  BY <1>1, StepKeeps
<1>3. CASE BlkEnter
  BY <1>2, <1>3, EnterTallies DEF PInv
<1>4. CASE InsStep
  BY <1>2, <1>4, InsTallies DEF PInv
<1>5. CASE BlkLeave \/ Sweep \/ End
  BY <1>2, <1>5, TurnTallies DEF PInv
<1>6. CASE UNCHANGED lvars
  <2>1. /\ prog' = prog /\ in' = in /\ out' = out /\ nlive' = nlive /\ nlv' = nlv
        /\ chg' = chg /\ n' = n /\ i' = i /\ lpc' = lpc
    BY <1>6 DEF lvars
  <2>2. /\ Blocks' = Blocks /\ Targets' = Targets /\ CallRegs(prog)' = CallRegs(prog)
        /\ \A b : /\ Excluded(b)' = Excluded(b)
                  /\ (Settled(b)' <=> Settled(b)) /\ (UnderScan(b)' <=> UnderScan(b))
        /\ \A b, v, x, k : Tops(v, b, x, k)' <=> Tops(v, b, x, k)
    BY <2>1, FunctionKept, RestKept, TopsKept DEF Settled, UnderScan
  <2>3. Confined'
    BY <2>1, <2>2 DEF PInv, Confined
  <2>4. Tallied'
    BY <2>1, <2>2 DEF PInv, Tallied
  <2> QED
    BY <1>2, <2>3, <2>4 DEF PInv
<1> QED
  BY <1>3, <1>4, <1>5, <1>6 DEF LiveNext

(* The invariant says what PressureOK does.                                *)
LEMMA PressureHolds == ASSUME PressureAssumption, PInv PROVE PressureOK
<1>1. /\ Shaped(prog) /\ prog \in Programs /\ n \in Blocks
      /\ IsFiniteSet(Temps) /\ RGlob \subseteq Temps /\ IInv /\ SetsOK
  BY DEF PressureAssumption, LiveAssumption, PInv, IInv, SetsOK
<1>2. LastOf(n) \in Nat
  BY <1>1, Parts
<1>3. LiveTypeOK
  <2>1. i \in 1..(Len(prog.ins[n]) + 1) \/ lpc = "block"
    <3>1. CASE lpc = "done"
      BY <1>2, <3>1 DEF PInv, Tallied, LastOf
    <3>2. CASE lpc = "ins"
      BY <1>1, <3>2 DEF SetsOK, LastOf
    <3> QED
      BY <1>1, <3>1, <3>2 DEF SetsOK
  <2> QED
    BY <1>1, <2>1 DEF LiveTypeOK, SetsOK, PInv, Tallied
<1>4. Counted
  <2> SUFFICES ASSUME lpc = "ins"
      PROVE  nlv = Minus(Count(in[n]), IF prog.ret[n] # None THEN Count(RGlob \cap in[n])
                                       ELSE Count({}))
    BY DEF Counted
  <2> DEFINE I == in[n]
  <2> DEFINE X == Excluded(n) \cap I
  <2>1. I \in SUBSET Temps /\ X \in SUBSET I /\ I \ X = I \ Excluded(n)
    BY <1>1 DEF SetsOK
  <2>2. Count(I \ X) = Minus(Count(I), Count(X))
    <3> HIDE DEF I, X
    <3> QED
      BY <1>1, <2>1, CountRest
  <2>3. Count(X) = IF prog.ret[n] # None THEN Count(RGlob \cap in[n]) ELSE Count({})
    <3>1. X = IF prog.ret[n] # None THEN RGlob \cap in[n] ELSE {}
      BY DEF Excluded
    <3> QED
      BY <3>1
  <2> QED
    BY <2>1, <2>2, <2>3 DEF PInv, Tallied
<1>5. ASSUME lpc = "done", NEW b \in Blocks, prog.ret[b] = None, NEW k \in Classes
      PROVE  nlive[b][k] = Max({Count(Between(b, x))[k] : x \in 1..(Len(prog.ins[b]) + 1)}
                             \cup {AtCall(b, x)[k] : x \in DOMAIN prog.ins[b]})
  <2>1. Settled(b)
    BY <1>1, <1>5 DEF SetsOK, Settled, UnderScan
  <2>2. Tops(nlive[b][k], b, 1, k)
    BY <1>5, <2>1 DEF PInv, Tallied
  <2>3. Highs(b, 1, k) = {Count(Between(b, x))[k] : x \in 1..(Len(prog.ins[b]) + 1)}
                       \cup {AtCall(b, x)[k] : x \in DOMAIN prog.ins[b]}
    BY <1>1, Parts DEF Highs, LastOf
  <2>4. \A w \in Highs(b, 1, k) : w \in Nat
    BY AtPoints DEF Highs
  <2>5. nlive[b][k] = Max(Highs(b, 1, k))
    <3> DEFINE S == Highs(b, 1, k)
    <3> DEFINE v == nlive[b][k]
    <3>1. v \in S /\ (\A w \in S : v >= w) /\ \A w \in S : w \in Nat
      BY <2>2, <2>4 DEF Tops
    <3> HIDE DEF S, v
    <3>2. \A u \in S : (\A w \in S : u >= w) => u = v
      BY <3>1
    <3>3. v = Max(S)
      BY <3>1, <3>2 DEF Max
    <3> QED
      BY <3>3 DEF S, v
  <2> QED
    BY <2>3, <2>5
<1> QED
  BY <1>3, <1>4, <1>5 DEF PressureOK

-----------------------------------------------------------------------------
(* The count never drifts, and the pressure of a block that does not       *)
(* return is the largest number of temporaries live at a point of it, the  *)
(* caller-save registers at its calls included (live.c:72-83, 88-125).     *)
THEOREM PressureCorrect == ASSUME PressureAssumption PROVE LiveSpec => []PressureOK
<1>1. LiveInit => PInv
  BY InitPInv
<1>2. PInv /\ [LiveNext]_lvars => PInv'
  BY StepKeepsPInv
<1>3. PInv => PressureOK
  BY PressureHolds
<1> QED
  BY <1>1, <1>2, <1>3, PTL DEF LiveSpec
=============================================================================
