---------------------------- MODULE RegMapProofs ----------------------------
(***************************************************************************)
(* Proofs about the register map, for every set of temporaries and every   *)
(* two register files.  Each operation of RMap is shown to keep Sound,     *)
(* which is MapInv with one register possibly held back: Evict keeps the   *)
(* register it empties taken while its former holder gets another one.     *)
(***************************************************************************)
EXTENDS RegMap, FiniteSetTheorems, SequenceTheorems, TLAPS

-----------------------------------------------------------------------------
(* What a map mentions, and the three parts of MapInv on its contents.     *)
Mentioned(rm) ==
  {rm.map[i].t : i \in DOMAIN rm.map} \cup {rm.map[i].r : i \in DOMAIN rm.map}

Injective(rm) ==
  \A i, j \in DOMAIN rm.map :
    i # j => rm.map[i].t # rm.map[j].t /\ rm.map[i].r # rm.map[j].r

ClassOK(rm) ==
  \A i \in DOMAIN rm.map :
    IF rm.map[i].t \in Temps THEN rm.map[i].r \in ClassRegs(rm.map[i].t)
    ELSE rm.map[i].t = rm.map[i].r

HintsOK(rm) ==
  \A t \in Temps : /\ rm.visit[t] \in ClassRegs(t) \cup {0}
                   /\ rm.hint[t].r \in ClassRegs(t) \cup {0}

(* Typed with sound hints, whatever became of the map itself.              *)
Typed(rm) == rm \in RMapType /\ HintsOK(rm)

(* Sound but for the registers of held, taken and mapped by nothing.       *)
Sound(rm, held) ==
  /\ Typed(rm)
  /\ Injective(rm)
  /\ ClassOK(rm)
  /\ held \subseteq Regs
  /\ rm.b = Mentioned(rm) \cup held
  /\ held \cap Mentioned(rm) = {}

Entry == [t : Temps \cup Regs, r : Regs]

-----------------------------------------------------------------------------
(* A nonempty set of numbers up to n has a least element, and MinOf is it: *)
(* the initial segments of the set are ordered by strict inclusion.        *)
LEMMA MinOfLeast ==
  ASSUME NEW n \in Nat, NEW S \in SUBSET (1..n), S # {}
  PROVE  MinOf(S) \in S /\ \A q \in S : MinOf(S) <= q
<1> DEFINE Upto(r) == {q \in S : q <= r}
<1> DEFINE T == {Upto(r) : r \in S}
<1>1. IsWellFoundedOn(StrictSubsetOrdering(1..n), SUBSET (1..n))
  <2>1. IsFiniteSet(1..n)
    BY FS_Interval
  <2> QED
    BY <2>1, FS_FiniteSubsetsOfFinite, FS_StrictSubsetOrderingWellFounded
<1>2. T \subseteq SUBSET (1..n) /\ T # {}
  OBVIOUS
<1>3. PICK U \in T : \A V \in T : ~(<<V, U>> \in StrictSubsetOrdering(1..n))
  <2> HIDE DEF T
  <2> QED
    BY <1>1, <1>2, WFMin
<1>4. PICK r \in S : U = Upto(r)
  OBVIOUS
<1>5. ASSUME NEW q \in S PROVE r <= q
  <2> SUFFICES ASSUME q < r PROVE FALSE
    OBVIOUS
  <2>1. \A x \in S : x \in Int
    OBVIOUS
  <2>2. ASSUME NEW x \in Upto(q) PROVE x \in Upto(r)
    <3>1. x \in S /\ x <= q /\ x \in Int /\ q \in Int /\ r \in Int
      BY <2>1
    <3> QED
      BY <3>1
  <2>3. r \in Upto(r) /\ r \notin Upto(q)
    BY <2>1
  <2>4. Upto(q) \in SUBSET (1..n) /\ Upto(r) \in SUBSET (1..n) /\ Upto(q) \in T
    OBVIOUS
  <2> HIDE DEF Upto, T
  <2>5. <<Upto(q), Upto(r)>> \in StrictSubsetOrdering(1..n)
    BY <2>2, <2>3, <2>4 DEF StrictSubsetOrdering
  <2> QED
    BY <2>4, <2>5, <1>3, <1>4
<1>6. QED
  <2>1. \E x \in S : \A q \in S : x <= q
    BY <1>5
  <2> QED
    BY <2>1, Zenon DEF MinOf

(* Registers are positive numbers and no temporaries; a class has its own. *)
LEMMA RegFacts ==
  /\ Regs \subseteq Nat /\ 0 \notin Regs /\ 0 \notin Temps
  /\ Temps \cap Regs = {}
  /\ NGpr + NFpr \in Nat
  /\ \A t \in Temps : /\ ClassRegs(t) \subseteq Regs
                      /\ Phicls[t] \in Temps
                      /\ ClassRegs(Phicls[t]) = ClassRegs(t)
  /\ \A t \in Temps, r \in Regs : KBase[t] = RBase(r) => r \in ClassRegs(t)
<1>1. /\ NGpr \in Nat /\ NFpr \in Nat
      /\ Temps \cap (0..(NGpr + NFpr)) = {}
  BY RMapAssumption
<1>2. /\ Regs \subseteq Nat /\ 0 \notin Regs /\ NGpr + NFpr \in Nat
      /\ 0 \in 0..(NGpr + NFpr) /\ Regs \subseteq 0..(NGpr + NFpr)
  BY <1>1 DEF Regs
<1>3. ASSUME NEW t \in Temps
      PROVE  /\ ClassRegs(t) \subseteq Regs /\ Phicls[t] \in Temps
             /\ ClassRegs(Phicls[t]) = ClassRegs(t)
  <2>1. ClassRegs(t) \subseteq Regs
    BY <1>1 DEF ClassRegs, Regs
  <2>2. Phicls[t] \in Temps /\ KBase[Phicls[t]] = KBase[t]
    BY RMapAssumption
  <2> QED
    BY <2>1, <2>2 DEF ClassRegs
<1>4. ASSUME NEW t \in Temps, NEW r \in Regs, KBase[t] = RBase(r)
      PROVE  r \in ClassRegs(t)
  BY <1>1, <1>4 DEF ClassRegs, Regs, RBase
<1> QED
  BY <1>1, <1>2, <1>3, <1>4

(* The fields of a typed map.                                              *)
LEMMA Fields ==
  ASSUME NEW rm \in RMapType
  PROVE  /\ rm.map \in Seq(Entry)
         /\ rm.b \in SUBSET (Temps \cup Regs)
         /\ rm.w \in [Regs -> Temps \cup {0}]
         /\ rm.visit \in [Temps -> Regs \cup {0}]
         /\ rm.hint \in [Temps -> [r : Regs \cup {0}, w : 0..MaxLoop]]
         /\ rm.ok \in BOOLEAN
         /\ Len(rm.map) \in Nat /\ DOMAIN rm.map = 1..Len(rm.map)
         /\ \A i \in DOMAIN rm.map : rm.map[i] \in Entry
<1>1. rm.map \in Seq(Entry)
  BY DEF RMapType, Entry
<1>2. /\ Len(rm.map) \in Nat /\ DOMAIN rm.map = 1..Len(rm.map)
      /\ \A i \in DOMAIN rm.map : rm.map[i] \in Entry
  <2> HIDE DEF Entry
  <2> QED
    BY <1>1
<1> QED
  BY <1>1, <1>2 DEF RMapType

(* Taking element i out of a sequence.                                     *)
LEMMA TakenOut ==
  ASSUME NEW S, NEW s \in Seq(S), NEW i \in 1..Len(s)
  PROVE  LET q == SubSeq(s, 1, i - 1) \o SubSeq(s, i + 1, Len(s))
         IN /\ q \in Seq(S)
            /\ Len(q) = Len(s) - 1
            /\ DOMAIN q = 1..(Len(s) - 1)
            /\ \A j \in 1..(Len(s) - 1) : q[j] = IF j < i THEN s[j] ELSE s[j + 1]
<1> DEFINE a == SubSeq(s, 1, i - 1)
<1> DEFINE d == SubSeq(s, i + 1, Len(s))
<1>1. Len(s) \in Nat /\ i \in Int /\ \A j \in 1..Len(s) : s[j] \in S
  OBVIOUS
<1>2. a \in Seq(S) /\ Len(a) = i - 1 /\ \A j \in 1..(i - 1) : a[j] = s[j]
  BY <1>1
<1>3. d \in Seq(S) /\ Len(d) = Len(s) - i /\ \A j \in 1..(Len(s) - i) : d[j] = s[i + j]
  BY <1>1
<1> HIDE DEF a, d
<1>4. /\ a \o d \in Seq(S) /\ Len(a \o d) = Len(s) - 1
      /\ DOMAIN (a \o d) = 1..(Len(s) - 1)
  <2>1. Len(a) + Len(d) = Len(s) - 1
    BY <1>1, <1>2, <1>3
  <2>2. a \o d \in Seq(S) /\ Len(a \o d) = Len(a) + Len(d)
    BY <1>2, <1>3, ConcatProperties
  <2> QED
    BY <2>1, <2>2
<1>5. ASSUME NEW j \in 1..(Len(s) - 1)
      PROVE  (a \o d)[j] = IF j < i THEN s[j] ELSE s[j + 1]
  <2>1. CASE j < i
    BY <2>1, <1>1, <1>2, <1>3
  <2>2. CASE ~(j < i)
    <3>1. (a \o d)[j] = d[j - (i - 1)] /\ j - (i - 1) \in 1..(Len(s) - i)
      BY <2>2, <1>1, <1>2, <1>3
    <3> QED
      BY <3>1, <2>2, <1>1, <1>3
  <2> QED
    BY <2>1, <2>2
<1> QED
  BY <1>4, <1>5 DEF a, d

-----------------------------------------------------------------------------
(* In a sound map each key occurs once, so every search stops at its entry.*)
LEMMA OneEntry ==
  ASSUME NEW rm, NEW held, Sound(rm, held), NEW i \in DOMAIN rm.map
  PROVE  /\ Idx(rm, rm.map[i].t) = {i}
         /\ (CHOOSE k \in Idx(rm, rm.map[i].t) : \A j \in Idx(rm, rm.map[i].t) : k <= j) = i
         /\ RFind(rm, rm.map[i].t) = rm.map[i].r
         /\ rm.map[i].r \in Regs
         /\ rm.map[i].t \in Temps \cup Regs
<1>1. Idx(rm, rm.map[i].t) = {i}
  BY DEF Idx, Sound, Injective
<1>2. i \in Int /\ rm.map[i] \in Entry
  BY Fields DEF Sound, Typed
<1>3. (CHOOSE k \in {i} : \A j \in {i} : k <= j) = i
  BY <1>2
<1>4. RFind(rm, rm.map[i].t) = rm.map[i].r
  BY <1>1, <1>3 DEF RFind
<1> QED
  BY <1>1, <1>2, <1>3, <1>4 DEF Entry

(* Mentioned, element by element.                                          *)
LEMMA MentionedIff ==
  ASSUME NEW rm, NEW e
  PROVE  e \in Mentioned(rm) <=>
           \E i \in DOMAIN rm.map : rm.map[i].t = e \/ rm.map[i].r = e
BY DEF Mentioned

(* What has no entry has no register.                                      *)
LEMMA NoEntry ==
  ASSUME NEW rm, NEW x, \A i \in DOMAIN rm.map : rm.map[i].t # x
  PROVE  RFind(rm, x) = 0
<1>1. Idx(rm, x) = {}
  BY DEF Idx
<1> QED
  BY <1>1 DEF RFind

(* A temporary that is taken, or a register that is mapped to a register,  *)
(* has an entry; a register is the value of some entry when it is taken    *)
(* and not held back.                                                      *)
LEMMA HasEntry ==
  ASSUME NEW rm, NEW held, Sound(rm, held)
  PROVE  /\ \A t \in Temps : Has(rm, t) <=> \E i \in DOMAIN rm.map : rm.map[i].t = t
         /\ \A r \in Regs \ held : Has(rm, r) <=> \E i \in DOMAIN rm.map : rm.map[i].r = r
         /\ \A i \in DOMAIN rm.map : /\ Has(rm, rm.map[i].t) /\ Has(rm, rm.map[i].r)
                                     /\ rm.map[i].t \notin held /\ rm.map[i].r \notin held
         /\ \A i \in DOMAIN rm.map : rm.map[i].t \in Regs => rm.map[i].t = rm.map[i].r
<1>1. \A i \in DOMAIN rm.map : rm.map[i].r \in Regs /\ rm.map[i].t \in Temps \cup Regs
  BY OneEntry
<1>2. Temps \cap Regs = {}
  BY RegFacts
<1>3. \A i \in DOMAIN rm.map : rm.map[i].t \in Regs => rm.map[i].t = rm.map[i].r
  BY <1>2 DEF Sound, ClassOK
<1>4. \A x : Has(rm, x) <=> x \in Mentioned(rm) \cup held
  BY DEF Has, Sound
<1> QED
  BY <1>1, <1>2, <1>3, <1>4 DEF Sound, Mentioned

-----------------------------------------------------------------------------
(* rfree takes exactly one entry out: its key and its register become      *)
(* free, every other temporary keeps its register.                         *)
LEMMA FreeSound ==
  ASSUME NEW rm, NEW held, Sound(rm, held),
         NEW i \in DOMAIN rm.map
  PROVE  LET x == rm.map[i].t
             q == RFree(rm, x)
         IN /\ Sound(q, held)
            /\ q.b = rm.b \ {x, rm.map[i].r}
            /\ RFind(q, x) = 0
            /\ \A y : y # x => RFind(q, y) = RFind(rm, y)
            /\ q.w = rm.w /\ q.visit = rm.visit /\ q.hint = rm.hint /\ q.ok = rm.ok
<1> DEFINE x == rm.map[i].t
<1> DEFINE r == rm.map[i].r
<1> DEFINE s == SubSeq(rm.map, 1, i - 1) \o SubSeq(rm.map, i + 1, Len(rm.map))
<1> DEFINE b == rm.b \ {x, r}
<1> DEFINE q == RFree(rm, x)
<1> DEFINE n == Len(rm.map)
<1>1. /\ rm \in RMapType /\ rm.map \in Seq(Entry) /\ n \in Nat /\ DOMAIN rm.map = 1..n
      /\ i \in 1..n /\ b \in SUBSET (Temps \cup Regs)
  BY Fields DEF Sound, Typed
<1>2. q = [rm EXCEPT !.b = b, !.map = s]
  <2>1. Has(rm, x)
    BY HasEntry
  <2>2. (CHOOSE k \in Idx(rm, x) : \A j \in Idx(rm, x) : k <= j) = i
    BY OneEntry
  <2> HIDE DEF x
  <2>3. RFree(rm, x) =
          [rm EXCEPT !.b = rm.b \ {x, rm.map[i].r},
                     !.map = SubSeq(rm.map, 1, i - 1) \o SubSeq(rm.map, i + 1, Len(rm.map))]
    BY <2>1, <2>2, Zenon DEF RFree
  <2> QED
    BY <2>3
<1>3. /\ s \in Seq(Entry) /\ Len(s) = n - 1 /\ DOMAIN s = 1..(n - 1)
      /\ \A j \in 1..(n - 1) : s[j] = IF j < i THEN rm.map[j] ELSE rm.map[j + 1]
  <2> HIDE DEF Entry
  <2> QED
    BY <1>1, TakenOut
<1> HIDE DEF s, b, q
<1>4. /\ q \in RMapType /\ q.map = s /\ q.b = b /\ q.w = rm.w
      /\ q.visit = rm.visit /\ q.hint = rm.hint /\ q.ok = rm.ok
  BY <1>1, <1>2, <1>3 DEF RMapType, Entry
<1> HIDE DEF n
<1>5. \A j \in 1..(n - 1) : \E k \in 1..n : k # i /\ s[j] = rm.map[k]
  <2> SUFFICES ASSUME NEW j \in 1..(n - 1) PROVE \E k \in 1..n : k # i /\ s[j] = rm.map[k]
    OBVIOUS
  <2>1. CASE j < i
    BY <2>1, <1>1, <1>3
  <2>2. CASE ~(j < i)
    <3>1. j + 1 \in 1..n /\ j + 1 # i /\ s[j] = rm.map[j + 1]
      BY <2>2, <1>1, <1>3
    <3> QED
      BY <3>1
  <2> QED
    BY <2>1, <2>2
<1>6. \A k \in 1..n : k # i => \E j \in 1..(n - 1) : s[j] = rm.map[k]
  <2> SUFFICES ASSUME NEW k \in 1..n, k # i PROVE \E j \in 1..(n - 1) : s[j] = rm.map[k]
    OBVIOUS
  <2>1. CASE k < i
    BY <2>1, <1>1, <1>3
  <2>2. CASE k > i
    <3>1. k - 1 \in 1..(n - 1) /\ ~(k - 1 < i) /\ k - 1 + 1 = k
      BY <2>2, <1>1
    <3> QED
      BY <3>1, <1>3
  <2> QED
    BY <2>1, <2>2, <1>1
<1>7. Injective(q)
  <2> SUFFICES ASSUME NEW j \in 1..(n - 1), NEW k \in 1..(n - 1), j < k
               PROVE  s[j].t # s[k].t /\ s[j].r # s[k].r
    BY <1>1, <1>3, <1>4 DEF Injective
  <2>1. PICK u \in 1..n, v \in 1..n :
          u # v /\ s[j] = rm.map[u] /\ s[k] = rm.map[v]
    <3> DEFINE u == IF j < i THEN j ELSE j + 1
    <3> DEFINE v == IF k < i THEN k ELSE k + 1
    <3>1. u \in 1..n /\ v \in 1..n /\ u # v
      BY <1>1
    <3>2. s[j] = rm.map[u] /\ s[k] = rm.map[v]
      BY <1>3
    <3> HIDE DEF u, v
    <3> QED
      BY <3>1, <3>2
  <2> QED
    BY <2>1, <1>1 DEF Sound, Injective
<1>8. /\ \A k \in 1..n : k # i => rm.map[k].t # x /\ rm.map[k].r # r
      /\ \A k \in 1..n : k # i => rm.map[k].t # r /\ rm.map[k].r # x
  <2>1. \A k \in 1..n : k # i => rm.map[k].t # x /\ rm.map[k].r # r
    BY <1>1 DEF Sound, Injective
  <2>2. /\ \A k \in 1..n : rm.map[k].r \in Regs /\ rm.map[k].t \in Regs => rm.map[k].t = rm.map[k].r
        /\ \A k \in 1..n : rm.map[k].r \in Regs
        /\ x \in Regs => x = r
    BY HasEntry, OneEntry, <1>1
  <2> QED
    BY <2>1, <2>2, <1>1
<1>9. ClassOK(q)
  BY <1>1, <1>3, <1>4, <1>5 DEF Sound, ClassOK
<1>10. Mentioned(q) = Mentioned(rm) \ {x, r}
  <2> HIDE DEF x, r
  <2>1. ASSUME NEW e \in Mentioned(q) PROVE e \in Mentioned(rm) \ {x, r}
    <3>1. PICK j \in 1..(n - 1) : s[j].t = e \/ s[j].r = e
      BY <2>1, <1>3, <1>4, MentionedIff
    <3>2. PICK k \in 1..n : k # i /\ s[j] = rm.map[k]
      BY <1>5
    <3> QED
      BY <3>1, <3>2, <1>1, <1>8, MentionedIff
  <2>2. ASSUME NEW e \in Mentioned(rm) \ {x, r} PROVE e \in Mentioned(q)
    <3>1. PICK k \in 1..n : rm.map[k].t = e \/ rm.map[k].r = e
      BY <2>2, <1>1, MentionedIff
    <3>2. k # i
      BY <3>1, <2>2 DEF x, r
    <3>3. PICK j \in 1..(n - 1) : s[j] = rm.map[k]
      BY <3>2, <1>6
    <3> QED
      BY <3>1, <3>3, <1>3, <1>4, MentionedIff
  <2> QED
    BY <2>1, <2>2
<1>11. Sound(q, held)
  <2>1. x \notin held /\ r \notin held
    BY HasEntry
  <2>2. q.b = Mentioned(q) \cup held /\ held \cap Mentioned(q) = {} /\ held \subseteq Regs
    BY <2>1, <1>4, <1>10 DEF Sound, b
  <2>3. Typed(q)
    BY <1>4 DEF Sound, Typed, HintsOK
  <2> QED
    BY <2>2, <2>3, <1>7, <1>9 DEF Sound
<1>12. RFind(q, x) = 0
  <2> HIDE DEF x, r
  <2>1. \A j \in DOMAIN q.map : q.map[j].t # x
    BY <1>3, <1>4, <1>5, <1>8
  <2> QED
    BY <2>1, NoEntry
<1>13. ASSUME NEW y, y # x PROVE RFind(q, y) = RFind(rm, y)
  <2>1. CASE \E k \in 1..n : rm.map[k].t = y
    <3>1. PICK k \in 1..n : rm.map[k].t = y
      BY <2>1
    <3>2. PICK j \in 1..(n - 1) : s[j] = rm.map[k]
      BY <3>1, <1>6, <1>13
    <3>3. RFind(rm, y) = rm.map[k].r
      BY <3>1, <1>1, OneEntry
    <3>4. RFind(q, y) = s[j].r
      <4>1. j \in DOMAIN q.map /\ q.map[j].t = y
        BY <3>1, <3>2, <1>3, <1>4
      <4> QED
        BY <4>1, <1>4, <1>11, OneEntry
    <3> QED
      BY <3>2, <3>3, <3>4
  <2>2. CASE ~\E k \in 1..n : rm.map[k].t = y
    <3>1. \A j \in DOMAIN q.map : q.map[j].t # y
      BY <2>2, <1>3, <1>4, <1>5
    <3> QED
      BY <3>1, <2>2, <1>1, NoEntry
  <2> QED
    BY <2>1, <2>2
<1> QED
  BY <1>4, <1>11, <1>12, <1>13 DEF q, b

(* radd maps one more temporary (or a register to itself) and leaves the   *)
(* others where they are.                                                  *)
LEMMA AddSound ==
  ASSUME NEW rm, NEW held, Sound(rm, held),
         NEW x \in Temps \cup Regs, NEW r \in Regs,
         ~Has(rm, x), ~Has(rm, r),
         IF x \in Temps THEN r \in ClassRegs(x) ELSE x = r
  PROVE  LET q == RAdd(rm, x, r)
         IN /\ Sound(q, held)
            /\ q.b = rm.b \cup {x, r}
            /\ RFind(q, x) = r
            /\ \A y : y # x => RFind(q, y) = RFind(rm, y)
            /\ q.w = rm.w /\ q.visit = rm.visit /\ q.hint = rm.hint /\ q.ok = rm.ok
<1> DEFINE e == [t |-> x, r |-> r]
<1> DEFINE s == Append(rm.map, e)
<1> DEFINE b == rm.b \cup {x, r}
<1> DEFINE q == RAdd(rm, x, r)
<1> DEFINE n == Len(rm.map)
<1>1. /\ rm \in RMapType /\ rm.map \in Seq(Entry) /\ n \in Nat /\ DOMAIN rm.map = 1..n
      /\ b \in SUBSET (Temps \cup Regs)
  BY Fields DEF Sound, Typed
<1>2. q = [rm EXCEPT !.b = b, !.map = s]
  BY Zenon DEF RAdd
<1>3. e \in Entry /\ e.t = x /\ e.r = r
  BY DEF Entry
<1> HIDE DEF e
<1>4. /\ s \in Seq(Entry) /\ DOMAIN s = 1..(n + 1)
      /\ \A j \in 1..n : s[j] = rm.map[j]
      /\ s[n + 1] = e
  <2> HIDE DEF Entry
  <2> QED
    BY <1>1, <1>3
<1> HIDE DEF s, b, q
<1>5. /\ q \in RMapType /\ q.map = s /\ q.b = b /\ q.w = rm.w
      /\ q.visit = rm.visit /\ q.hint = rm.hint /\ q.ok = rm.ok
  BY <1>1, <1>2, <1>4 DEF RMapType, Entry
<1> HIDE DEF n
<1>6. 1..(n + 1) = 1..n \cup {n + 1} /\ n + 1 \notin 1..n
  BY <1>1
<1>7. \A j \in 1..n : /\ rm.map[j].t # x /\ rm.map[j].r # r
                      /\ rm.map[j].t # r /\ rm.map[j].r # x
  BY <1>1, HasEntry
<1>8. Injective(q)
  <2> SUFFICES ASSUME NEW j \in 1..(n + 1), NEW k \in 1..(n + 1), j # k
               PROVE  s[j].t # s[k].t /\ s[j].r # s[k].r
    BY <1>4, <1>5 DEF Injective
  <2>1. CASE j \in 1..n /\ k \in 1..n
    BY <2>1, <1>1, <1>4 DEF Sound, Injective
  <2>2. CASE j = n + 1 \/ k = n + 1
    BY <2>2, <1>3, <1>4, <1>6, <1>7
  <2> QED
    BY <2>1, <2>2, <1>6
<1>9. ClassOK(q)
  BY <1>1, <1>3, <1>4, <1>5, <1>6 DEF Sound, ClassOK
<1>10. \A v : v \in Mentioned(q) <=> v \in Mentioned(rm) \/ v \in {x, r}
  <2> SUFFICES ASSUME NEW v
               PROVE  v \in Mentioned(q) <=> v \in Mentioned(rm) \/ v \in {x, r}
    OBVIOUS
  <2>1. v \in Mentioned(q) <=> \E j \in 1..(n + 1) : s[j].t = v \/ s[j].r = v
    <3>1. v \in Mentioned(q) <=> \E j \in DOMAIN q.map : q.map[j].t = v \/ q.map[j].r = v
      BY MentionedIff, Zenon
    <3> QED
      BY <3>1, <1>4, <1>5
  <2>2. v \in Mentioned(rm) <=> \E j \in 1..n : s[j].t = v \/ s[j].r = v
    BY <1>1, <1>4, MentionedIff
  <2> QED
    BY <2>1, <2>2, <1>3, <1>4, <1>6
<1>11. Sound(q, held)
  <2>1. x \notin held /\ r \notin held
    BY DEF Sound, Has
  <2>2. q.b = Mentioned(q) \cup held /\ held \cap Mentioned(q) = {} /\ held \subseteq Regs
    BY <2>1, <1>5, <1>10 DEF Sound, b
  <2>3. Typed(q)
    BY <1>5 DEF Sound, Typed, HintsOK
  <2> QED
    BY <2>2, <2>3, <1>8, <1>9 DEF Sound
<1>12. RFind(q, x) = r
  <2>1. n + 1 \in DOMAIN q.map /\ q.map[n + 1].t = x /\ q.map[n + 1].r = r
    BY <1>3, <1>4, <1>5, <1>6
  <2> QED
    BY <2>1, <1>11, OneEntry
<1>13. ASSUME NEW y, y # x PROVE RFind(q, y) = RFind(rm, y)
  <2>1. CASE \E k \in 1..n : rm.map[k].t = y
    <3>1. PICK k \in 1..n : rm.map[k].t = y
      BY <2>1
    <3>2. k \in DOMAIN q.map /\ q.map[k] = rm.map[k]
      BY <1>4, <1>5, <1>6
    <3>3. RFind(rm, y) = rm.map[k].r
      BY <3>1, <1>1, OneEntry
    <3>4. RFind(q, y) = q.map[k].r
      BY <3>1, <3>2, <1>11, OneEntry
    <3> QED
      BY <3>2, <3>3, <3>4
  <2>2. CASE ~\E k \in 1..n : rm.map[k].t = y
    <3>1. \A j \in DOMAIN q.map : q.map[j].t # y
      BY <2>2, <1>3, <1>4, <1>5, <1>6, <1>13
    <3> QED
      BY <3>1, <2>2, <1>1, NoEntry
  <2> QED
    BY <2>1, <2>2
<1> QED
  BY <1>5, <1>11, <1>12, <1>13 DEF q, b

(* Two maps that agree on their contents agree on what is sound.           *)
LEMMA SameContents ==
  ASSUME NEW rm, NEW held, Sound(rm, held), NEW q, Typed(q), q.map = rm.map, q.b = rm.b
  PROVE  Sound(q, held) /\ \A y : RFind(q, y) = RFind(rm, y)
BY DEF Sound, Injective, ClassOK, Mentioned, RFind, Idx

(* sethint only touches hints and last registers, and keeps them sound.    *)
LEMMA SetHintSound ==
  ASSUME NEW rm, Typed(rm), NEW t \in Temps, NEW r \in ClassRegs(t), NEW l \in 0..MaxLoop
  PROVE  LET q == SetHint(rm, t, r, l)
         IN Typed(q) /\ q.map = rm.map /\ q.b = rm.b /\ q.w = rm.w /\ q.ok = rm.ok
<1> DEFINE p == Phicls[t]
<1> DEFINE h == [rm.hint EXCEPT ![p] = [r |-> r, w |-> l]]
<1> DEFINE v == [rm.visit EXCEPT ![t] = 0]
<1> DEFINE q == SetHint(rm, t, r, l)
<1>1. rm \in RMapType /\ HintsOK(rm)
  BY DEF Typed
<1>2. CASE q = rm
  BY <1>1, <1>2 DEF Typed
<1>3. CASE q # rm
  <2>1. q = [rm EXCEPT !.hint[p] = [r |-> r, w |-> l], !.visit[t] = 0]
    BY <1>3 DEF SetHint
  <2>2. q = [rm EXCEPT !.hint = h, !.visit = v]
    BY <2>1
  <2>3. r \in Regs /\ p \in Temps /\ r \in ClassRegs(p)
    BY RegFacts
  <2>4. h \in [Temps -> [r : Regs \cup {0}, w : 0..MaxLoop]] /\ v \in [Temps -> Regs \cup {0}]
    BY <1>1, <2>3, Fields
  <2>5. \A u \in Temps : v[u] \in ClassRegs(u) \cup {0} /\ h[u].r \in ClassRegs(u) \cup {0}
    BY <1>1, <2>3, Fields DEF HintsOK
  <2> HIDE DEF h, v, p, q
  <2>6. q \in RMapType /\ q.hint = h /\ q.visit = v /\ q.map = rm.map /\ q.b = rm.b
        /\ q.w = rm.w /\ q.ok = rm.ok
    BY <1>1, <2>2, <2>4 DEF RMapType
  <2> QED
    BY <2>5, <2>6 DEF Typed, HintsOK, q
<1> QED
  BY <1>2, <1>3

(* A register ralloctry would like is free and of the right class.         *)
LEMMA WantedFree ==
  ASSUME NEW rm, Typed(rm), NEW t \in Temps
  PROVE  Wanted(rm, t) = 0 \/ (Wanted(rm, t) \in ClassRegs(t) /\ ~Has(rm, Wanted(rm, t)))
<1>1. /\ rm.visit[t] \in ClassRegs(t) \cup {0}
      /\ rm.hint[Phicls[t]].r \in ClassRegs(t) \cup {0}
  BY RegFacts DEF Typed, HintsOK
<1> QED
  BY <1>1 DEF Wanted

(* The search over the class finds a free register when there is one.      *)
LEMMA FirstFreeFree ==
  ASSUME NEW rm, NEW t \in Temps
  PROVE  IF FirstFree(rm, t) = 0 THEN ClassRegs(t) \subseteq rm.b
         ELSE FirstFree(rm, t) \in ClassRegs(t) /\ ~Has(rm, FirstFree(rm, t))
<1> DEFINE free == {r \in ClassRegs(t) : ~Has(rm, r)}
<1> DEFINE good == free \ Avoid[Phicls[t]]
<1>1. ClassRegs(t) \in SUBSET (1..(NGpr + NFpr)) /\ NGpr + NFpr \in Nat /\ 0 \notin ClassRegs(t)
  BY RegFacts DEF Regs
<1>2. good # {} => MinOf(good) \in good
  BY <1>1, MinOfLeast
<1>3. free # {} => MinOf(free) \in free
  BY <1>1, MinOfLeast
<1>4. FirstFree(rm, t) =
        IF good # {} THEN MinOf(good) ELSE IF free # {} THEN MinOf(free) ELSE 0
  BY DEF FirstFree
<1>5. good \subseteq free /\ 0 \notin free
  BY <1>1
<1>6. free = {} => ClassRegs(t) \subseteq rm.b
  BY DEF Has
<1>7. \A r \in free : r \in ClassRegs(t) /\ ~Has(rm, r)
  OBVIOUS
<1> HIDE DEF good, free
<1> QED
  BY <1>2, <1>3, <1>4, <1>5, <1>6, <1>7

(* Giving t a free register of its class.                                  *)
LEMMA FoundSound ==
  ASSUME NEW rm, NEW held, Sound(rm, held),
         NEW t \in Temps, NEW r \in ClassRegs(t), NEW l \in 0..MaxLoop,
         ~Has(rm, t), ~Has(rm, r)
  PROVE  LET q == Found(rm, t, r, l)
         IN /\ Sound(q, held)
            /\ q.b = rm.b \cup {t, r}
            /\ RFind(q, t) = r
            /\ \A y : y # t => RFind(q, y) = RFind(rm, y)
            /\ q.ok = rm.ok
<1> DEFINE a == RAdd(rm, t, r)
<1> DEFINE m1 == SetHint(a, t, r, l)
<1> DEFINE m2 == [m1 EXCEPT !.visit[t] = r]
<1> DEFINE h == m2.hint[Phicls[t]].r
<1> DEFINE q == Found(rm, t, r, l)
<1>1. r \in Regs /\ Phicls[t] \in Temps
  BY RegFacts
<1>2. /\ Sound(a, held) /\ a.b = rm.b \cup {t, r} /\ RFind(a, t) = r
      /\ \A y : y # t => RFind(a, y) = RFind(rm, y)
      /\ a.ok = rm.ok
  BY <1>1, AddSound
<1> HIDE DEF a
<1>3. Typed(m1) /\ m1.map = a.map /\ m1.b = a.b /\ m1.ok = a.ok
  BY <1>2, SetHintSound DEF Sound
<1>4. q = IF h # 0 /\ h # r THEN [m2 EXCEPT !.w[h] = t] ELSE m2
  BY Zenon DEF Found, a
<1> HIDE DEF m1, q
<1>5. Typed(m2) /\ m2.map = a.map /\ m2.b = a.b /\ m2.ok = a.ok
  <2> DEFINE v == [m1.visit EXCEPT ![t] = r]
  <2>1. m2 = [m1 EXCEPT !.visit = v]
    OBVIOUS
  <2>2. m1 \in RMapType /\ v \in [Temps -> Regs \cup {0}]
    BY <1>1, <1>3, Fields DEF Typed
  <2>3. \A u \in Temps : v[u] \in ClassRegs(u) \cup {0}
    BY <1>3, Fields DEF Typed, HintsOK
  <2> HIDE DEF v, m2
  <2>4. m2 \in RMapType /\ m2.visit = v /\ m2.hint = m1.hint /\ m2.map = m1.map
        /\ m2.b = m1.b /\ m2.ok = m1.ok
    BY <2>1, <2>2 DEF RMapType
  <2> QED
    BY <2>3, <2>4, <1>3 DEF Typed, HintsOK
<1> HIDE DEF m2
<1>6. h \in Regs \cup {0}
  BY <1>1, <1>5, Fields DEF Typed
<1> HIDE DEF h
<1>7. Typed(q) /\ q.map = a.map /\ q.b = a.b /\ q.ok = a.ok
  <2>1. CASE q = m2
    BY <2>1, <1>5
  <2>2. CASE q # m2
    <3> DEFINE w == [m2.w EXCEPT ![h] = t]
    <3>1. q = [m2 EXCEPT !.w = w] /\ h \in Regs
      BY <2>2, <1>4, <1>6
    <3>2. m2 \in RMapType /\ w \in [Regs -> Temps \cup {0}]
      BY <1>5, Fields DEF Typed
    <3> HIDE DEF w
    <3>3. q \in RMapType /\ q.visit = m2.visit /\ q.hint = m2.hint /\ q.map = m2.map
          /\ q.b = m2.b /\ q.ok = m2.ok
      BY <3>1, <3>2 DEF RMapType
    <3> QED
      BY <3>3, <1>5 DEF Typed, HintsOK
  <2> QED
    BY <2>1, <2>2
<1>8. Sound(q, held) /\ \A y : RFind(q, y) = RFind(a, y)
  BY <1>2, <1>7, SameContents
<1> QED
  BY <1>2, <1>7, <1>8 DEF q

(* What ralloctry may do for x, with or without the second search: give a  *)
(* temporary without a register a free one of its class, move nobody else, *)
(* and die only when the class is full.                                    *)
Alloced(rm, held, x, q) ==
  /\ Typed(q)
  /\ q.ok = TRUE => /\ Sound(q, held)
                    /\ \A y : y # x => RFind(q, y) = RFind(rm, y)
                    /\ \/ q = rm
                       \/ /\ RFind(q, x) \notin rm.b
                          /\ RFind(q, x) \in Regs
                          /\ q.b = rm.b \cup {x, RFind(q, x)}
  /\ q.ok # TRUE => q.ok = FALSE /\ x \in Temps /\ ClassRegs(x) \subseteq rm.b

(* Both modes of ralloctry do that to a sound map.                         *)
LEMMA AllocSound ==
  ASSUME NEW rm, NEW held, Sound(rm, held), rm.ok = TRUE,
         NEW x \in Temps \cup Regs, NEW l \in 0..MaxLoop
  PROVE  /\ Alloced(rm, held, x, RAlloc(rm, x, l))
         /\ Alloced(rm, held, x, RAllocTry(rm, x, TRUE, l))
<1> SUFFICES ASSUME NEW q, q = RAlloc(rm, x, l) \/ q = RAllocTry(rm, x, TRUE, l)
             PROVE  Alloced(rm, held, x, q)
  OBVIOUS
<1>0. rm \in RMapType
  BY DEF Sound, Typed
<1>1. CASE q = rm
  BY <1>1 DEF Sound, Alloced
<1>2. CASE q # rm /\ Wanted(rm, x) # 0
  <2>1. x \in Temps /\ ~Has(rm, x) /\ q = Found(rm, x, Wanted(rm, x), l)
    BY <1>2 DEF RAllocTry, RAlloc
  <2>2. Wanted(rm, x) \in ClassRegs(x) /\ ~Has(rm, Wanted(rm, x)) /\ ClassRegs(x) \subseteq Regs
    BY <2>1, <1>2, WantedFree, RegFacts DEF Sound
  <2> DEFINE r == Wanted(rm, x)
  <2> HIDE DEF r
  <2>4. x \in Temps /\ r \in ClassRegs(x) /\ ~Has(rm, x) /\ ~Has(rm, r)
    BY <2>1, <2>2 DEF r
  <2>3. LET f == Found(rm, x, r, l)
        IN /\ Sound(f, held) /\ f.b = rm.b \cup {x, r} /\ RFind(f, x) = r
           /\ \A y : y # x => RFind(f, y) = RFind(rm, y)
           /\ f.ok = rm.ok
    BY <2>4, FoundSound
  <2> QED
    BY <2>1, <2>2, <2>3 DEF Sound, Has, r, Alloced
<1>3. CASE q # rm /\ Wanted(rm, x) = 0 /\ FirstFree(rm, x) # 0
  <2>1. x \in Temps /\ ~Has(rm, x) /\ q = Found(rm, x, FirstFree(rm, x), l)
    BY <1>3 DEF RAllocTry, RAlloc
  <2>2. FirstFree(rm, x) \in ClassRegs(x) /\ ~Has(rm, FirstFree(rm, x)) /\ ClassRegs(x) \subseteq Regs
    BY <2>1, <1>3, FirstFreeFree, RegFacts
  <2> DEFINE r == FirstFree(rm, x)
  <2> HIDE DEF r
  <2>4. x \in Temps /\ r \in ClassRegs(x) /\ ~Has(rm, x) /\ ~Has(rm, r)
    BY <2>1, <2>2 DEF r
  <2>3. LET f == Found(rm, x, r, l)
        IN /\ Sound(f, held) /\ f.b = rm.b \cup {x, r} /\ RFind(f, x) = r
           /\ \A y : y # x => RFind(f, y) = RFind(rm, y)
           /\ f.ok = rm.ok
    BY <2>4, FoundSound
  <2> QED
    BY <2>1, <2>2, <2>3 DEF Sound, Has, r, Alloced
<1>4. CASE q # rm /\ Wanted(rm, x) = 0 /\ FirstFree(rm, x) = 0
  <2>1. x \in Temps /\ q = [rm EXCEPT !.ok = FALSE]
    BY <1>4 DEF RAllocTry, RAlloc
  <2>2. ClassRegs(x) \subseteq rm.b
    BY <2>1, <1>4, FirstFreeFree
  <2>3. q \in RMapType /\ q.visit = rm.visit /\ q.hint = rm.hint /\ q.ok = FALSE
    BY <2>1, <1>0 DEF RMapType
  <2> QED
    BY <2>1, <2>2, <2>3 DEF Sound, Typed, HintsOK, Alloced
<1> QED
  BY <1>1, <1>2, <1>3, <1>4

(* A temporary is taken exactly when it has a register.                    *)
LEMMA TempTaken ==
  ASSUME NEW rm, NEW held, Sound(rm, held), NEW t \in Temps
  PROVE  Has(rm, t) <=> RFind(rm, t) # 0
<1>1. CASE \E i \in DOMAIN rm.map : rm.map[i].t = t
  BY <1>1, HasEntry, OneEntry, RegFacts
<1>2. CASE ~\E i \in DOMAIN rm.map : rm.map[i].t = t
  BY <1>2, HasEntry, NoEntry
<1> QED
  BY <1>1, <1>2

(* Holding a free register back, and letting it go again.                  *)
LEMMA HoldSound ==
  ASSUME NEW rm, Sound(rm, {}), NEW r \in Regs, ~Has(rm, r)
  PROVE  LET q == [rm EXCEPT !.b = @ \cup {r}]
         IN Sound(q, {r}) /\ q.ok = rm.ok /\ \A y : RFind(q, y) = RFind(rm, y)
<1> DEFINE b == rm.b \cup {r}
<1> DEFINE q == [rm EXCEPT !.b = b]
<1>1. rm \in RMapType /\ b \in SUBSET (Temps \cup Regs) /\ r \notin Mentioned(rm)
  BY Fields DEF Sound, Typed, Has
<1> HIDE DEF b
<1>2. /\ q \in RMapType /\ q.map = rm.map /\ q.b = b /\ q.visit = rm.visit
      /\ q.hint = rm.hint /\ q.ok = rm.ok
  BY <1>1 DEF RMapType
<1> HIDE DEF q
<1>3. Typed(q) /\ Injective(q) /\ ClassOK(q) /\ Mentioned(q) = Mentioned(rm)
  BY <1>2 DEF Sound, Typed, HintsOK, Injective, ClassOK, Mentioned
<1>4. Sound(q, {r})
  BY <1>1, <1>2, <1>3 DEF Sound, b
<1>5. \A y : RFind(q, y) = RFind(rm, y)
  BY <1>2 DEF RFind, Idx
<1> QED
  BY <1>2, <1>4, <1>5 DEF q, b

(* Whatever the map is worth, releasing a register keeps it typed.         *)
LEMMA ReleaseTyped ==
  ASSUME NEW rm, Typed(rm), NEW r
  PROVE  LET q == [rm EXCEPT !.b = @ \ {r}]
         IN Typed(q) /\ q.ok = rm.ok /\ q.map = rm.map /\ q.b = rm.b \ {r}
<1> DEFINE b == rm.b \ {r}
<1> DEFINE q == [rm EXCEPT !.b = b]
<1>1. rm \in RMapType /\ b \in SUBSET (Temps \cup Regs)
  BY Fields DEF Typed
<1> HIDE DEF b
<1>2. /\ q \in RMapType /\ q.map = rm.map /\ q.b = b /\ q.visit = rm.visit
      /\ q.hint = rm.hint /\ q.ok = rm.ok
  BY <1>1 DEF RMapType
<1> HIDE DEF q
<1>3. Typed(q)
  BY <1>2 DEF Typed, HintsOK
<1> QED
  BY <1>2, <1>3 DEF q, b

(* Once released, nothing is held and every temporary has its register.    *)
LEMMA ReleaseSound ==
  ASSUME NEW rm, NEW r, Sound(rm, {r})
  PROVE  LET q == [rm EXCEPT !.b = @ \ {r}]
         IN Sound(q, {}) /\ ~Has(q, r) /\ \A y : RFind(q, y) = RFind(rm, y)
<1> DEFINE q == [rm EXCEPT !.b = @ \ {r}]
<1>1. Typed(q) /\ q.map = rm.map /\ q.b = rm.b \ {r}
  BY ReleaseTyped DEF Sound
<1> HIDE DEF q
<1>2. Injective(q) /\ ClassOK(q) /\ Mentioned(q) = Mentioned(rm)
  BY <1>1 DEF Sound, Injective, ClassOK, Mentioned
<1>3. q.b = Mentioned(q) \cup {}
  BY <1>1, <1>2 DEF Sound
<1>4. \A y : RFind(q, y) = RFind(rm, y)
  BY <1>1 DEF RFind, Idx
<1> QED
  BY <1>1, <1>2, <1>3, <1>4 DEF Sound, Has, q

(* The first half of move: r's holder gets another register and r becomes  *)
(* free, nobody else moves; it dies only when the holder's class is full.  *)
LEMMA EvictSound ==
  ASSUME NEW rm, Sound(rm, {}), rm.ok = TRUE, NEW r \in Regs, NEW l \in 0..MaxLoop
  PROVE  LET q == Evict(rm, r, l)
         IN /\ Typed(q)
            /\ q.ok = TRUE =>
                 /\ Sound(q, {}) /\ ~Has(q, r)
                 /\ \A y : IF RFind(rm, y) = r THEN RFind(q, y) # r
                           ELSE RFind(q, y) = RFind(rm, y)
            /\ q.ok # TRUE => q.ok = FALSE /\ \E t \in Temps : ClassRegs(t) \subseteq rm.b
<1> DEFINE q == Evict(rm, r, l)
<1>0. r # 0
  BY RegFacts
<1>1. CASE ~Has(rm, r)
  <2>1. q = rm
    BY <1>1 DEF Evict
  <2>2. ASSUME NEW y, RFind(rm, y) = r PROVE FALSE
    <3>1. PICK i \in DOMAIN rm.map : rm.map[i].t = y
      BY <2>2, <1>0, NoEntry
    <3>2. rm.map[i].r = r
      BY <2>2, <3>1, OneEntry
    <3> QED
      BY <3>2, <1>1, HasEntry
  <2> QED
    BY <1>1, <2>1, <2>2 DEF Sound
<1>2. CASE Has(rm, r)
  <2> DEFINE x == Holder(rm, r)
  <2> DEFINE f == RFree(rm, x)
  <2> DEFINE m1 == [f EXCEPT !.b = @ \cup {r}]
  <2> DEFINE a == RAlloc(m1, x, l)
  <2>1. PICK i \in DOMAIN rm.map : rm.map[i].r = r /\ x = rm.map[i].t
    <3>1. \E i \in DOMAIN rm.map : rm.map[i].r = r
      BY <1>2, HasEntry
    <3> QED
      BY <3>1, Zenon DEF Holder
  <2>2. x \in Temps \cup Regs
    BY <2>1, OneEntry
  <2>3. q = [a EXCEPT !.b = @ \ {r}]
    BY <1>2, Zenon DEF Evict
  <2>4. /\ Sound(f, {}) /\ f.b = rm.b \ {x, r} /\ RFind(f, x) = 0
        /\ \A y : y # x => RFind(f, y) = RFind(rm, y)
        /\ f.ok = TRUE
    BY <2>1, FreeSound
  <2> HIDE DEF x, f
  <2>5. Sound(m1, {r}) /\ m1.ok = TRUE /\ \A y : RFind(m1, y) = RFind(f, y)
    BY <2>4, HoldSound DEF Has
  <2>6. m1.b = f.b \cup {r}
    <3>1. f \in RMapType
      BY <2>4 DEF Sound, Typed
    <3> QED
      BY <3>1 DEF RMapType
  <2> HIDE DEF m1, q
  <2>7. /\ Typed(a)
        /\ a.ok = TRUE => /\ Sound(a, {r})
                          /\ \A y : y # x => RFind(a, y) = RFind(m1, y)
                          /\ a = m1 \/ RFind(a, x) \notin m1.b
        /\ a.ok # TRUE => a.ok = FALSE /\ x \in Temps /\ ClassRegs(x) \subseteq m1.b
    BY <2>2, <2>5, AllocSound DEF Alloced
  <2> HIDE DEF a
  <2>8. Typed(q) /\ q.ok = a.ok
    BY <2>3, <2>7, ReleaseTyped
  <2>9. a.ok = TRUE => Sound(q, {}) /\ ~Has(q, r) /\ \A y : RFind(q, y) = RFind(a, y)
    BY <2>3, <2>7, ReleaseSound
  <2>10. a.ok = TRUE => \A y : IF RFind(rm, y) = r THEN RFind(q, y) # r
                               ELSE RFind(q, y) = RFind(rm, y)
    <3> SUFFICES ASSUME a.ok = TRUE, NEW y
                 PROVE  IF RFind(rm, y) = r THEN RFind(q, y) # r
                        ELSE RFind(q, y) = RFind(rm, y)
      OBVIOUS
    <3>1. CASE y = x
      <4>1. RFind(rm, x) = r
        BY <2>1, OneEntry
      <4>2. RFind(a, x) # r
        BY <2>4, <2>5, <2>6, <2>7, <1>0
      <4> QED
        BY <3>1, <4>1, <4>2, <2>9
    <3>2. CASE y # x
      <4>1. RFind(q, y) = RFind(rm, y)
        BY <3>2, <2>4, <2>5, <2>7, <2>9
      <4>2. RFind(rm, y) # r
        <5> SUFFICES ASSUME RFind(rm, y) = r PROVE FALSE
          OBVIOUS
        <5>1. PICK j \in DOMAIN rm.map : rm.map[j].t = y
          BY <1>0, NoEntry
        <5>2. rm.map[j].r = r
          BY <5>1, OneEntry
        <5> QED
          BY <5>1, <5>2, <2>1, <3>2 DEF Sound, Injective
      <4> QED
        BY <4>1, <4>2
    <3> QED
      BY <3>1, <3>2
  <2>11. m1.b \subseteq rm.b
    BY <2>4, <2>6, <1>2 DEF Has
  <2> QED
    BY <2>7, <2>8, <2>9, <2>10, <2>11 DEF q
<1> QED
  BY <1>1, <1>2

(* rfree of a temporary, whether it has a register or not.                 *)
LEMMA FreeTemp ==
  ASSUME NEW rm, Sound(rm, {}), NEW t \in Temps
  PROVE  LET q == RFree(rm, t)
         IN /\ Sound(q, {}) /\ ~Has(q, t) /\ q.b \subseteq rm.b /\ RFind(q, t) = 0
            /\ \A y : y # t => RFind(q, y) = RFind(rm, y)
            /\ q.w = rm.w /\ q.visit = rm.visit /\ q.hint = rm.hint /\ q.ok = rm.ok
<1> DEFINE q == RFree(rm, t)
<1>1. CASE Has(rm, t)
  <2>1. PICK i \in DOMAIN rm.map : rm.map[i].t = t
    BY <1>1, HasEntry
  <2>2. /\ Sound(q, {}) /\ q.b = rm.b \ {t, rm.map[i].r} /\ RFind(q, t) = 0
        /\ \A y : y # t => RFind(q, y) = RFind(rm, y)
        /\ q.w = rm.w /\ q.visit = rm.visit /\ q.hint = rm.hint /\ q.ok = rm.ok
    BY <2>1, FreeSound
  <2> QED
    BY <2>2 DEF Has
<1>2. CASE ~Has(rm, t)
  <2>1. q = rm
    BY <1>2 DEF RFree
  <2>2. RFind(rm, t) = 0
    BY <1>2, TempTaken
  <2> QED
    BY <2>1, <2>2, <1>2
<1> QED
  BY <1>1, <1>2

(* move(r, to): the register ends up with its target and nobody else, only *)
(* its former holder and the target change places, and it dies only when a *)
(* class is full.                                                          *)
MoveEffect(rm, r, to, q) ==
  /\ Typed(q)
  /\ q.ok = TRUE =>
       /\ Sound(q, {})
       /\ RFind(q, MoveTarget(r, to)) = r
       /\ \A x \in Temps \ {to} :
            IF RFind(rm, x) \in {0, r} THEN RFind(q, x) # r ELSE RFind(q, x) = RFind(rm, x)
  /\ q.ok # TRUE =>
       /\ q.ok = FALSE
       /\ \E t \in Temps : ClassRegs(t) \subseteq (IF to = 0 THEN rm ELSE RFree(rm, to)).b

(* move does so, or dies of a full class.                                  *)
LEMMA MoveSound ==
  ASSUME NEW rm, Sound(rm, {}), rm.ok = TRUE, NEW l \in 0..MaxLoop,
         NEW r \in Regs, NEW to \in Temps \cup {0}, to \in Temps => KBase[to] = RBase(r)
  PROVE  MoveEffect(rm, r, to, RMove(rm, r, to, l))
<1> DEFINE f == IF to = 0 THEN rm ELSE RFree(rm, to)
<1> DEFINE m1 == Evict(f, r, l)
<1> DEFINE g == MoveTarget(r, to)
<1> DEFINE q == RMove(rm, r, to, l)
<1>0. 0 \notin Temps /\ 0 \notin Regs /\ Temps \cap Regs = {}
  BY RegFacts
<1>1. /\ Sound(f, {}) /\ f.ok = TRUE
      /\ \A y : y # to => RFind(f, y) = RFind(rm, y)
      /\ to \in Temps => RFind(f, to) = 0
  <2>1. CASE to = 0
    BY <2>1, <1>0
  <2>2. CASE to \in Temps
    BY <2>2, <1>0, FreeTemp
  <2> QED
    BY <2>1, <2>2
<1>2. q = IF m1.ok THEN RAdd(m1, g, r) ELSE m1
  BY Zenon DEF RMove
<1> HIDE DEF f, q
<1>3. /\ Typed(m1)
      /\ m1.ok = TRUE =>
           /\ Sound(m1, {}) /\ ~Has(m1, r)
           /\ \A y : IF RFind(f, y) = r THEN RFind(m1, y) # r
                     ELSE RFind(m1, y) = RFind(f, y)
      /\ m1.ok # TRUE => m1.ok = FALSE /\ \E t \in Temps : ClassRegs(t) \subseteq f.b
  BY <1>1, EvictSound
<1> HIDE DEF m1
<1>4. CASE m1.ok = TRUE
  <2>1. q = RAdd(m1, g, r)
    BY <1>2, <1>4
  <2>2. g \in Temps \cup Regs /\ ~Has(m1, g) /\ (IF g \in Temps THEN r \in ClassRegs(g) ELSE g = r)
    <3>1. CASE to = 0
      BY <3>1, <1>0, <1>3, <1>4 DEF MoveTarget
    <3>2. CASE to \in Temps
      <4>1. g = to /\ r \in ClassRegs(to)
        BY <3>2, <1>0, RegFacts DEF MoveTarget
      <4>2. RFind(m1, to) = 0
        BY <3>2, <1>0, <1>1, <1>3, <1>4
      <4> QED
        BY <3>2, <4>1, <4>2, <1>3, <1>4, TempTaken
    <3> QED
      BY <3>1, <3>2
  <2>3. /\ Sound(q, {}) /\ RFind(q, g) = r /\ q.ok = m1.ok
        /\ \A y : y # g => RFind(q, y) = RFind(m1, y)
    BY <2>1, <2>2, <1>3, <1>4, AddSound
  <2>4. ASSUME NEW x \in Temps \ {to}
        PROVE  IF RFind(rm, x) \in {0, r} THEN RFind(q, x) # r ELSE RFind(q, x) = RFind(rm, x)
    <3>1. x # g /\ r # 0
      BY <1>0 DEF MoveTarget
    <3>2. RFind(q, x) = RFind(m1, x) /\ RFind(f, x) = RFind(rm, x)
      BY <3>1, <2>3, <1>1
    <3> QED
      BY <3>1, <3>2, <1>3, <1>4
  <2> QED
    BY <1>4, <2>3, <2>4 DEF MoveEffect, Sound, q
<1>5. CASE m1.ok # TRUE
  BY <1>2, <1>3, <1>5 DEF MoveEffect, q, f
<1> QED
  BY <1>4, <1>5

(* A temporary released to follow its hint gets the register it waits for. *)
LEMMA RetargetSound ==
  ASSUME Sound(m, {}), m.ok = TRUE, loop \in 0..MaxLoop, NEW rf \in Regs,
         Waiter(rf) # 0, ~Has(m, rf), m.hint[Phicls[Waiter(rf)]].r = rf, Has(m, Waiter(rf))
  PROVE  LET q == Retargeted(rf)
         IN Sound(q, {}) /\ q.ok = TRUE /\ RFind(q, Waiter(rf)) = rf
<1> DEFINE x == Waiter(rf)
<1> DEFINE f == RFree(m, x)
<1> DEFINE v == [f EXCEPT !.visit[x] = 0]
<1> DEFINE a == RAlloc(v, x, loop)
<1> DEFINE q == Retargeted(rf)
<1>1. x \in Temps /\ rf # 0 /\ Phicls[x] \in Temps
  BY Fields, RegFacts DEF Sound, Typed, Waiter
<1>2. q = [a EXCEPT !.w[rf] = 0]
  BY Zenon DEF Retargeted, RetargetFrom
<1>3. m.hint[Phicls[x]].r = rf
  OBVIOUS
<1> HIDE DEF x, q
<1>4. /\ Sound(f, {}) /\ ~Has(f, x) /\ ~Has(f, rf) /\ f.hint = m.hint /\ f.ok = TRUE
  BY <1>1, FreeTemp DEF Has
<1> HIDE DEF f
<1>5. /\ Sound(v, {}) /\ v.b = f.b /\ v.ok = TRUE /\ v.visit[x] = 0 /\ v.hint = f.hint
  <2> DEFINE w == [f.visit EXCEPT ![x] = 0]
  <2>1. v = [f EXCEPT !.visit = w]
    OBVIOUS
  <2>2. f \in RMapType /\ w \in [Temps -> Regs \cup {0}] /\ w[x] = 0
    BY <1>1, <1>4, Fields DEF Sound, Typed
  <2>3. \A u \in Temps : w[u] \in ClassRegs(u) \cup {0}
    BY <1>4, Fields DEF Sound, Typed, HintsOK
  <2> HIDE DEF w, v
  <2>4. /\ v \in RMapType /\ v.visit = w /\ v.hint = f.hint /\ v.map = f.map
        /\ v.b = f.b /\ v.ok = f.ok
    BY <2>1, <2>2 DEF RMapType
  <2>5. Typed(v)
    BY <2>3, <2>4, <1>4 DEF Sound, Typed, HintsOK
  <2> QED
    BY <2>2, <2>4, <2>5, <1>4, SameContents
<1> HIDE DEF v
<1>6. Wanted(v, x) = rf
  BY <1>1, <1>3, <1>4, <1>5 DEF Wanted, Has
<1>7. a = Found(v, x, rf, loop)
  BY <1>1, <1>4, <1>5, <1>6 DEF RAlloc, RAllocTry, Has
<1>8. rf \in ClassRegs(x) /\ ~Has(v, x) /\ ~Has(v, rf)
  BY <1>1, <1>3, <1>4, <1>5, RegFacts DEF Sound, Typed, HintsOK, Has
<1> HIDE DEF a
<1>9. Sound(a, {}) /\ RFind(a, x) = rf /\ a.ok = TRUE
  BY <1>1, <1>5, <1>7, <1>8, FoundSound
<1>10. Typed(q) /\ q.map = a.map /\ q.b = a.b /\ q.ok = a.ok
  <2> DEFINE w == [a.w EXCEPT ![rf] = 0]
  <2>1. q = [a EXCEPT !.w = w]
    BY <1>2
  <2>2. a \in RMapType /\ w \in [Regs -> Temps \cup {0}]
    BY <1>9, Fields DEF Sound, Typed
  <2> HIDE DEF w
  <2>3. /\ q \in RMapType /\ q.visit = a.visit /\ q.hint = a.hint /\ q.map = a.map
        /\ q.b = a.b /\ q.ok = a.ok
    BY <2>1, <2>2 DEF RMapType
  <2> QED
    BY <2>3, <1>9 DEF Sound, Typed, HintsOK
<1> QED
  BY <1>9, <1>10, SameContents DEF q, x

-----------------------------------------------------------------------------
(* MapInv in the words of the lemmas.                                      *)
Kept(rm) == Typed(rm) /\ (rm.ok = TRUE => Sound(rm, {}))

(* MapInv says no more and no less.                                        *)
LEMMA MapInvKept ==
  MapInv <=> loop \in 0..MaxLoop /\ Kept(m)
<1>1. m \in RMapType => m.ok \in BOOLEAN
  BY Fields
<1> QED
  BY <1>1 DEF MapInv, TypeOK, HintInv, Kept, Typed, HintsOK, Sound, Injective, ClassOK, Mentioned

(* While the allocator lives, nothing is held back between its steps.      *)
LEMMA MapInvInBlock ==
  ASSUME MapInv, m.ok
  PROVE  Sound(m, {}) /\ m.ok = TRUE /\ loop \in 0..MaxLoop
<1>1. m.ok \in BOOLEAN
  BY Fields DEF MapInv, TypeOK
<1> QED
  BY <1>1, MapInvKept DEF Kept

(* A block starts with nothing mapped and the hints of the last one.       *)
LEMMA EmptySound ==
  ASSUME NEW q \in RMapType, q.map = <<>>, q.b = {}, HintsOK(q)
  PROVE  Sound(q, {})
<1>1. DOMAIN q.map = {}
  BY DEF RMapType
<1> QED
  BY <1>1 DEF Sound, Typed, Injective, ClassOK, Mentioned

(* The initial map is sound.                                               *)
LEMMA InitKept == Init => loop \in 0..MaxLoop /\ Kept(m)
<1> SUFFICES ASSUME Init PROVE loop \in 0..MaxLoop /\ Kept(m)
  OBVIOUS
<1>1. MaxLoop \in Nat
  BY RMapAssumption
<1>2. m \in RMapType /\ m.map = <<>> /\ m.b = {} /\ m.visit = [t \in Temps |-> 0]
      /\ m.hint = [t \in Temps |-> [r |-> 0, w |-> MaxLoop]]
  BY <1>1 DEF Init, EmptyRMap, RMapType
<1>3. HintsOK(m)
  <2> SUFFICES ASSUME NEW t \in Temps PROVE m.visit[t] = 0 /\ m.hint[t].r = 0
    BY DEF HintsOK
  <2>1. m.visit[t] = 0 /\ m.hint[t] = [r |-> 0, w |-> MaxLoop]
    BY <1>2
  <2> QED
    BY <2>1
<1> QED
  BY <1>1, <1>2, <1>3, EmptySound DEF Init, Kept, Sound

(* Every step keeps the map sound or says "no more regs".                  *)
LEMMA NextKept ==
  ASSUME MapInv, [Next]_vars
  PROVE  loop' \in 0..MaxLoop /\ Kept(m')
<1>1. loop \in 0..MaxLoop /\ Kept(m)
  BY MapInvKept
<1>2. CASE UNCHANGED vars
  BY <1>1, <1>2 DEF vars
<1>3. ASSUME NEW l \in 0..MaxLoop, NewBlock(l)
      PROVE  loop' \in 0..MaxLoop /\ Kept(m')
  <2>1. m' = [EmptyRMap EXCEPT !.visit = m.visit, !.hint = m.hint] /\ loop' = l
    BY <1>3 DEF NewBlock
  <2>2. m \in RMapType /\ HintsOK(m) /\ MaxLoop \in Nat
    BY <1>1, RMapAssumption DEF Kept, Typed
  <2>3. EmptyRMap \in RMapType
    BY <2>2 DEF EmptyRMap, RMapType
  <2>4. m' \in RMapType /\ m'.visit = m.visit /\ m'.hint = m.hint /\ m'.map = <<>> /\ m'.b = {}
    BY <2>1, <2>2, <2>3 DEF RMapType, EmptyRMap
  <2>5. HintsOK(m')
    BY <2>2, <2>4 DEF HintsOK
  <2> QED
    BY <2>1, <2>4, <2>5, EmptySound DEF Kept, Sound
<1>4. ASSUME NEW t \in Temps, Use(t) \/ Try(t)
      PROVE  loop' \in 0..MaxLoop /\ Kept(m')
  <2>1. Sound(m, {}) /\ m.ok = TRUE
    BY <1>4, MapInvInBlock DEF Use, Try, InBlock
  <2>2. Alloced(m, {}, t, m') /\ loop' = loop
    <3>1. Alloced(m, {}, t, RAlloc(m, t, loop)) /\ Alloced(m, {}, t, RAllocTry(m, t, TRUE, loop))
      BY <1>1, <2>1, AllocSound
    <3> QED
      BY <3>1, <1>4, Zenon DEF Use, Try
  <2> QED
    BY <1>1, <2>2 DEF Alloced, Kept
<1>5. ASSUME NEW r \in Regs, AddReg(r)
      PROVE  loop' \in 0..MaxLoop /\ Kept(m')
  <2>1. Sound(m, {}) /\ ~Has(m, r) /\ m' = RAdd(m, r, r) /\ loop' = loop /\ r \notin Temps
    BY <1>5, MapInvInBlock, RegFacts DEF AddReg, InBlock
  <2>2. Sound(m', {})
    BY <2>1, AddSound
  <2> QED
    BY <1>1, <2>1, <2>2 DEF Kept, Sound
<1>6. ASSUME NEW rf \in Regs, Retarget(rf)
      PROVE  loop' \in 0..MaxLoop /\ Kept(m')
  <2>1. Sound(m, {}) /\ m.ok = TRUE
    BY <1>6, MapInvInBlock DEF Retarget, InBlock
  <2>2. Sound(Retargeted(rf), {})
    BY <1>1, <1>6, <2>1, RetargetSound DEF Retarget
  <2> QED
    BY <1>1, <1>6, <2>2 DEF Retarget, Kept, Sound
<1>7. ASSUME NEW x \in Temps \cup Regs, Free(x)
      PROVE  loop' \in 0..MaxLoop /\ Kept(m')
  <2>1. Sound(m, {}) /\ Idx(m, x) # {} /\ m' = RFree(m, x) /\ loop' = loop
    BY <1>7, MapInvInBlock DEF Free, InBlock, RFreeOK
  <2>2. PICK i \in DOMAIN m.map : m.map[i].t = x
    BY <2>1 DEF Idx
  <2>3. Sound(m', {})
    BY <2>1, <2>2, FreeSound
  <2> QED
    BY <1>1, <2>1, <2>3 DEF Kept, Sound
<1>8. ASSUME NEW r \in Regs, NEW to \in Temps \cup {0}, Move(r, to)
      PROVE  loop' \in 0..MaxLoop /\ Kept(m')
  <2>1. Sound(m, {}) /\ m.ok = TRUE
    BY <1>8, MapInvInBlock DEF Move, InBlock
  <2>2. MoveEffect(m, r, to, m') /\ loop' = loop
    BY <1>1, <1>8, <2>1, MoveSound DEF Move
  <2> QED
    BY <1>1, <2>2 DEF MoveEffect, Kept
<1>9. ASSUME NEW t \in Temps, NEW r \in Regs, Hint(t, r)
      PROVE  loop' \in 0..MaxLoop /\ Kept(m')
  <2>1. Sound(m, {}) /\ r \in ClassRegs(t) /\ m' = SetHint(m, t, r, loop) /\ loop' = loop
    BY <1>9, MapInvInBlock, RegFacts DEF Hint, InBlock
  <2>2. Typed(m') /\ m'.map = m.map /\ m'.b = m.b
    BY <1>1, <2>1, SetHintSound DEF Sound
  <2> QED
    BY <1>1, <2>1, <2>2, SameContents DEF Kept
<1>10. CASE Died
  BY <1>1, <1>10 DEF Died, vars
<1> QED
  BY <1>2, <1>3, <1>4, <1>5, <1>6, <1>7, <1>8, <1>9, <1>10 DEF Next

(* However the callers interleave uses, definitions, moves and hints, the  *)
(* register map stays a partial injection into registers of the right      *)
(* class and b is exactly what it mentions (RegMap.tla).                   *)
THEOREM MapInvariant == Spec => []MapInv
<1>1. Init => MapInv
  BY InitKept, MapInvKept
<1>2. MapInv /\ [Next]_vars => MapInv'
  <2> SUFFICES ASSUME MapInv, [Next]_vars PROVE MapInv'
    OBVIOUS
  <2>1. loop' \in 0..MaxLoop /\ Kept(m')
    BY NextKept
  <2>2. m' \in RMapType => m'.ok \in BOOLEAN
    BY Fields
  <2> QED
    BY <2>1, <2>2 DEF MapInv, TypeOK, HintInv, Kept, Typed, HintsOK, Sound, Injective,
                      ClassOK, Mentioned
<1> QED
  BY <1>1, <1>2, PTL DEF Spec

(* After a move the register is its target's and nobody else's, only the   *)
(* former holder and the target changed places; a temporary released to    *)
(* follow its hint gets the register that was freed (RegMap.tla).          *)
THEOREM MovesLand == Spec => Lands
<1> DEFINE Landed ==
      /\ \A r \in Regs, to \in Temps \cup {0} : Move(r, to) /\ m'.ok => Moved(r, to)
      /\ \A rf \in Regs : Retarget(rf) => RFind(m', Waiter(rf)) = rf
<1>1. MapInv /\ [Next]_vars => Landed
  <2> SUFFICES ASSUME MapInv PROVE Landed
    OBVIOUS
  <2>1. ASSUME NEW r \in Regs, NEW to \in Temps \cup {0}, Move(r, to), m'.ok
        PROVE  Moved(r, to)
    <3>1. Sound(m, {}) /\ m.ok = TRUE /\ loop \in 0..MaxLoop
      BY <2>1, MapInvInBlock DEF Move, InBlock
    <3>2. MoveEffect(m, r, to, m')
      BY <2>1, <3>1, MoveSound DEF Move
    <3>3. m'.ok = TRUE
      BY <2>1, <3>2 DEF MoveEffect
    <3> QED
      BY <3>2, <3>3 DEF MoveEffect, Moved
  <2>2. ASSUME NEW rf \in Regs, Retarget(rf) PROVE RFind(m', Waiter(rf)) = rf
    <3>1. Sound(m, {}) /\ m.ok = TRUE /\ loop \in 0..MaxLoop
      BY <2>2, MapInvInBlock DEF Retarget, InBlock
    <3>2. RFind(Retargeted(rf), Waiter(rf)) = rf
      BY <2>2, <3>1, RetargetSound DEF Retarget
    <3> QED
      BY <2>2, <3>2 DEF Retarget
  <2> QED
    BY <2>1, <2>2
<1> QED
  BY <1>1, MapInvariant, PTL DEF Spec, Lands

(* "no more regs" is said only when a whole class is taken (RegMap.tla).   *)
THEOREM DiesOnlyWhenFull == Spec => DieOnlyFull
<1> DEFINE Justified ==
      ~m'.ok =>
        \/ \E t \in Temps : ClassRegs(t) \subseteq m.b
        \/ \E r \in Regs, to \in Temps \cup {0} :
             /\ Move(r, to)
             /\ \E t \in Temps : ClassRegs(t) \subseteq (IF to = 0 THEN m ELSE RFree(m, to)).b
<1>1. MapInv /\ [Next]_vars => Justified \/ UNCHANGED vars
  <2> SUFFICES ASSUME MapInv, Next, ~m'.ok, ~UNCHANGED vars PROVE Justified
    OBVIOUS
  <2>0. loop \in 0..MaxLoop
    BY DEF MapInv, TypeOK
  <2>1. ASSUME NEW l \in 0..MaxLoop, NewBlock(l) PROVE FALSE
    <3>1. m' = [EmptyRMap EXCEPT !.visit = m.visit, !.hint = m.hint]
      BY <2>1 DEF NewBlock
    <3>2. m'.ok = TRUE
      BY <3>1 DEF EmptyRMap
    <3> QED
      BY <3>2
  <2>2. ASSUME NEW t \in Temps, Use(t) \/ Try(t) PROVE Justified
    <3>1. Sound(m, {}) /\ m.ok = TRUE
      BY <2>2, MapInvInBlock DEF Use, Try, InBlock
    <3>2. Alloced(m, {}, t, RAlloc(m, t, loop)) /\ Alloced(m, {}, t, RAllocTry(m, t, TRUE, loop))
      BY <2>0, <3>1, AllocSound
    <3>3. Alloced(m, {}, t, m')
      BY <3>2, <2>2, Zenon DEF Use, Try
    <3> QED
      BY <3>3 DEF Alloced
  <2>3. ASSUME NEW r \in Regs, AddReg(r) PROVE FALSE
    <3>1. Sound(m, {}) /\ m.ok = TRUE /\ ~Has(m, r) /\ m' = RAdd(m, r, r) /\ r \notin Temps
      BY <2>3, MapInvInBlock, RegFacts DEF AddReg, InBlock
    <3>2. m'.ok = m.ok
      BY <3>1, AddSound
    <3> QED
      BY <3>1, <3>2
  <2>4. ASSUME NEW rf \in Regs, Retarget(rf) PROVE FALSE
    <3>1. Sound(m, {}) /\ m.ok = TRUE
      BY <2>4, MapInvInBlock DEF Retarget, InBlock
    <3>2. m'.ok = TRUE
      BY <2>0, <2>4, <3>1, RetargetSound DEF Retarget
    <3> QED
      BY <3>2
  <2>5. ASSUME NEW x \in Temps \cup Regs, Free(x) PROVE FALSE
    <3>1. Sound(m, {}) /\ m.ok = TRUE /\ Idx(m, x) # {} /\ m' = RFree(m, x)
      BY <2>5, MapInvInBlock DEF Free, InBlock, RFreeOK
    <3>2. PICK i \in DOMAIN m.map : m.map[i].t = x
      BY <3>1 DEF Idx
    <3>3. m'.ok = m.ok
      BY <3>1, <3>2, FreeSound
    <3> QED
      BY <3>1, <3>3
  <2>6. ASSUME NEW r \in Regs, NEW to \in Temps \cup {0}, Move(r, to) PROVE Justified
    <3>1. Sound(m, {}) /\ m.ok = TRUE
      BY <2>6, MapInvInBlock DEF Move, InBlock
    <3>2. MoveEffect(m, r, to, m')
      BY <2>0, <2>6, <3>1, MoveSound DEF Move
    <3>3. m'.ok # TRUE
      OBVIOUS
    <3>4. \E t \in Temps : ClassRegs(t) \subseteq (IF to = 0 THEN m ELSE RFree(m, to)).b
      BY <3>2, <3>3 DEF MoveEffect
    <3> QED
      BY <2>6, <3>4
  <2>7. ASSUME NEW t \in Temps, NEW r \in Regs, Hint(t, r) PROVE FALSE
    <3>1. Sound(m, {}) /\ m.ok = TRUE /\ r \in ClassRegs(t) /\ m' = SetHint(m, t, r, loop)
      BY <2>7, MapInvInBlock, RegFacts DEF Hint, InBlock
    <3>2. m'.ok = m.ok
      BY <2>0, <3>1, SetHintSound DEF Sound
    <3> QED
      BY <3>1, <3>2
  <2>8. CASE Died
    BY <2>8 DEF Died
  <2> QED
    BY <2>1, <2>2, <2>3, <2>4, <2>5, <2>6, <2>7, <2>8 DEF Next
<1> QED
  BY <1>1, MapInvariant, PTL DEF Spec, DieOnlyFull

(* While it lives a map has at most one entry per register, so that its    *)
(* arrays t[] and r[] never overflow (the last assertion of radd,          *)
(* rega.c:94).                                                             *)
THEOREM MapFits == Spec => [](m.ok => Len(m.map) <= NGpr + NFpr)
<1>1. ASSUME MapInv, m.ok PROVE Len(m.map) <= NGpr + NFpr
  <2> DEFINE n == Len(m.map)
  <2> DEFINE N == NGpr + NFpr
  <2> DEFINE f == [i \in 1..n |-> m.map[i].r]
  <2>1. Sound(m, {}) /\ n \in Nat /\ DOMAIN m.map = 1..n /\ N \in Nat /\ Regs = 1..N
    BY <1>1, MapInvInBlock, Fields, RegFacts DEF Sound, Typed, Regs
  <2>2. f \in [1..n -> 1..N]
    BY <2>1, OneEntry
  <2>3. \A i, j \in 1..n : i # j => f[i] # f[j]
    BY <2>1 DEF Sound, Injective
  <2> HIDE DEF f, n, N
  <2>4. /\ IsFiniteSet(1..n) /\ IsFiniteSet(1..N)
        /\ Cardinality(1..n) = n /\ Cardinality(1..N) = N
    <3>1. ASSUME NEW u \in Nat PROVE IsFiniteSet(1..u) /\ Cardinality(1..u) = u
      <4>1. IsFiniteSet(1..u) /\ Cardinality(1..u) = IF 1 > u THEN 0 ELSE u - 1 + 1
        BY FS_Interval
      <4> QED
        BY <4>1
    <3> QED
      BY <2>1, <3>1
  <2>5. ~(N < n)
    BY <2>2, <2>3, <2>4, FS_PigeonHole
  <2> QED
    BY <2>1, <2>5 DEF n, N
<1> QED
  BY <1>1, MapInvariant, PTL
=============================================================================
