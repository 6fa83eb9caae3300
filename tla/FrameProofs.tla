---------------------------- MODULE FrameProofs ----------------------------
(***************************************************************************)
(* Proofs about Frame, for every set of temporaries, every program of      *)
(* allocs and every INT_MAX, and about the m68k frame, for every number of *)
(* callee-save registers.                                                  *)
(***************************************************************************)
EXTENDS M68kFrame, TLAPS

(* Where the fast locals end: the frame grows over them during isel, and   *)
(* the spiller keeps their end in locs.                                    *)
LocalsEnd == IF pc \in {"isel", "died"} THEN fnslot ELSE locs

(* A placed local was reached by isel's loops, ends before LocalsEnd and   *)
(* is aligned relative to it.                                              *)
LocalsInv ==
  \A i \in LocalsIn :
    /\ allocs[i].sz \in Nat
    /\ allocs[i].al <= al
    /\ lslot[i] + LocalSlots(i) <= LocalsEnd
    /\ (LocalsEnd - lslot[i]) % Unit(allocs[i].al) = 0

LocalsDisjoint ==
  \A i, j \in LocalsIn :
    i # j => \/ lslot[i] + LocalSlots(i) <= lslot[j]
             \/ lslot[j] + LocalSlots(j) <= lslot[i]

(* The packing state: slot8 is even, and slot4 is either equal to it or an *)
(* odd slot below it.                                                      *)
PackInv ==
  /\ slot8 % 2 = 0
  /\ pc = "spill" /\ slot4 # slot8 => slot4 < slot8 /\ slot4 % 2 = 1

(* A spilled temporary lies between locs and locs + slot8, is aligned, and *)
(* is clear of the hole.                                                   *)
SpilledInv ==
  \A t \in Spilled :
    /\ locs <= tslot[t]
    /\ tslot[t] + TempSlots(t) <= locs + slot8
    /\ (tslot[t] - locs) % TempSlots(t) = 0
    /\ pc = "spill" /\ slot4 < slot8 =>
                        \/ tslot[t] > locs + slot4
                        \/ tslot[t] + TempSlots(t) <= locs + slot4

SpilledDisjoint ==
  \A t, u \in Spilled :
    t # u => \/ tslot[t] + TempSlots(t) <= tslot[u]
             \/ tslot[u] + TempSlots(u) <= tslot[t]

(* Every slot of the spill area but the hole is taken.                     *)
Covered ==
  pc = "spill" =>
    \A x \in locs .. locs + slot8 - 1 :
      x = locs + slot4 \/ \E t \in Spilled : x \in TempRange(t)

PhaseInv ==
  /\ pc \in {"isel", "died"} => slot4 = 0 /\ slot8 = 0 /\ Spilled = {}
  /\ pc = "spill" => fnslot = locs
  /\ pc = "done" => fnslot = locs + slot8 /\ slot8 % 4 = 0

(* The inductive strengthening of NoOverlap, OneHole and FrameDone.        *)
IInv ==
  /\ TypeOK
  /\ LocalsInv
  /\ LocalsDisjoint
  /\ PackInv
  /\ SpilledInv
  /\ SpilledDisjoint
  /\ Covered
  /\ PhaseInv

-----------------------------------------------------------------------------
(* Rounding a size: a natural number of slots, a multiple of its own unit  *)
(* and of every smaller one.                                               *)
LEMMA RoundedFacts ==
  ASSUME NEW a \in 0..2, NEW b \in 0..2, b <= a, NEW sz \in Nat
  PROVE  Rounded(a, sz) \in Nat /\ Rounded(a, sz) % Unit(b) = 0
<1>1. CASE a = 0
  BY <1>1 DEF Rounded, Unit
<1>2. CASE a = 1
  BY <1>2 DEF Rounded, Unit
<1>3. CASE a = 2
  BY <1>3 DEF Rounded, Unit
<1> QED BY <1>1, <1>2, <1>3

(* Adding a multiple of the unit keeps a distance aligned.                 *)
LEMMA AlignedSum ==
  ASSUME NEW a \in 0..2, NEW x \in Int, NEW y \in Int,
         x % Unit(a) = 0, y % Unit(a) = 0
  PROVE  (x + y) % Unit(a) = 0
BY DEF Unit

(* The initial states satisfy the inductive invariant.                     *)
LEMMA InitIInv == Init => IInv
<1> SUFFICES ASSUME Init PROVE IInv
  OBVIOUS
<1>1. allocs \in Seq(Alloc)
  BY FrameAssumption DEF Init
<1>2. LocalsIn = {} /\ Spilled = {}
  BY DEF Init, LocalsIn, Spilled
<1>3. TypeOK
  BY <1>1 DEF Init, TypeOK
<1> QED
  BY <1>2, <1>3 DEF Init, IInv, LocalsInv, LocalsDisjoint, PackInv, SpilledInv,
     SpilledDisjoint, Covered, PhaseInv

(* What IInv says of one placed local.                                     *)
LEMMA LocalFacts ==
  ASSUME IInv, NEW i \in LocalsIn
  PROVE  /\ i \in DOMAIN allocs /\ allocs[i] \in Alloc
         /\ allocs[i].al \in 0..2 /\ allocs[i].sz \in Nat
         /\ LocalSlots(i) \in Nat /\ lslot[i] \in Nat
<1>1. i \in DOMAIN allocs /\ lslot[i] \in Nat
  BY DEF IInv, TypeOK, LocalsIn
<1>2. allocs[i] \in Alloc
  BY <1>1 DEF IInv, TypeOK
<1>3. allocs[i].al \in 0..2 /\ allocs[i].sz \in Nat
  BY <1>2 DEF Alloc, IInv, LocalsInv
<1>4. LocalSlots(i) \in Nat
  BY <1>3, RoundedFacts DEF LocalSlots
<1> QED
  BY <1>1, <1>2, <1>3, <1>4

-----------------------------------------------------------------------------
(* Moving isel's counters, or from isel to the spiller, keeps IInv: no     *)
(* slot changes and al does not decrease.                                  *)
LEMMA CounterStep ==
  ASSUME IInv, pc = "isel",
         UNCHANGED <<allocs, fnslot, lslot, slot4, slot8, tslot>>,
         ip' \in Nat \ {0}, al' \in 0..2, al <= al',
         \/ pc' \in {"isel", "died"} /\ locs' = locs
         \/ pc' = "spill" /\ locs' = fnslot
  PROVE  IInv'
<1>1. TypeOK'
  BY DEF IInv, TypeOK
<1>2. LocalsIn' = LocalsIn /\ Spilled' = Spilled /\ LocalsEnd' = LocalsEnd
  BY DEF LocalsIn, Spilled, LocalsEnd
<1>3. \A i : LocalSlots(i)' = LocalSlots(i)
  BY DEF LocalSlots
<1>4. LocalsInv'
  <2> SUFFICES ASSUME NEW i \in LocalsIn
               PROVE  allocs[i].al <= al' /\ UNCHANGED <<allocs, lslot>>
    BY <1>2, <1>3 DEF IInv, LocalsInv
  <2>1. allocs[i].al \in 0..2 /\ allocs[i].al <= al /\ al \in 0..2
    BY LocalFacts DEF IInv, LocalsInv, TypeOK
  <2> QED
    BY <2>1
<1>5. LocalsDisjoint'
  BY <1>2, <1>3 DEF IInv, LocalsDisjoint
<1>6. Spilled' = {}
  BY <1>2 DEF IInv, PhaseInv
<1>7. SpilledInv' /\ SpilledDisjoint' /\ PackInv' /\ Covered' /\ PhaseInv'
  BY <1>6 DEF IInv, SpilledInv, SpilledDisjoint, PackInv, Covered, PhaseInv, TypeOK
<1> QED
  BY <1>1, <1>4, <1>5, <1>7 DEF IInv

(* The alloc isel places: its size is a natural number of slots.           *)
LEMMA AssignedSlots ==
  ASSUME IInv, IselAssign
  PROVE  /\ pc = "isel" /\ ip \in DOMAIN allocs /\ allocs[ip] \in Alloc
         /\ allocs[ip].sz \in Nat /\ allocs[ip].al = al /\ al \in 0..2
         /\ LocalSlots(ip) \in Nat
         /\ \A b \in 0..2 : b <= al => LocalSlots(ip) % Unit(b) = 0
<1>1. pc = "isel" /\ ip \in DOMAIN allocs /\ al \in 0..2 /\ allocs[ip].al = al
  <2>1. /\ pc = "isel" /\ ip \in Nat \ {0} /\ ip <= Len(allocs) /\ al \in 0..2
        /\ allocs[ip].al = al /\ allocs \in Seq(Alloc)
    BY DEF IInv, TypeOK, IselAssign
  <2> QED
    BY <2>1
<1>2. allocs[ip] \in Alloc
  BY <1>1 DEF IInv, TypeOK
<1>3. allocs[ip].sz \in Int
  BY <1>2, FrameAssumption DEF Alloc
<1>4. allocs[ip].sz \in Nat
  BY <1>3 DEF IselAssign, BadSize
<1> QED
  BY <1>1, <1>2, <1>4, RoundedFacts DEF LocalSlots

(* A fast local is placed at the end of the frame, which grows by a        *)
(* multiple of its unit: the locals before it, of a smaller or the same    *)
(* unit, stay aligned.                                                     *)
LEMMA AssignStep ==
  ASSUME IInv, IselAssign
  PROVE  IInv'
<1> DEFINE n == LocalSlots(ip)
<1>1. /\ pc = "isel" /\ ip \in DOMAIN allocs /\ allocs[ip] \in Alloc
      /\ allocs[ip].sz \in Nat /\ allocs[ip].al = al /\ al \in 0..2
  BY AssignedSlots
<1>2. /\ n \in Nat
      /\ \A b \in 0..2 : b <= al => n % Unit(b) = 0
  BY AssignedSlots
<1>3. /\ fnslot \in Nat /\ fnslot' = fnslot + n
      /\ lslot' = [lslot EXCEPT ![ip] = fnslot]
      /\ lslot \in [DOMAIN allocs -> Nat \cup {-1}]
      /\ UNCHANGED <<allocs, pc, al, locs, slot4, slot8, tslot>>
  BY DEF IInv, TypeOK, IselAssign
<1>4. TypeOK'
  BY <1>1, <1>2, <1>3 DEF IInv, TypeOK, IselAssign
<1>5. LocalsIn' = LocalsIn \cup {ip} /\ LocalsEnd' = fnslot' /\ LocalsEnd = fnslot
  BY <1>1, <1>3 DEF LocalsIn, LocalsEnd
<1>6. \A i : LocalSlots(i)' = LocalSlots(i)
  BY <1>3 DEF LocalSlots
<1>7. \A i \in LocalsIn : allocs[i].al \in 0..2 /\ LocalSlots(i) \in Nat /\ lslot[i] \in Nat
  BY LocalFacts
<1>8. LocalsInv'
  <2> SUFFICES ASSUME NEW i \in LocalsIn'
               PROVE  /\ allocs[i].sz \in Nat
                      /\ allocs[i].al <= al
                      /\ lslot'[i] + LocalSlots(i) <= fnslot'
                      /\ (fnslot' - lslot'[i]) % Unit(allocs[i].al) = 0
    BY <1>3, <1>5, <1>6 DEF LocalsInv
  <2>1. CASE i = ip
    BY <2>1, <1>1, <1>2, <1>3
  <2>2. CASE i # ip
    <3>1. i \in LocalsIn /\ lslot'[i] = lslot[i] /\ allocs[i].al \in 0..2
      BY <2>2, <1>3, <1>5, <1>7 DEF Alloc
    <3>2. /\ allocs[i].sz \in Nat /\ allocs[i].al <= al
          /\ lslot[i] + LocalSlots(i) <= fnslot
          /\ (fnslot - lslot[i]) % Unit(allocs[i].al) = 0
      BY <3>1, <1>5 DEF IInv, LocalsInv
    <3>3. n % Unit(allocs[i].al) = 0
      BY <3>1, <3>2, <1>2
    <3>4. ((fnslot - lslot[i]) + n) % Unit(allocs[i].al) = 0
      <4> DEFINE a == allocs[i].al
                 x == fnslot - lslot[i]
      <4>1. a \in 0..2 /\ x \in Int /\ n \in Int
        BY <3>1, <1>2, <1>3, <1>7
      <4>2. x % Unit(a) = 0 /\ n % Unit(a) = 0
        BY <3>2, <3>3
      <4> HIDE DEF a, x, n
      <4>3. (x + n) % Unit(a) = 0
        BY <4>1, <4>2, AlignedSum
      <4> QED
        BY <4>3 DEF a, x
    <3>5. fnslot' - lslot'[i] = (fnslot - lslot[i]) + n
      BY <3>1, <1>2, <1>3, <1>7
    <3> QED
      BY <3>1, <3>2, <3>4, <3>5, <1>2, <1>3, <1>7
  <2> QED BY <2>1, <2>2
<1>9. LocalsDisjoint'
  BY <1>1, <1>2, <1>3, <1>5, <1>6, <1>7 DEF IInv, LocalsInv, LocalsDisjoint, LocalsIn
<1>10. Spilled' = {}
  BY <1>1, <1>3 DEF IInv, PhaseInv, Spilled
<1>11. SpilledInv' /\ SpilledDisjoint' /\ PackInv' /\ Covered' /\ PhaseInv'
  BY <1>1, <1>3, <1>10 DEF IInv, SpilledInv, SpilledDisjoint, PackInv, Covered, PhaseInv
<1> QED
  BY <1>4, <1>8, <1>9, <1>11 DEF IInv

-----------------------------------------------------------------------------
(* Spilling touches no local: what IInv says of the locals carries over.   *)
LEMMA SpillKeepsLocals ==
  ASSUME IInv, pc \in {"spill", "done"}, pc' \in {"spill", "done"},
         UNCHANGED <<allocs, al, lslot, locs>>
  PROVE  LocalsInv' /\ LocalsDisjoint'
<1>1. LocalsIn' = LocalsIn /\ LocalsEnd' = LocalsEnd
  BY DEF LocalsIn, LocalsEnd
<1>2. \A i : LocalSlots(i)' = LocalSlots(i)
  BY DEF LocalSlots
<1> QED
  BY <1>1, <1>2 DEF IInv, LocalsInv, LocalsDisjoint

(* What IInv says of one spilled temporary.                                *)
LEMMA SpilledFacts ==
  ASSUME IInv, NEW t \in Spilled
  PROVE  t \in Temps /\ tslot[t] \in Nat /\ TempSlots(t) \in {1, 2}
BY DEF IInv, TypeOK, Spilled, TempSlots

(* slot(t), first call for t: the new slots are above every spilled        *)
(* temporary, or are the hole.                                             *)
LEMMA SlotStep ==
  ASSUME IInv, NEW t \in Temps, SlotWide(t) \/ SlotNarrow(t)
  PROVE  IInv'
<1> DEFINE s == tslot'[t] - locs
           n == TempSlots(t)
<1>1. /\ pc = "spill" /\ t \notin Spilled
      /\ UNCHANGED <<allocs, pc, al, ip, fnslot, lslot, locs>>
  BY DEF SlotWide, SlotNarrow, Spilled
<1>2. /\ locs \in Nat /\ slot4 \in Nat /\ slot8 \in Nat /\ slot8 % 2 = 0
      /\ slot4 # slot8 => slot4 < slot8 /\ slot4 % 2 = 1
      /\ tslot \in [Temps -> Nat \cup {-1}]
  BY <1>1 DEF IInv, TypeOK, PackInv
<1>3. \/ /\ n = 2 /\ s = slot8 /\ slot8' = slot8 + 2
         /\ slot4' = IF slot4 = slot8 THEN slot4 + 2 ELSE slot4
      \/ /\ n = 1 /\ s = slot4 /\ slot4 = slot8
         /\ slot8' = slot8 + 2 /\ slot4' = slot4 + 1
      \/ /\ n = 1 /\ s = slot4 /\ slot4 < slot8
         /\ slot8' = slot8 /\ slot4' = slot8
  BY <1>2 DEF SlotWide, SlotNarrow, TempSlots
<1>4. /\ tslot' = [tslot EXCEPT ![t] = locs + s]
      /\ tslot'[t] = locs + s /\ s \in Nat
      /\ \A u \in Temps \ {t} : tslot'[u] = tslot[u]
  BY <1>2 DEF SlotWide, SlotNarrow
<1>5. Spilled' = Spilled \cup {t}
  BY <1>2, <1>4 DEF Spilled
<1>6. TypeOK'
  <2>1. slot4' \in Nat /\ slot8' \in Nat
    BY <1>2, <1>3
  <2>2. tslot' \in [Temps -> Nat \cup {-1}]
    <3>1. locs + s \in Nat
      BY <1>2, <1>4
    <3> QED
      BY <3>1, <1>2, <1>4
  <2> QED
    BY <2>1, <2>2, <1>1 DEF IInv, TypeOK
<1>7. LocalsInv' /\ LocalsDisjoint'
  BY <1>1, SpillKeepsLocals
<1>8. PackInv'
  BY <1>1, <1>2, <1>3 DEF PackInv
<1>9. ASSUME NEW u \in Spilled
      PROVE  /\ u # t /\ u \in Temps /\ tslot'[u] = tslot[u]
             /\ tslot[u] \in Nat /\ TempSlots(u) \in {1, 2}
             /\ locs <= tslot[u]
             /\ tslot[u] + TempSlots(u) <= locs + slot8
             /\ (tslot[u] - locs) % TempSlots(u) = 0
             /\ slot4 < slot8 => \/ tslot[u] > locs + slot4
                                 \/ tslot[u] + TempSlots(u) <= locs + slot4
  <2>1. u # t /\ u \in Temps /\ tslot[u] \in Nat /\ TempSlots(u) \in {1, 2}
    BY <1>1, SpilledFacts
  <2> QED
    BY <2>1, <1>1, <1>4 DEF IInv, SpilledInv
<1>10. SpilledInv'
  <2> SUFFICES ASSUME NEW u \in Spilled'
               PROVE  /\ locs <= tslot'[u]
                      /\ tslot'[u] + TempSlots(u) <= locs + slot8'
                      /\ (tslot'[u] - locs) % TempSlots(u) = 0
                      /\ slot4' < slot8' =>
                           \/ tslot'[u] > locs + slot4'
                           \/ tslot'[u] + TempSlots(u) <= locs + slot4'
    BY <1>1 DEF SpilledInv, TempSlots
  <2>1. CASE u = t
    BY <2>1, <1>2, <1>3, <1>4
  <2>2. CASE u \in Spilled
    BY <2>2, <1>2, <1>3, <1>9
  <2> QED BY <2>1, <2>2, <1>5
<1>11. SpilledDisjoint'
  <2>1. ASSUME NEW u \in Spilled
        PROVE  \/ tslot'[u] + TempSlots(u) <= tslot'[t]
               \/ tslot'[t] + n <= tslot'[u]
    BY <2>1, <1>2, <1>3, <1>4, <1>9
  <2>2. ASSUME NEW u \in Spilled, NEW v \in Spilled, u # v
        PROVE  \/ tslot'[u] + TempSlots(u) <= tslot'[v]
               \/ tslot'[v] + TempSlots(v) <= tslot'[u]
    BY <2>2, <1>9 DEF IInv, SpilledDisjoint
  <2> QED
    BY <2>1, <2>2, <1>5 DEF SpilledDisjoint, TempSlots
<1>12. Covered'
  <2> SUFFICES ASSUME NEW x \in locs .. locs + slot8' - 1, x # locs + slot4'
               PROVE  \E u \in Spilled' : x \in tslot'[u] .. tslot'[u] + TempSlots(u) - 1
    BY <1>1 DEF Covered, TempRange, TempSlots
  <2>1. CASE x \in locs + s .. locs + s + n - 1
    BY <2>1, <1>4, <1>5
  <2>2. CASE x \notin locs + s .. locs + s + n - 1
    <3>1. x \in locs .. locs + slot8 - 1 /\ x # locs + slot4
      BY <2>2, <1>2, <1>3, <1>4
    <3>2. PICK u \in Spilled : x \in TempRange(u)
      BY <3>1, <1>1 DEF IInv, Covered
    <3> QED
      BY <3>2, <1>5, <1>9 DEF TempRange
  <2> QED BY <2>1, <2>2
<1>13. PhaseInv'
  BY <1>1 DEF IInv, PhaseInv
<1> QED
  BY <1>6, <1>7, <1>8, <1>10, <1>11, <1>12, <1>13 DEF IInv

(* Rounding the frame: the distances to its top grow by a multiple of 4.   *)
LEMMA FinishStep ==
  ASSUME IInv, Finish
  PROVE  IInv'
<1>1. /\ pc = "spill" /\ pc' = "done"
      /\ slot8 \in Nat /\ slot8 % 2 = 0 /\ slot8' = slot8 + (slot8 % 4)
      /\ locs \in Nat /\ fnslot = locs /\ fnslot' = fnslot + slot8'
      /\ UNCHANGED <<allocs, al, ip, lslot, locs, slot4, tslot>>
  BY DEF Finish, IInv, TypeOK, PackInv, PhaseInv
<1>2. slot8' \in Nat /\ slot8 <= slot8' /\ slot8' % 4 = 0 /\ slot8' % 2 = 0
  BY <1>1
<1>3. Spilled' = Spilled
  BY <1>1 DEF Spilled
<1>4. TypeOK'
  BY <1>1, <1>2 DEF IInv, TypeOK
<1>5. LocalsInv' /\ LocalsDisjoint'
  BY <1>1, SpillKeepsLocals
<1>6. SpilledInv'
  <2> SUFFICES ASSUME NEW t \in Spilled
               PROVE  /\ locs <= tslot[t]
                      /\ tslot[t] + TempSlots(t) <= locs + slot8'
                      /\ (tslot[t] - locs) % TempSlots(t) = 0
    BY <1>1, <1>3 DEF SpilledInv, TempSlots
  <2> QED
    BY <1>1, <1>2, SpilledFacts DEF IInv, SpilledInv
<1>7. SpilledDisjoint'
  BY <1>1, <1>3 DEF IInv, SpilledDisjoint, TempSlots
<1>8. PackInv' /\ Covered' /\ PhaseInv'
  BY <1>1, <1>2 DEF PackInv, Covered, PhaseInv
<1> QED
  BY <1>4, <1>5, <1>6, <1>7, <1>8 DEF IInv

(* Every step keeps the inductive invariant.                               *)
LEMMA NextIInv == IInv /\ [Next]_vars => IInv'
<1> SUFFICES ASSUME IInv, [Next]_vars PROVE IInv'
  OBVIOUS
<1> USE DEF IInv, TypeOK
<1>1. CASE IselEnd
  BY <1>1, CounterStep DEF IselEnd, NextAlignment
<1>2. CASE IselSkip
  BY <1>2, CounterStep DEF IselSkip
<1>3. CASE IselBreak
  BY <1>3, CounterStep DEF IselBreak, NextAlignment
<1>4. CASE IselDie
  BY <1>4, CounterStep DEF IselDie
<1>5. CASE IselAssign
  BY <1>5, AssignStep
<1>6. ASSUME NEW t \in Temps, Slot(t) PROVE IInv'
  <2>1. CASE SlotKnown(t) \/ UNCHANGED vars
    <3>1. UNCHANGED vars
      BY <2>1 DEF SlotKnown
    <3> QED
      BY <3>1 DEF vars, LocalsInv, LocalsDisjoint, PackInv, SpilledInv,
         SpilledDisjoint, Covered, PhaseInv, LocalsIn, Spilled, LocalsEnd,
         LocalSlots, TempSlots, TempRange
  <2>2. CASE SlotWide(t) \/ SlotNarrow(t)
    BY <2>2, SlotStep
  <2> QED BY <1>6, <2>1, <2>2 DEF Slot
<1>7. CASE Finish
  BY <1>7, FinishStep
<1>8. CASE UNCHANGED vars
  BY <1>8 DEF vars, LocalsInv, LocalsDisjoint, PackInv, SpilledInv,
     SpilledDisjoint, Covered, PhaseInv, LocalsIn, Spilled, LocalsEnd,
     LocalSlots, TempSlots, TempRange
<1> QED
  BY <1>1, <1>2, <1>3, <1>4, <1>5, <1>6, <1>7, <1>8 DEF Next, Stopped

-----------------------------------------------------------------------------
(* IInv holds in every reachable state: the frame keeps its types, and its *)
(* objects their place, for every program of allocs and order of spills.   *)
THEOREM Inductive == Spec => []IInv
BY InitIInv, NextIInv, PTL DEF Spec

(* Every variable of the frame keeps its type (isel's alloc loop and       *)
(* spill.c slot()).                                                        *)
THEOREM TypeCorrect == Spec => []TypeOK
<1>1. IInv => TypeOK
  BY DEF IInv
<1> QED BY <1>1, Inductive, PTL

(* Objects of the frame never share a slot, for any number of fast locals  *)
(* and spilled temporaries.                                                *)
THEOREM Disjoint == Spec => []NoOverlap
<1>1. IInv => NoOverlap
  <2> SUFFICES ASSUME IInv PROVE NoOverlap
    OBVIOUS
  <2>1. \A i, j \in LocalsIn : i # j => LocalRange(i) \cap LocalRange(j) = {}
    BY LocalFacts DEF IInv, LocalsDisjoint, LocalRange
  <2>2. \A t, u \in Spilled : t # u => TempRange(t) \cap TempRange(u) = {}
    BY SpilledFacts DEF IInv, SpilledDisjoint, TempRange
  <2>3. ASSUME NEW i \in LocalsIn, NEW t \in Spilled
        PROVE  LocalRange(i) \cap TempRange(t) = {}
    <3>1. LocalsEnd = locs /\ locs \in Nat
      BY DEF IInv, TypeOK, PhaseInv, LocalsEnd
    <3>2. lslot[i] + LocalSlots(i) <= locs /\ locs <= tslot[t]
      BY <3>1 DEF IInv, LocalsInv, SpilledInv
    <3> QED
      BY <3>1, <3>2, LocalFacts, SpilledFacts DEF LocalRange, TempRange
  <2> QED
    BY <2>1, <2>2, <2>3 DEF NoOverlap
<1> QED BY <1>1, Inductive, PTL

(* The packing comment of spill.c:133-138: slot4 <= slot8 and at most one  *)
(* hole, which slot4 points to.                                            *)
THEOREM Packing == Spec => []OneHole
<1>1. IInv => OneHole
  <2> SUFFICES ASSUME IInv, pc = "spill"
               PROVE  /\ slot4 <= slot8
                      /\ (locs .. locs + slot8 - 1) \ UNION {TempRange(t) : t \in Spilled}
                           = IF slot4 = slot8 THEN {} ELSE {locs + slot4}
    BY DEF OneHole
  <2>1. /\ slot4 \in Nat /\ slot8 \in Nat /\ locs \in Nat
        /\ slot4 # slot8 => slot4 < slot8
    BY DEF IInv, TypeOK, PackInv
  <2>2. ASSUME NEW x \in locs .. locs + slot8 - 1, x # locs + slot4
        PROVE  \E t \in Spilled : x \in TempRange(t)
    BY <2>2 DEF IInv, Covered
  <2>3. ASSUME NEW t \in Spilled, slot4 # slot8
        PROVE  locs + slot4 \notin TempRange(t)
    BY <2>1, <2>3, SpilledFacts DEF IInv, SpilledInv, TempRange
  <2> QED
    BY <2>1, <2>2, <2>3
<1> QED BY <1>1, Inductive, PTL

(* The finished frame holds every object, each at a distance from the top  *)
(* that its alignment divides.                                             *)
THEOREM Aligned == Spec => []FrameDone
<1>1. IInv => FrameDone
  <2> SUFFICES ASSUME IInv, pc = "done" PROVE FrameDone
    BY DEF FrameDone
  <2>1. /\ LocalsEnd = locs /\ locs \in Nat /\ slot8 \in Nat
        /\ fnslot = locs + slot8 /\ slot8 % 4 = 0
    BY DEF IInv, TypeOK, PhaseInv, LocalsEnd
  <2>2. ASSUME NEW i \in LocalsIn
        PROVE  /\ lslot[i] + LocalSlots(i) <= fnslot
               /\ (fnslot - lslot[i]) % Unit(allocs[i].al) = 0
    <3>1. /\ allocs[i].al \in 0..2 /\ lslot[i] \in Nat /\ LocalSlots(i) \in Nat
          /\ lslot[i] + LocalSlots(i) <= locs
          /\ (locs - lslot[i]) % Unit(allocs[i].al) = 0
      BY <2>1, LocalFacts DEF IInv, LocalsInv
    <3> DEFINE a == allocs[i].al
               x == locs - lslot[i]
    <3>2. /\ a \in 0..2 /\ x \in Int /\ slot8 \in Int
          /\ x % Unit(a) = 0 /\ slot8 % Unit(a) = 0
      BY <2>1, <3>1 DEF Unit
    <3>3. fnslot - lslot[i] = x + slot8
      BY <2>1, <3>1
    <3> HIDE DEF a, x
    <3>4. (x + slot8) % Unit(a) = 0
      BY <3>2, AlignedSum
    <3> QED
      BY <2>1, <3>1, <3>3, <3>4 DEF a
  <2>3. ASSUME NEW t \in Spilled
        PROVE  /\ tslot[t] + TempSlots(t) <= fnslot
               /\ (fnslot - tslot[t]) % TempSlots(t) = 0
    BY <2>1, SpilledFacts DEF IInv, SpilledInv
  <2> QED
    BY <2>2, <2>3 DEF FrameDone
<1> QED BY <1>1, Inductive, PTL

-----------------------------------------------------------------------------
(* What isel's counters say of the locals placed so far, and INT_MAX of    *)
(* their end: isel's loops meet an alloc once.                             *)
Reached ==
  pc \in {"isel", "died"} =>
    /\ fnslot <= IntMax
    /\ pc = "isel" =>
         \A i \in LocalsIn : \/ allocs[i].al < al
                             \/ allocs[i].al = al /\ i < ip

(* One turn of isel's loops, or of anything after them, keeps Reached.     *)
LEMMA NextReached == IInv /\ Reached /\ [Next]_vars => Reached'
<1> SUFFICES ASSUME IInv, Reached, [Next]_vars PROVE Reached'
  OBVIOUS
<1>1. /\ al \in 0..2 /\ ip \in Nat \ {0} /\ fnslot \in Nat /\ IntMax \in Nat
      /\ lslot \in [DOMAIN allocs -> Nat \cup {-1}]
      /\ \A i \in LocalsIn : allocs[i].al \in 0..2 /\ i \in Nat /\ allocs[i].al <= al
  <2>1. \A i \in LocalsIn : i \in DOMAIN allocs /\ allocs[i].al \in 0..2
    BY LocalFacts
  <2>2. allocs \in Seq(Alloc)
    BY DEF IInv, TypeOK
  <2> QED
    BY <2>1, <2>2, FrameAssumption DEF IInv, TypeOK, LocalsInv
<1>2. CASE IselSkip
  BY <1>1, <1>2 DEF IselSkip, Reached, LocalsIn
<1>3. CASE NextAlignment /\ pc = "isel"
  BY <1>1, <1>3 DEF NextAlignment, Reached, LocalsIn
<1>4. CASE IselDie
  BY <1>1, <1>4 DEF IselDie, Reached
<1>5. CASE IselAssign
  <2>1. /\ pc = "isel" /\ allocs[ip].al = al /\ ~TooLarge(ip)
        /\ ip' = ip + 1 /\ fnslot' = fnslot + LocalSlots(ip)
        /\ lslot' = [lslot EXCEPT ![ip] = fnslot]
        /\ UNCHANGED <<allocs, pc, al>>
    BY <1>5 DEF IselAssign
  <2>2. LocalSlots(ip) \in Int
    BY <1>5, <2>1, AssignedSlots
  <2>3. fnslot' <= IntMax
    BY <1>1, <2>1, <2>2 DEF TooLarge
  <2>4. \A i \in LocalsIn' : i = ip \/ i \in LocalsIn
    BY <1>1, <2>1 DEF LocalsIn
  <2>5. ASSUME NEW i \in LocalsIn'
        PROVE  allocs[i].al < al \/ (allocs[i].al = al /\ i < ip + 1)
    <3>1. CASE i = ip
      BY <1>1, <2>1, <3>1
    <3>2. CASE i \in LocalsIn
      BY <1>1, <2>1, <3>2 DEF Reached
    <3> QED
      BY <2>4, <3>1, <3>2
  <2> QED
    BY <2>1, <2>3, <2>5 DEF Reached
<1>6. CASE \E t \in Temps : Slot(t)
  BY <1>6 DEF Slot, SlotKnown, SlotWide, SlotNarrow, Reached, vars
<1>7. CASE Finish
  BY <1>7 DEF Finish, Reached
<1>8. CASE UNCHANGED vars
  BY <1>8 DEF vars, Reached, LocalsIn
<1> QED
  BY <1>2, <1>3, <1>4, <1>5, <1>6, <1>7, <1>8
     DEF Next, IselEnd, IselBreak, Stopped

(* No loop of isel has run at first.                                       *)
LEMMA InitReached == Init => Reached
BY FrameAssumption DEF Init, Reached, LocalsIn

(* fn->slot never overflows in instruction selection (m68k/isel.c:147),    *)
(* for any INT_MAX and any sequence of allocs.                             *)
THEOREM WithinInt == Spec => []IselWithinInt
<1>1. IInv /\ Reached => IselWithinInt
  BY DEF IInv, LocalsInv, LocalsEnd, Reached, IselWithinInt
<1> QED
  BY <1>1, Inductive, InitReached, NextReached, InitIInv, NextIInv, PTL DEF Spec

(* No step moves a local or a spilled temporary that has its place.        *)
THEOREM Stable == Spec => SlotsStable
<1>1. ASSUME IInv, Reached, [Next]_vars
      PROVE  [ /\ \A i \in LocalsIn : lslot'[i] = lslot[i]
               /\ \A t \in Spilled : tslot'[t] = tslot[t] ]_vars
  <2>1. /\ al \in 0..2 /\ ip \in Nat
        /\ lslot \in [DOMAIN allocs -> Nat \cup {-1}]
        /\ tslot \in [Temps -> Nat \cup {-1}]
    BY <1>1 DEF IInv, TypeOK
  <2>2. CASE IselAssign
    <3>1. ip \notin LocalsIn
      BY <1>1, <2>1, <2>2 DEF IselAssign, Reached
    <3> QED
      BY <2>1, <2>2, <3>1 DEF IselAssign, LocalsIn
  <2>3. ASSUME NEW t \in Temps, Slot(t)
        PROVE  lslot' = lslot /\ \A u \in Spilled : tslot'[u] = tslot[u]
    BY <2>1, <2>3 DEF Slot, SlotKnown, SlotWide, SlotNarrow, Spilled, vars
  <2>4. CASE UNCHANGED <<lslot, tslot>>
    BY <2>4
  <2> QED
    BY <1>1, <2>2, <2>3, <2>4
       DEF Next, IselEnd, IselBreak, NextAlignment, IselSkip, IselDie, Finish, Stopped, vars
<1> QED
  BY <1>1, Inductive, InitReached, NextReached, InitIInv, NextIInv, PTL DEF Spec, SlotsStable

-----------------------------------------------------------------------------
(* Both roundings of the link operand only clear what they added: the      *)
(* operand is four bytes for each slot and each register saved.            *)
LEMMA FrameSizeIs ==
  ASSUME fnslot \in Nat, NEW k \in Nat
  PROVE  FrameSize(k) = 4 * fnslot + 4 * k
<1>1. ASSUME NEW x \in Nat PROVE Clear2(4 * x + 2) = 4 * x
  <2>1. (4 * x + 2) \div 2 = 2 * x + 1 /\ (2 * x + 1) % 2 = 1
    OBVIOUS
  <2> QED
    BY <2>1 DEF Clear2
<1>2. Clear2(4 * fnslot + 2) = 4 * fnslot
  BY <1>1
<1>3. 4 * fnslot + 4 * k + 2 = 4 * (fnslot + k) + 2 /\ fnslot + k \in Nat
  OBVIOUS
<1>4. Clear2(4 * fnslot + 4 * k + 2) = 4 * (fnslot + k)
  BY <1>1, <1>3
<1> QED
  BY <1>2, <1>4 DEF FrameSize

(* No word a callee-save register is saved in belongs to a slot, for every *)
(* frame and every number of saved registers (m68k/emit.c:141, 493-511).   *)
THEOREM RegistersApart == Spec => []SavedApart
<1>1. ASSUME TypeOK PROVE SavedApart
  <2> SUFFICES ASSUME NEW k \in 0..NRClob, NEW x \in SavedBytes(k),
                      NEW s \in 0..(fnslot - 1), x \in SlotAddr(s) .. SlotAddr(s) + 3
               PROVE  FALSE
    BY DEF SavedApart, SlotBytes
  <2>1. fnslot \in Nat /\ k \in Nat /\ s \in Int /\ 0 <= s
    BY <1>1, M68kFrameAssumption DEF TypeOK
  <2>2. x \in Int /\ x <= -(4 * fnslot + 4 * k) + 4 * k - 1
    BY <2>1, FrameSizeIs DEF SavedBytes
  <2>3. SlotAddr(s) = 8 - 4 * (fnslot - s) /\ SlotAddr(s) <= x
    BY <2>1, <2>2 DEF SlotAddr
  <2> QED
    BY <2>1, <2>2, <2>3
<1> QED
  BY <1>1, TypeCorrect, PTL
=============================================================================
