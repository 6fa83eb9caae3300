-------------------------------- MODULE Spill --------------------------------
(***************************************************************************)
(* spill.c: the blocks are taken from the last to the first, each one from *)
(* its end to its start.  v is the set of registers and temporaries that   *)
(* must be in registers at the point reached; whatever is pushed out of it *)
(* by limit() gets a slot, is reloaded after that point and stored after   *)
(* its definition.  qsort leaves the order of temporaries of equal cost    *)
(* open, so limit has several results.                                     *)
(***************************************************************************)
EXTENDS LowFn

VARIABLES
  slots,   \* the temporaries with a slot
  avoid,   \* tmp[].hint.m of each phi class
  n,       \* the block at work
  v,       \* in registers here
  x,       \* the last instruction not yet processed
  code,    \* the instructions emitted for the block (from curi on)
  pc,      \* "end", "jmp", "ins", "phi"; "rega" and later: see Rega.tla
  abort    \* the assertion or call that failed, "" if none

spvars == <<slots, avoid, n, v, x, code, abort>>

SpillInit ==
  /\ LowInit
  /\ slots = {}
  /\ avoid = [t \in Temps |-> {}]
  /\ n = fn.n - 1
  /\ v = {} /\ x = 0 /\ code = <<>>
  /\ pc = "end" /\ abort = ""

-----------------------------------------------------------------------------
(* limit(b, k, f): the k best stay, those of f before the others.          *)
Better(s, t, f) ==
  IF (s \in f) = (t \in f) THEN cost[s] > cost[t] ELSE s \in f

Limit(S, k, f) ==
  IF Cardinality(S) <= k THEN {S}
  ELSE {K \in kSubset(IF k < 0 THEN 0 ELSE k, S) :
          \A t \in K, s \in S \ K : ~Better(s, t, f)}

NRegs(c) == IF c = 0 THEN NGpr ELSE NFpr
Limit2(S, used, f) ==
  {K \cup K2 : K \in Limit(OfBase(S, 0), NGpr - used[0], f),
               K2 \in Limit(OfBase(S, 1), NFpr - used[1], f)}
NoneUsed == [c \in {0, 1} |-> 0]
NRSave == [c \in {0, 1} |-> Cardinality(OfBase(RSave, c))]

(* slot(t) for what limit pushed out; registers cannot be spilled.         *)
Spilled(S) ==
  /\ slots' = slots \cup (S \cap Temps)
  /\ abort' = IF S \subseteq Temps THEN abort ELSE "cannot spill register"

(* sethint(u, r): the temporaries in registers beside r.                   *)
Avoiding(u, r) ==
  [t \in Temps |-> IF \E s \in u \cap Temps : fn.phicls[s] = t THEN avoid[t] \cup r
                   ELSE avoid[t]]

(* reloads(u, v) and store(): emitted back to front.                       *)
Descending(S) == Reverse(SetToSortSeq(S, <))
Reloads(S) ==
  [j \in 1..Cardinality(S) |-> Ins("load", Descending(S)[j], SLOT(Descending(S)[j]), R)]
Store(t, where) == IF t \in where THEN <<Ins("store", 0, TMP(t), SLOT(t))>> ELSE <<>>

-----------------------------------------------------------------------------
(* 1. The temporaries in registers at the end of the block.                *)
LiveOnEdge(b, s) ==
  (in[s] \ {p.to.v : p \in {q \in ToSet(phi[s]) : IsTmp(q.to)}})
  \cup UNION {TmpsIn(PhiArg(p, b)) : p \in ToSet(phi[s])}

BackEdges(b) == {s \in Succs(b) : s <= b}

(* At a back edge: what the loop uses first; what only lives through it as *)
(* far as the pressure inside the loop leaves registers.                   *)
LoopEnd(b, hd, c) ==
  LET g == gen[hd] \cup RGlob
      u == OfBase(out[b], c) \cap g
      w == OfBase(out[b], c) \ g
  IN IF Cardinality(u) < NRegs(c)
     THEN {u \cup K : K \in Limit(w, NRegs(c) - (nlive[hd][c] - Cardinality(w)), {})}
     ELSE Limit(u, NRegs(c), {})

Merge(u, b, w, s) == IF loop[b] <= loop[s] THEN u \cup w ELSE u \cup (w \ slots)

AtEnd(b) ==
  IF BackEdges(b) # {}
  THEN LET hd == Max(BackEdges(b))
       IN {K \cup K2 : K \in LoopEnd(b, hd, 0), K2 \in LoopEnd(b, hd, 1)}
  ELSE IF fn.s1[b] # Null
  THEN LET w1 == LiveOnEdge(b, fn.s1[b])
           w2 == LiveOnEdge(b, fn.s2[b])
           u1 == Merge({}, b, w1, fn.s1[b])
       IN IF fn.s2[b] = Null THEN Limit2(u1, NoneUsed, w1)
          ELSE Limit2(Merge(u1, b, w2, fn.s2[b]), NoneUsed, w1 \cap w2)
  ELSE {out[b] \cup (IF jmp[b] = CALL THEN fn.ret[b] ELSE {})}

SpillEnd ==
  /\ pc = "end"
  /\ \E K \in AtEnd(n) :
       /\ v' = K
       /\ Spilled(out[n] \ K)
       /\ out' = [out EXCEPT ![n] = K]
  /\ gen' = IF BackEdges(n) = {} THEN gen ELSE [gen EXCEPT ![Max(BackEdges(n))] = @ \cup RGlob]
  /\ x' = Len(ins[n]) /\ code' = <<>>
  /\ pc' = "jmp"
  /\ UNCHANGED <<fn, loop, cost, ins, phi, jmp, in, nlive, avoid, n>>

-----------------------------------------------------------------------------
(* 2. The instructions, from the jump up.  curi is null until the jump is  *)
(* done: a reload there is written through a null pointer.                 *)
SpillJmp ==
  /\ pc = "jmp" /\ abort = ""
  /\ pc' = "ins"
  /\ IF ~IsTmp(jmp[n]) THEN UNCHANGED <<v, jmp, slots, abort>>
     ELSE LET t == jmp[n].v
              u == v \cup {t}
          IN \E K \in Limit2(u, NoneUsed, {}) :
               /\ v' = K
               /\ jmp' = IF t \in K THEN jmp ELSE [jmp EXCEPT ![n] = SLOT(t)]
               /\ slots' = slots \cup ((u \ K) \cap Temps)
               /\ abort' = IF (u \ K) \cap Regs # {} THEN "cannot spill register"
                           ELSE IF ((IF t \in v THEN u ELSE u \ ({t} \ K)) \ K) # {}
                           THEN "reload before the jump" ELSE abort
  /\ UNCHANGED <<fn, loop, cost, ins, phi, in, out, gen, nlive, avoid, n, x, code>>

(* An instruction that is not a copy from a register.  Memory operands     *)
(* must be in registers, and temporaries beyond those the target takes     *)
(* from memory; w holds what must.                                         *)
NMem(i) == Cardinality({a \in {1, 2} : i.arg[a].k = "mem"})
InMemory(i, a) ==
  LET free == i.mem - NMem(i)
  IN free - (IF a = 2 /\ IsTmp(i.arg[1]) THEN 1 ELSE 0) > 0

MustBeInReg(i) ==
  ({i.to} \ (v \cup {0}))
  \cup UNION {TmpsIn(i.arg[a]) : a \in 
             {c \in {1, 2} : i.arg[c].k = "mem" \/ ~InMemory(i, c)}}

(* No reload of an argument that dies here and is read from its slot.      *)
DeadInSlotAny(i, live, K) ==
  {t \in Temps \ K : \E a \in {1, 2} : i.arg[a] = TMP(t)}
DeadInSlot(i, live, K) ==
  {t \in Temps \ K : \E a \in {1, 2} :
     /\ i.arg[a] = TMP(t)
     /\ t \notin live /\ (a = 2 => t \notin TmpsIn(i.arg[1]))}

ToSlots(i, K) ==
  [i EXCEPT !.arg = [a \in {1, 2} |->
     IF IsTmp(i.arg[a]) /\ i.arg[a].v \notin K THEN SLOT(i.arg[a].v) ELSE i.arg[a]]]

SpillIns ==
  LET i == ins[n][x]
      live == IF i.to \in v THEN v \ {i.to} ELSE v \cup ({i.to} \ {0})
      w == MustBeInReg(i)
      u == live \cup TmpsIn(i.arg[1]) \cup TmpsIn(i.arg[2])
  IN /\ pc = "ins" /\ abort = "" /\ x > 0 /\ ~RegCpy(i)
     /\ IF i.to \in Regs \ v THEN abort' = "dead reg" /\ UNCHANGED <<v, slots, avoid, code>>
        ELSE \E K \in Limit2(u, NoneUsed, w) :
          /\ Spilled(u \ K)
          /\ v' = K \ ({i.to} \cap Temps)
          /\ code' = <<ToSlots(i, K)>> \o Store(i.to, slots')
                     \o Reloads((u \ DeadInSlot(i, live, K)) \ K) \o code
          /\ avoid' = Avoiding(v', v' \cap Regs)
     /\ x' = x - 1
     /\ UNCHANGED <<fn, loop, cost, ins, phi, jmp, in, out, gen, nlive, n, pc>>

(* dopm: copies from registers that follow each other, and the call they   *)
(* follow if there is one.                                                 *)
GroupStart(b, y, is) ==
  CHOOSE z \in 1..y : /\ \A j \in z..y : RegCpy(is[j])
                      /\ z > 1 => ~RegCpy(is[z - 1])
Group == GroupStart(n, x, ins[n])
AfterCall == Group > 1 /\ ins[n][Group - 1].op = "call"

SpillPm ==
  LET g == SubSeq(ins[n], Group, x)
      u == (v \ {g[j].to : j \in DOMAIN g}) \cup {g[j].arg[1].v : j \in DOMAIN g}
      call == ins[n][Group - 1]
      u1 == IF AfterCall THEN u \ call.ret ELSE u
      stores == FlattenSeq([j \in DOMAIN g |->
                  IF g[j].to \in v THEN Store(g[j].to, slots) ELSE <<>>])
  IN /\ pc = "ins" /\ abort = "" /\ x > 0 /\ RegCpy(ins[n][x])
     /\ \E K \in Limit2(u1, IF AfterCall THEN NRSave ELSE NoneUsed, {}) :
          /\ Spilled(u1 \ K)
          /\ v' = IF AfterCall THEN K \cup call.use ELSE K
          /\ avoid' = Avoiding(v', IF AfterCall THEN RSave ELSE K \cap Regs)
          /\ code' = g \o Reloads((u \cap Temps) \ v') \o stores \o code
     /\ x' = Group - 1
     /\ UNCHANGED <<fn, loop, cost, ins, phi, jmp, in, out, gen, nlive, n, pc>>

(* The phis, and the block is done.  A phi that is not in a register is    *)
(* written to its slot by the predecessors.                                *)
PhiTo(p) ==
  IF p.to.v \in v \/ p.to.v \notin in[n] THEN p ELSE [p EXCEPT !.to = SLOT(p.to.v)]

SpillPhis ==
  /\ pc = "ins" /\ abort = "" /\ x = 0
  /\ LET tos == {p.to.v : p \in ToSet(phi[n])}
         stores == FlattenSeq([j \in DOMAIN phi[n] |->
                     IF phi[n][j].to.v \in v THEN Store(phi[n][j].to.v, slots) ELSE <<>>])
     IN /\ slots' = slots \cup ((tos \cap in[n]) \ v)
        /\ phi' = [phi EXCEPT ![n] = [j \in DOMAIN @ |-> PhiTo(@[j])]]
        /\ ins' = [ins EXCEPT ![n] = Reverse(stores) \o code]
        /\ in' = [in EXCEPT ![n] = v \ tos]
  /\ abort' = IF n = 0 /\ v \cap Regs # RGlob \cup fn.reg THEN "registers at the start" ELSE abort
  /\ n' = IF n = 0 THEN 0 ELSE n - 1
  /\ pc' = IF n = 0 THEN "rega" ELSE "end"
  /\ UNCHANGED <<fn, loop, cost, jmp, out, gen, nlive, avoid, v, x, code>>

SpillStep == SpillEnd \/ SpillJmp \/ SpillIns \/ SpillPm \/ SpillPhis
=============================================================================
