-------------------------------- MODULE LowFn --------------------------------
(***************************************************************************)
(* The function the register allocator works on: the output of isel with   *)
(* the analyses main.c runs on it (fillrpo, filllive, fillloop, fillcost). *)
(* Blocks are 0..n-1 in reverse postorder; Null is a missing successor.    *)
(*                                                                         *)
(* A Ref is [k, v, w]: a register or temporary v ("tmp"), the slot of      *)
(* temporary v ("slot"; Frame.tla has the slots' places), a memory         *)
(* reference with base v and index w ("mem", 0 for none), a constant       *)
(* ("con"), the type of a call or return ("call"), or R ("none").          *)
(* An instruction is [op, to, arg, mem, use, ret, at]: to is 0 for R, mem  *)
(* what T.memargs gives, use and ret what T.argregs and T.retregs give for *)
(* a call, at the instruction of the original block it stands for (0: it   *)
(* was inserted).  A phi is [to, arg, blk].                                *)
(***************************************************************************)
EXTENDS Integers, Sequences, SequencesExt, FiniteSets, FiniteSetsExt, TLC

CONSTANTS
  Temps,     \* temporaries, numbered from above the registers (Tmp0)
  NGpr,      \* T.ngpr: registers 1..NGpr are of base class 0,
  NFpr,      \* T.nfpr: the NFpr next ones of base class 1
  KBase,     \* base class of each temporary
  RGlob,     \* T.rglob
  RSave,     \* T.rsave
  None,      \* no register set, no operand (Live.tla)
  Programs   \* the functions considered

Regs == 1..(NGpr + NFpr)
Null == -1

VARIABLES
  fn,               \* what isel left
  loop, cost,       \* Blk.loop, Tmp.cost
  ins, phi, jmp,    \* the function as spill and rega rewrite it
  in, out,          \* Blk.in, Blk.out
  gen, nlive        \* as aggregated at loop headers

fnvars == <<fn, loop, cost, ins, phi, jmp, in, out, gen, nlive>>

Blocks == 0..(fn.n - 1)
BaseOf(x) == IF x \in Temps THEN KBase[x] ELSE IF x <= NGpr THEN 0 ELSE 1
OfBase(S, c) == {x \in S : BaseOf(x) = c}

R == [k |-> "none", v |-> 0, w |-> 0]
TMP(x) == [k |-> "tmp", v |-> x, w |-> 0]
SLOT(x) == [k |-> "slot", v |-> x, w |-> 0]
CON == [k |-> "con", v |-> 0, w |-> 0]
MEM(b, i) == [k |-> "mem", v |-> b, w |-> i]
CALL == [k |-> "call", v |-> 0, w |-> 0]

IsTmp(ref) == ref.k = "tmp"
TmpsIn(ref) == IF ref.k \in {"tmp", "mem"} THEN {ref.v, ref.w} \ {0} ELSE {}

Ins(op, to, a1, a2) ==
  [op |-> op, to |-> to, arg |-> <<a1, a2>>, mem |-> 0, use |-> {}, ret |-> {}, at |-> 0]

(* regcpy: a copy whose source is a register.                              *)
RegCpy(i) == i.op = "copy" /\ IsTmp(i.arg[1]) /\ i.arg[1].v \in Regs

Succs(b) == {fn.s1[b], fn.s2[b]} \ {Null}
Preds(s) == {b \in Blocks : s \in Succs(b)}
PhiArg(p, b) == p.arg[CHOOSE u \in DOMAIN p.blk : p.blk[u] = b]

-----------------------------------------------------------------------------
(* filllive (Live.tla) leaves the sets its run shows.                      *)
LiveIns(i) ==
  [to |-> IF i.to = 0 THEN None ELSE i.to,
   uses |-> UNION {TmpsIn(i.arg[x]) : x \in {1, 2}},
   call |-> i.op = "call", ret |-> i.ret, arg |-> i.use]
LivePhi(p) ==
  [to |-> p.to.v, blk |-> p.blk,
   arg |-> [u \in DOMAIN p.arg |-> IF IsTmp(p.arg[u]) THEN p.arg[u].v ELSE 0]]
LiveFn(f) ==
  LET B == 0..(f.n - 1)
  IN [n |-> f.n,
      succ |-> [b \in B |-> SelectSeq(<<f.s1[b], f.s2[b]>>, LAMBDA s : s # Null)],
      phi |-> [b \in B |-> [x \in DOMAIN f.phi[b] |-> LivePhi(f.phi[b][x])]],
      ins |-> [b \in B |-> [x \in DOMAIN f.ins[b] |-> LiveIns(f.ins[b][x])]],
      jmp |-> [b \in B |-> TmpsIn(f.jmp[b])],
      ret |-> [b \in B |-> IF f.jmp[b] = CALL THEN f.ret[b] ELSE None]]

L == INSTANCE Live WITH
  Temps <- Temps \cup Regs, Wide <- OfBase(Temps \cup Regs, 1),
  NRSave <- [c \in {0, 1} |-> Cardinality(OfBase(RSave, c))],
  prog <- fn.live,
  nlv <- 0, chg <- FALSE, n <- 0, i <- 0, lpc <- "done"

LiveIn ==
  LET paths == L!Paths IN [b \in Blocks |-> L!LiveInto(b, paths)]
LiveOut(live) ==
  [b \in Blocks |->
     RGlob \cup UNION {(live[s] \ L!PhiTos(s)) \cup L!PhiArgs(b, s) : s \in Succs(b)}]
LiveGen ==
  [b \in Blocks |->
     UNION ({L!InsGen(s) : s \in ToSet(fn.live.ins[b])}
            \cup {L!PhiArgs(b, s) : s \in Succs(b)} \cup {TmpsIn(fn.jmp[b])})]
Pressure ==
  [b \in Blocks |-> [c \in {0, 1} |->
     Max({L!Count(L!Between(b, x))[c] : x \in 1..(Len(fn.ins[b]) + 1)}
         \cup {L!AtCall(b, x)[c] : x \in DOMAIN fn.ins[b]})]]

-----------------------------------------------------------------------------
(* loopiter calls its function for the blocks that reach a back edge to hd *)
(* without leaving the blocks numbered from hd up (Cfg.tla).               *)
LoopOf(hd) ==
  LET grow[S \in SUBSET Blocks] ==
        LET more == S \cup {p \in Blocks : p >= hd /\ \E b \in S : b \in Succs(p)}
        IN IF more = S THEN S ELSE grow[more]
  IN grow[{p \in Preds(hd) : p >= hd}]

LoopDepths ==
  LET loops == [hd \in Blocks |-> LoopOf(hd)]
  IN [b \in Blocks |-> 10 ^ Cardinality({hd \in Blocks : b \in loops[hd]})]

(* fillcost: aggreg, ...                                                   *)
AggrGen(g) ==
  [hd \in Blocks |-> g[hd] \cup UNION {g[b] : b \in LoopOf(hd)}]
AggrPressure(v) ==
  [hd \in Blocks |-> [c \in {0, 1} |-> Max({v[b][c] : b \in LoopOf(hd) \cup {hd}})]]

(* ... and tmpuse, over phis, instructions and jumps.                      *)
MaxCost == 1000000
TmpUse(t, ref, l) == IF t \in TmpsIn(ref) THEN IF ref.v = ref.w THEN 2 * l ELSE l ELSE 0
SumOver(S, F(_)) == MapThenSumSet(F, S)
InsCost(t, i, l) ==
  (IF i.to = t THEN l ELSE 0) + TmpUse(t, i.arg[1], l) + TmpUse(t, i.arg[2], l)
PhiCost(t, p) ==
  SumOver(DOMAIN p.arg, LAMBDA u :
    (IF p.to = TMP(t) THEN loop[p.blk[u]] ELSE 0) + TmpUse(t, p.arg[u], loop[p.blk[u]]))
BlkCost(t, b) ==
  SumOver(DOMAIN fn.phi[b], LAMBDA x : PhiCost(t, fn.phi[b][x]))
  + SumOver(DOMAIN fn.ins[b], LAMBDA x : InsCost(t, fn.ins[b][x], loop[b]))
  + TmpUse(t, fn.jmp[b], loop[b])
Costs ==
  [t \in Temps \cup Regs |->
     IF t \in Regs THEN MaxCost ELSE SumOver(Blocks, LAMBDA b : BlkCost(t, b))]

LowInit ==
  /\ fn \in {p @@ [live |-> LiveFn(p)] : p \in Programs}
  /\ loop = LoopDepths
  /\ cost = Costs
  /\ ins = [b \in Blocks |-> [x \in DOMAIN fn.ins[b] |-> [fn.ins[b][x] EXCEPT !.at = x]]]
  /\ phi = fn.phi
  /\ jmp = fn.jmp
  /\ in = LiveIn
  /\ out = LiveOut(in)
  /\ gen = AggrGen(LiveGen)
  /\ nlive = AggrPressure(Pressure)
=============================================================================
