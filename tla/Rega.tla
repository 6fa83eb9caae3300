-------------------------------- MODULE Rega --------------------------------
(***************************************************************************)
(* rega.c's walk over the function: registers are assigned block by block, *)
(* inner loops first, each block from its end to its start; the maps at    *)
(* the two ends of an edge are then reconciled by parallel moves, shared   *)
(* ones at the start of a block, the others in a new block on the edge.    *)
(* RMap.tla is the register map, ParMove.tla what pmgen makes of the moves *)
(* listed, which is the simultaneous assignment written here as "pm".      *)
(***************************************************************************)
EXTENDS Spill, Functions

VARIABLES
  m,        \* cur
  beg, end, \* the maps at the two ends of each block
  regu,     \* registers used
  todo,     \* blocks still to do, in this phase's order
  edge      \* per block and successor, the moves of the new block

rgvars == <<m, beg, end, regu, todo, edge>>
vars == <<fnvars, spvars, pc, rgvars>>

IntMax == 1000000000
M == INSTANCE RMap WITH MaxLoop <- IntMax, Phicls <- fn.phicls, Avoid <- avoid

RegaInit ==
  /\ SpillInit
  /\ m = M!EmptyRMap
  /\ beg = <<>> /\ end = <<>>
  /\ regu = {} /\ todo = <<>>
  /\ edge = <<>>

-----------------------------------------------------------------------------
Move(src, dst, t) == [src |-> src, dst |-> dst, base |-> BaseOf(t)]
Pm(moves, at) == [op |-> "pm", moves |-> moves, at |-> at]

(* An instruction left out; what it stood for is kept.                     *)
Nop(i) == [i EXCEPT !.op = "nop"]

(* What a map adds to regu; registers a temporary only passes through      *)
(* while move() evicts it again are left out.                              *)
Used(rm) == {p.r : p \in ToSet(rm.map)}
RemoveKeys(rm, S) == FoldLeft(M!RFree, rm, SetToSortSeq(S, <))

(* 1. Setup: the copies of the parameters hint at their registers.         *)
Carve(b, s) == IF loop[b] = loop[s] THEN b > s ELSE loop[b] > loop[s]
Params ==
  SubSeq(ins[0], 1, Max({y \in 0..Len(ins[0]) : \A z \in 1..y : RegCpy(ins[0][z])}))

RegaSetup ==
  /\ pc = "rega" /\ abort = ""
  /\ m' = FoldLeft(LAMBDA rm, i : M!SetHint(rm, i.to, i.arg[1].v, IntMax), M!EmptyRMap, Params)
  /\ beg' = [b \in Blocks |-> M!EmptyRMap] /\ end' = beg'
  /\ edge' = [e \in {<<b, s>> \in Blocks \X Blocks : s \in Succs(b)} |-> {}]
  /\ todo' = SetToSortSeq(Blocks, Carve)
  /\ pc' = "blk"
  /\ UNCHANGED <<fnvars, spvars, regu>>

-----------------------------------------------------------------------------
(* 2. Take up a block: registers for the temporaries live at its end, in   *)
(* the order of prio2, first those whose register of choice is free.       *)
HintOf(t) == m.hint[fn.phicls[t]].r
Prio2(t, s) ==
  IF (m.visit[t] = 0) # (m.visit[s] = 0) THEN m.visit[t] # 0
  ELSE IF (HintOf(t) = 0) # (HintOf(s) = 0) THEN HintOf(t) # 0
  ELSE cost[t] > cost[s]

InsertBy(Before(_, _), q, t) ==
  LET stay == {j \in DOMAIN q : ~Before(t, q[j])}
      p == IF stay = {} THEN 0 ELSE Max(stay)
  IN SubSeq(q, 1, p) \o <<t>> \o SubSeq(q, p + 1, Len(q))
ByPrio2(S) == FoldLeft(LAMBDA q, t : InsertBy(Prio2, q, t), <<>>, SetToSortSeq(S, <))

AddRegs(rm, S) == FoldLeft(LAMBDA q, r : M!RAdd(q, r, r), rm, SetToSortSeq(S, <))

RegaBlk ==
  /\ pc = "blk" /\ abort = "" /\ todo # <<>>
  /\ LET b == Head(todo)
         rl == ByPrio2(out[b] \cap Temps)
         m0 == [M!EmptyRMap EXCEPT !.visit = m.visit, !.hint = m.hint]
         m1 == FoldLeft(LAMBDA rm, t : M!RAllocTry(rm, t, TRUE, loop[b]), m0, rl)
         m2 == FoldLeft(LAMBDA rm, t : M!RAlloc(rm, t, loop[b]), m1, rl)
         m3 == AddRegs(m2, out[b] \cap Regs)
         m4 == IF IsTmp(jmp[b]) THEN M!RAlloc(m3, jmp[b].v, loop[b]) ELSE m3
     IN /\ n' = b
        /\ end' = [end EXCEPT ![b] = m2]
        /\ m' = m4
        /\ jmp' = IF IsTmp(jmp[b]) THEN [jmp EXCEPT ![b] = TMP(M!RFind(m4, jmp[b].v))] ELSE jmp
        /\ regu' = regu \cup Used(m4)
        /\ abort' = IF ~m4.ok THEN "no more regs"
                    ELSE IF out[b] \cap Regs \cap m2.b # {} THEN "temporary has mapping"
                    ELSE abort
        /\ x' = Len(ins[b])
  /\ code' = <<>>
  /\ pc' = "doblk"
  /\ UNCHANGED <<fn, loop, cost, ins, phi, in, out, gen, nlive, slots, avoid, v, beg, todo, edge>>

-----------------------------------------------------------------------------
(* doblk: the instructions, from the last to the first.                    *)
AtIns == pc = "doblk" /\ abort = "" /\ x > 0
Cur == ins[n][x]

(* The registers and temporaries of the arguments, hinted ones in front.   *)
Prio1(t) == t \in Regs \/ HintOf(t) # 0
InsertArg(q, t) == InsertBy(LAMBDA p, s : Prio1(p), q, t)
ArgSeq(i) ==
  FoldLeft(InsertArg, <<>>,
    FlattenSeq([a \in 1..2 |-> SelectSeq(<<i.arg[a].v, i.arg[a].w>>, LAMBDA t : t \in TmpsIn(i.arg[a]))]))

InReg(rm, ref) ==
  [ref EXCEPT !.v = IF @ \in TmpsIn(ref) THEN M!RFind(rm, @) ELSE @,
              !.w = IF @ \in TmpsIn(ref) THEN M!RFind(rm, @) ELSE @]
ReplaceReg(ref, r, s) ==
  [ref EXCEPT !.v = IF ref.k \in {"tmp", "mem"} /\ @ = r THEN s ELSE @,
              !.w = IF ref.k = "mem" /\ @ = r THEN s ELSE @]
ArgsBy(i, F(_)) == [i EXCEPT !.arg = [a \in {1, 2} |-> F(i.arg[a])]]

(* What frees registers: the call's clobbers, the target.                  *)
Clobbered(i) == RSave \ (i.use \cup RGlob)
Hinted(i) ==
  IF i.op = "copy" /\ i.to \in Regs /\ IsTmp(i.arg[1])
  THEN M!SetHint(m, i.arg[1].v, i.to, loop[n]) ELSE m
Freed(i) ==
  IF i.op = "call" THEN RemoveKeys(m, Clobbered(i))
  ELSE IF i.to \in RGlob \cup {0} THEN Hinted(i)
  ELSE M!RFree(Hinted(i), i.to)
FreedReg(i) == IF i.op = "call" \/ i.to \in RGlob \cup {0} THEN 0 ELSE M!RFind(m, i.to)
DeadTo(i) == i.to \notin RGlob \cup {0} /\ ~M!Has(m, i.to)

(* A temporary that waits for the register just freed moves into it.       *)
Waiting(rm, rf) ==
  /\ rf # 0 /\ rm.w[rf] # 0
  /\ ~M!Has(rm, rf)
  /\ rm.hint[fn.phicls[rm.w[rf]]].r = rf
  /\ M!Has(rm, rm.w[rf])
Retargeted(rm, rf) ==
  LET t == rm.w[rf]
  IN [M!RAlloc([M!RFree(rm, t) EXCEPT !.visit[t] = 0], t, loop[n]) EXCEPT !.w[rf] = 0]

DoDead ==
  /\ AtIns /\ ~RegCpy(Cur) /\ DeadTo(Cur)
  /\ m' = Hinted(Cur)
  /\ code' = <<Nop(Cur)>> \o code
  /\ abort' = IF Cur.to \in Regs THEN "dead register" ELSE abort
  /\ x' = x - 1
  /\ UNCHANGED <<fnvars, slots, avoid, n, v, pc, beg, end, regu, todo, edge>>

DoIns ==
  /\ AtIns /\ ~RegCpy(Cur) /\ ~DeadTo(Cur)
  /\ LET rf == FreedReg(Cur)
         m1 == FoldLeft(LAMBDA rm, t : M!RAlloc(rm, t, loop[n]), Freed(Cur), ArgSeq(Cur))
         i1 == [ArgsBy(Cur, LAMBDA ref : InReg(m1, ref)) EXCEPT !.to = IF rf = 0 THEN @ ELSE rf]
         i2 == IF i1.op = "copy" /\ i1.arg[1] = TMP(i1.to) THEN Nop(i1) ELSE i1
         rt == M!RFind(m1, m1.w[rf])
     IN IF m1.ok /\ Waiting(m1, rf)
        THEN /\ m' = Retargeted(m1, rf)
             /\ code' = <<Ins("copy", rt, TMP(rf), R),
                          ArgsBy(i2, LAMBDA ref : ReplaceReg(ref, rt, rf))>> \o code
             /\ abort' = IF ~M!Has(m', rf) THEN "retargeted elsewhere" ELSE abort
             /\ regu' = regu \cup Used(m1) \cup Used(m')
        ELSE /\ m' = m1
             /\ code' = <<i2>> \o code
             /\ abort' = IF m1.ok THEN abort ELSE "no more regs"
             /\ regu' = regu \cup Used(m1)
  /\ x' = x - 1
  /\ UNCHANGED <<fnvars, slots, avoid, n, v, pc, beg, end, todo, edge>>

(* dopm: copies from registers, with the call in front of them.            *)
MovesInto(m0, m1) ==
  {Move(TMP(p.r), IF M!RFind(m0, p.t) # 0 THEN TMP(M!RFind(m0, p.t)) ELSE SLOT(p.t), p.t) :
     p \in {q \in ToSet(m1.map) : M!RFind(m0, q.t) # 0 \/ q.t \in slots}}

DoPm ==
  /\ AtIns /\ RegCpy(Cur)
  /\ LET g == SubSeq(ins[n], Group, x)
         m1 == FoldRight(LAMBDA i, rm : IF rm.ok THEN M!RMove(rm, i.arg[1].v, i.to, loop[n]) ELSE rm, g, m)
         call == ins[n][Group - 1]
         killed == IF AfterCall THEN RSave \ (call.ret \cup RGlob) ELSE {}
         m2 == FoldLeft(LAMBDA rm, r : IF rm.ok THEN M!RMove(rm, r, 0, loop[n]) ELSE rm,
                        m1, SetToSortSeq(killed, <))
         m3 == FoldLeft(LAMBDA rm, i :
                 LET freed == IF i.to = 0 THEN rm ELSE M!RFree(rm, i.to)
                 IN IF M!RFind(freed, i.arg[1].v) = 0
                    THEN M!RAdd(freed, i.arg[1].v, i.arg[1].v) ELSE freed, m2, g)
     IN /\ m' = m3
        /\ code' = <<Pm(MovesInto(m, m2), [j \in DOMAIN g |-> g[j].at])>> \o code
        /\ abort' = IF ~m2.ok THEN "no more regs"
                    ELSE IF Len(m1.map) < Len(m.map) THEN "mapping lost" ELSE abort
        /\ regu' = regu \cup Used(m1) \cup Used(m2) \cup Used(m3)
  /\ x' = Group - 1
  /\ UNCHANGED <<fnvars, slots, avoid, n, v, pc, beg, end, todo, edge>>

(* The block is done.                                                      *)
DoBlkEnd ==
  /\ pc = "doblk" /\ abort = "" /\ x = 0
  /\ ins' = [ins EXCEPT ![n] = code]
  /\ beg' = [beg EXCEPT ![n] = m]
  /\ in' = [in EXCEPT ![n] = m.b \ {p.to.v : p \in {q \in ToSet(phi[n]) : IsTmp(q.to)}}]
  /\ todo' = IF Len(todo) > 1 THEN Tail(todo) ELSE SetToSortSeq(Blocks, <)
  /\ pc' = IF Len(todo) > 1 THEN "blk" ELSE "shared"
  /\ UNCHANGED <<fn, loop, cost, phi, jmp, out, gen, nlive, spvars, m, end, regu, edge>>

-----------------------------------------------------------------------------
(* 3. Where a block has several predecessors and all hold a temporary (or  *)
(* the argument of its phi) in one register, free at the block's start,    *)
(* one copy there serves all edges.                                        *)
Sources(s, t) ==
  LET ps == {p \in ToSet(phi[s]) : p.to = TMP(t)}
      refs == IF ps = {} THEN {<<b, TMP(t)>> : b \in Preds(s)}
              ELSE UNION {{<<p.blk[u], p.arg[u]>> : u \in DOMAIN p.arg} : p \in ps}
  IN {M!RFind(end[e[1]], e[2].v) : e \in {f \in refs : IsTmp(f[2])}} \ {0}

SharedInBusy(s, rm, j) ==
  LET common == Sources(s, rm.map[j].t)
  IN IF rm.map[j].t \in Temps /\ Cardinality(common) = 1
     THEN [rm EXCEPT !.map[j].r = CHOOSE r \in common : TRUE, !.b = @ \cup common]
     ELSE rm
SharedIn(s, rm, j) ==
  LET t == rm.map[j].t
      common == Sources(s, t)
  IN IF t \in Temps /\ Cardinality(common) = 1 /\ common \cap rm.b = {}
     THEN [rm EXCEPT !.map[j].r = CHOOSE r \in common : TRUE, !.b = @ \cup common]
     ELSE rm

SharedMap(s) ==
  FoldLeft(LAMBDA rm, j : SharedIn(s, rm, j), beg[s], [j \in 1..Len(beg[s].map) |-> j])
SharedMoves(s) ==
  {Move(TMP(SharedMap(s).map[j].r), TMP(beg[s].map[j].r), beg[s].map[j].t) :
     j \in {h \in DOMAIN beg[s].map : SharedMap(s).map[h].r # beg[s].map[h].r}}

NextTodo(phase, next) ==
  /\ todo' = IF Len(todo) > 1 THEN Tail(todo) ELSE SetToSortSeq(Blocks, <)
  /\ pc' = IF Len(todo) > 1 THEN phase ELSE next

RegaShared ==
  /\ pc = "shared" /\ abort = ""
  /\ LET s == Head(todo)
     IN IF Cardinality(Preds(s)) <= 1 THEN UNCHANGED <<beg, ins>>
        ELSE /\ beg' = [beg EXCEPT ![s] = SharedMap(s)]
             /\ ins' = IF SharedMoves(s) = {} THEN ins
                       ELSE [ins EXCEPT ![s] = <<Pm(SharedMoves(s), <<>>)>> \o @]
  /\ NextTodo("shared", "edge")
  /\ UNCHANGED <<fn, loop, cost, phi, jmp, in, out, gen, nlive, spvars, m, end, regu, edge>>

-----------------------------------------------------------------------------
(* 4. The remaining copies go in new blocks on the edges.                  *)
RRef(rm, t) == IF M!RFind(rm, t) = 0 THEN SLOT(t) ELSE TMP(M!RFind(rm, t))
PhiMove(b, s, p) ==
  Move(IF IsTmp(PhiArg(p, b)) THEN RRef(end[b], PhiArg(p, b).v) ELSE PhiArg(p, b),
       IF IsTmp(p.to) THEN RRef(beg[s], p.to.v) ELSE p.to, p.to.v)
EdgePhis(s) == {p \in ToSet(phi[s]) : IsTmp(p.to) => M!RFind(beg[s], p.to.v) # 0}
EdgeMoves(b, s) ==
  {PhiMove(b, s, p) : p \in EdgePhis(s)}
  \cup {Move(RRef(end[b], t), RRef(beg[s], t), t) : t \in in[s] \cap Temps}

(* rref's assertion, on either side of an edge.                            *)
Unspilled(b, s) ==
  \E mv \in EdgeMoves(b, s) : \E ref \in {mv.src, mv.dst} :
     ref.k = "slot" /\ ref.v \notin slots

RegaEdges ==
  /\ pc = "edge" /\ abort = ""
  /\ LET b == Head(todo)
     IN /\ edge' = [e \in DOMAIN edge |-> IF e[1] = b THEN EdgeMoves(b, e[2]) ELSE edge[e]]
        /\ abort' = IF \E s \in Succs(b) : Unspilled(b, s) THEN "should have spilled" ELSE abort
  /\ NextTodo("edge", "done")
  /\ UNCHANGED <<fnvars, slots, avoid, n, v, x, code, m, beg, end, regu>>

RegaStep ==
  \/ RegaSetup \/ RegaBlk \/ DoDead \/ DoIns \/ DoPm \/ DoBlkEnd
  \/ RegaShared \/ RegaEdges
=============================================================================
