-------------------------------- MODULE Ssa --------------------------------
(***************************************************************************)
(* SSA construction (ssa.c): which temporaries need it, where their phis   *)
(* go, and the renaming along the dominator tree, with one stack of names  *)
(* for each temporary and a free list that the cells of all stacks share.  *)
(***************************************************************************)
EXTENDS Il

-----------------------------------------------------------------------------
(* Liveness, as filllive() (live.c) leaves it.  The functions that come in *)
(* have no phis.                                                           *)
LiveIn(p, b, out) ==
  LET Back(S, s) == (S \ {s.to}) \cup {r \in Range(s.arg) : IsTmp(r)}
  IN FoldRight(LAMBDA s, S : Back(S, s), p.blk[b].ins, out \cup {r \in {p.blk[b].jmp} : IsTmp(r)})
LiveOut(p) ==
  LET spread[out \in [Ids(p) -> SUBSET Nat]] ==
        LET more == [b \in Ids(p) |-> UNION {LiveIn(p, s, out[s]) : s \in Succ(p, b)}]
        IN IF more = out THEN out ELSE spread[more]
  IN spread[[b \in Ids(p) |-> {}]]

-----------------------------------------------------------------------------
(* phiins(): a temporary with one definition is left alone when its uses   *)
(* are in the block that defines it, or that block is the start.           *)
Settled(p, t) ==
  /\ Cardinality(Defs(p, t)) = 1
  /\ LET d == CHOOSE d \in Defs(p, t) : TRUE
     IN d.b = 1 \/ \A u \in Uses(p, t) : u.b = d.b

(* A definition that does not leave its block gets a name of its own.      *)
Sub(t, s, r) == IF r = t THEN s ELSE r
LocalIns(st, s, t) ==
  LET r == IF st.r = R THEN t ELSE st.r
      s1 == [s EXCEPT !.arg = <<Sub(t, r, @[1]), Sub(t, r, @[2])>>]
  IN IF s.to = t
     THEN [nt |-> st.nt + 1, r |-> st.nt + 1, ins |-> Append(st.ins, [s1 EXCEPT !.to = st.nt + 1])]
     ELSE [st EXCEPT !.ins = Append(@, s1)]
Local(p, b, t) ==
  LET ins == p.blk[b].ins
      upto[j \in 0..Len(ins)] ==
        IF j = 0 THEN [nt |-> p.nt, r |-> R, ins |-> <<>>] ELSE LocalIns(upto[j - 1], ins[j], t)
      end == upto[Len(ins)]
  IN [p EXCEPT !.nt = end.nt, !.blk[b].ins = end.ins,
               !.blk[b].jmp = IF end.r = R THEN @ ELSE Sub(t, end.r, @)]
(* The blocks S one after the other.                                       *)
Locals(p, S, t) ==
  LET upto[b \in 0..Len(p.blk)] ==
        IF b = 0 THEN p ELSE IF b \in S THEN Local(upto[b - 1], b, t) ELSE upto[b - 1]
  IN upto[Len(p.blk)]

InsDefs(p, b, t) == {j \in DOMAIN p.blk[b].ins : p.blk[b].ins[j].to = t}
PhiBlks(p, dom, live, from) ==
  LET put[S \in SUBSET Ids(p)] ==
        LET phis == {a \in UNION {Fron(p, dom, b) : b \in S} : live[a]}
        IN IF phis \subseteq S THEN phis ELSE put[S \cup phis]
  IN put[from]

(* clsmerge() (util.c): words and longs make a word.                       *)
Merged(ks) == IF ks \subseteq {"w", "l"} /\ Cardinality(ks) = 2 THEN "w"
              ELSE CHOOSE k \in ks : TRUE
Mixed(ks) == Cardinality(ks) > 1 /\ ~ks \subseteq {"w", "l"}

NewPhi(t, k) == [to |-> t, cls |-> k, arg |-> <<>>, blk |-> <<>>]
WithPhi(p, S, f) ==
  [p EXCEPT !.blk = [b \in Ids(p) |-> IF b \in S THEN [p.blk[b] EXCEPT !.phi = <<f>> \o @] ELSE p.blk[b]]]

(* One temporary; st is the program, the temporaries to rename (those with *)
(* Tmp.visit set), and whether the input was refused.                      *)
PhiIns1(p0, dom, out, st, t) ==
  LET defb == {b \in Ids(p0) : InsDefs(p0, b, t) # {}}
      leave == {b \in defb : t \in out[b]}
      ks == UNION {{p0.blk[b].ins[j].cls : j \in InsDefs(p0, b, t)} : b \in leave}
      live == [b \in Ids(p0) |-> t \in LiveIn(p0, b, out[b])]
      q == Locals(st.p, defb \ leave, t)
  IN IF Settled(p0, t) THEN st
     ELSE IF leave = {} THEN [st EXCEPT !.p = q]
     ELSE [p |-> WithPhi(q, PhiBlks(p0, dom, live, leave), NewPhi(t, Merged(ks))),
           visit |-> st.visit \cup {t}, bad |-> st.bad \/ Mixed(ks)]
PhiIns(p, dom) ==
  LET out == LiveOut(p)
      upto[t \in 0..p.nt] == IF t = 0 THEN [p |-> p, visit |-> {}, bad |-> FALSE]
                             ELSE PhiIns1(p, dom, out, upto[t - 1], t)
  IN upto[p.nt]

-----------------------------------------------------------------------------
(* The stacks.  A cell is [r, b, up]; 0 is the null pointer.  A renamer is *)
(* the program, visit, the cells, the free list and the top of each stack. *)
Renamer(st, cells, namel) ==
  [p |-> st.p, visit |-> [t \in st.visit |-> t], cell |-> cells, namel |-> namel,
   stk |-> [t \in st.visit |-> 0]]

(* Bug: the free list keeps the cell that was taken.                       *)
NNewKept(z, t, r, b) ==
  LET new == [r |-> r, b |-> b, up |-> z.stk[t]]
  IN IF z.namel # 0
     THEN [z EXCEPT !.cell[z.namel] = new, !.stk[t] = z.namel]
     ELSE [z EXCEPT !.cell = Append(@, new), !.stk[t] = Len(z.cell) + 1]
NNew(z, t, r, b) ==
  LET new == [r |-> r, b |-> b, up |-> z.stk[t]]
  IN IF z.namel # 0
     THEN [z EXCEPT !.namel = z.cell[z.namel].up, !.cell[z.namel] = new, !.stk[t] = z.namel]
     ELSE [z EXCEPT !.cell = Append(@, new), !.stk[t] = Len(z.cell) + 1]
NFree(z, n) == [z EXCEPT !.cell[n].up = z.namel, !.namel = n]

(* rendef(): a new name, on top of the stack.                              *)
NewName(z, t) ==
  LET r == z.p.nt + 1
  IN [z EXCEPT !.p.nt = r, !.visit = [x \in DOMAIN @ \cup {r} |-> IF x = r THEN t ELSE @[x]]]
RenDef(z, t, b) == NNew(NewName(z, t), t, z.p.nt + 1, b)
Renamed(z, t) == t \in DOMAIN z.visit

(* getstk(): names that do not reach b are freed on the way, of which a    *)
(* stack has no more than there are cells.                                 *)
Popped(z, dom, t, b) ==
  LET n == z.stk[t]
  IN IF n = 0 \/ b \in dom[z.cell[n].b] THEN z ELSE NFree([z EXCEPT !.stk[t] = z.cell[n].up], n)
GetStk(z, dom, t, b) ==
  LET after[k \in 0..Len(z.cell)] == IF k = 0 THEN z ELSE Popped(after[k - 1], dom, t, b)
  IN after[Len(z.cell)]
Top(z, t) == IF z.stk[t] = 0 THEN Con(0) ELSE z.cell[z.stk[t]].r

SetArg(p, b, j, m, r) == [p EXCEPT !.blk[b].ins[j].arg[m] = r]
SetTo(p, b, j, r) == [p EXCEPT !.blk[b].ins[j].to = r]
SetJmp(p, b, r) == [p EXCEPT !.blk[b].jmp = r]
SetPhi(p, b, j, f) == [p EXCEPT !.blk[b].phi[j] = f]

RenArg(z, dom, b, j, m) ==
  LET r == z.p.blk[b].ins[j].arg[m]
      y == GetStk(z, dom, r, b)
  IN IF IsTmp(r) /\ Renamed(z, r) THEN [y EXCEPT !.p = SetArg(y.p, b, j, m, Top(y, r))] ELSE z
RenIns(z, dom, b, j) ==
  LET y == RenArg(RenArg(z, dom, b, j, 1), dom, b, j, 2)
      t == y.p.blk[b].ins[j].to
  IN IF t # R /\ Renamed(y, t)
     THEN LET x == RenDef(y, t, b) IN [x EXCEPT !.p = SetTo(x.p, b, j, x.p.nt)] ELSE y
RenPhi(z, b, j) ==
  LET f == z.p.blk[b].phi[j]
      x == RenDef(z, f.to, b)
  IN IF Renamed(z, f.to) THEN [x EXCEPT !.p = SetPhi(x.p, b, j, [f EXCEPT !.to = x.p.nt])] ELSE z
RenJmp(z, dom, b) ==
  LET r == z.p.blk[b].jmp
      y == GetStk(z, dom, r, b)
  IN IF IsTmp(r) /\ Renamed(z, r) THEN [y EXCEPT !.p = SetJmp(y.p, b, Top(y, r))] ELSE z
RenArgOf(z, dom, b, s, j) ==
  LET f == z.p.blk[s].phi[j]
      t == z.visit[f.to]
      y == GetStk(z, dom, t, b)
      g == [f EXCEPT !.arg = Append(@, Top(y, t)), !.blk = Append(@, b)]
  IN IF Renamed(z, f.to) THEN [y EXCEPT !.p = SetPhi(y.p, s, j, g)] ELSE z

RenSucc(z, dom, b, s) ==
  LET upto[j \in 0..Len(z.p.blk[s].phi)] == IF j = 0 THEN z ELSE RenArgOf(upto[j - 1], dom, b, s, j)
  IN upto[Len(z.p.blk[s].phi)]
RenIf(z, dom, b, s) == IF s = 0 THEN z ELSE RenSucc(z, dom, b, s)
RenInss(z, dom, b) ==
  LET upto[j \in 0..Len(z.p.blk[b].ins)] == IF j = 0 THEN z ELSE RenIns(upto[j - 1], dom, b, j)
  IN upto[Len(z.p.blk[b].ins)]
RenPhis(z, b) ==
  LET upto[j \in 0..Len(z.p.blk[b].phi)] == IF j = 0 THEN z ELSE RenPhi(upto[j - 1], b, j)
  IN upto[Len(z.p.blk[b].phi)]
RenBlk(z, dom, b) ==
  LET s1 == z.p.blk[b].s1
      s2 == z.p.blk[b].s2
  IN RenIf(RenIf(RenJmp(RenInss(RenPhis(z, b), dom, b), dom, b), dom, b, s1),
           dom, b, IF s2 = s1 THEN 0 ELSE s2)

(* b->dom lists the children of b from the last to the first.              *)
Kid(p, dom, b, c) ==
  /\ c # b /\ c \in dom[b]
  /\ \A a \in Ids(p) \ {c} : c \in dom[a] => b \in dom[a]
Kids(p, dom, b) ==
  LET list[c \in 0..Len(p.blk)] ==
        IF c = 0 THEN <<>> ELSE IF Kid(p, dom, b, c) THEN <<c>> \o list[c - 1] ELSE list[c - 1]
  IN list[Len(p.blk)]

-----------------------------------------------------------------------------
(* The cells from n up, and whether they end.                              *)
Above(cell, n) == IF n = 0 THEN 0 ELSE cell[n].up
Climb(cell, n) ==
  LET up[k \in 0..Len(cell)] == IF k = 0 THEN n ELSE Above(cell, up[k - 1]) IN up
Chain(cell, n) == Range(Climb(cell, n)) \ {0}
Ends(cell, n) == Climb(cell, n)[Len(cell)] = 0

(* What ssacheck() accepts, and what every later pass relies on: a         *)
(* temporary has one definition, uses are dominated by it, and a phi has   *)
(* one argument for each predecessor.                                      *)
PhiUseOK(dom, f, d, t) == \A j \in DOMAIN f.arg : f.arg[j] = t => f.blk[j] \in dom[d.b]
UseOK(p, dom, t, d, u) ==
  CASE u.type = "phi" -> PhiUseOK(dom, p.blk[u.b].phi[u.i], d, t)
    [] u.type = "ins" /\ d.type = "ins" /\ u.b = d.b -> d.i < u.i
    [] OTHER -> u.b \in dom[d.b]
IsSsa(p, dom) ==
  /\ \A t \in 1..p.nt :
       LET ds == Defs(p, t) us == Uses(p, t)
       IN /\ Cardinality(ds) <= 1
          /\ us # {} => \E d \in ds : \A u \in us : UseOK(p, dom, t, d, u)
  /\ \A b \in Ids(p) : \A f \in Range(p.blk[b].phi) :
       /\ Len(f.blk) = Len(f.arg)
       /\ Len(f.blk) = Len(Preds(p, b)) /\ Range(f.blk) = Range(Preds(p, b))
=============================================================================
