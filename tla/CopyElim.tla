------------------------------ MODULE CopyElim ------------------------------
(***************************************************************************)
(* Copy elimination (copy.c): a map from every temporary to what it is a   *)
(* copy of, built block by block, with clusters of phis and copies that    *)
(* only repeat one value recognised as a whole; then the rewriting.        *)
(* cpy[0] is what instructions without result share.                       *)
(***************************************************************************)
EXTENDS Il

(* What an extension leaves unchanged.                                     *)
ExtCpy == [full |-> {}, extsb |-> {"extsb", "extsh", "extsw"}, extub |-> {"extub", "extuh", "extuw"},
           extsh |-> {"extsh", "extsw"}, extuh |-> {"extuh", "extuw"},
           extsw |-> {"extsw"}, extuw |-> {"extuw"}]

(* i is the instruction, r what its argument is a copy of; w and k are the *)
(* widths and classes of all temporaries.                                  *)
IsCopy(s, r, k, w) ==
  \/ s.op = "copy"
  \/ s.op \in {"mul", "div", "udiv"} /\ s.arg[2] = Con(1)
  \/ s.op \in {"add", "sub", "or", "xor", "sar", "shl", "shr"} /\ s.arg[2] = Con(0)
  \/ /\ s.op \in Exts /\ IsTmp(r)
     /\ \/ s.op \in {"extsw", "extuw"} /\ s.cls = "w"
        \/ (s.cls = "l" => k[r] = "l") /\ s.op \in ExtCpy[w[r]]
(* "assert(KBASE(t->cls) == 0)"                                            *)
ExtOfFloat(s, r, k) ==
  s.op \in Exts /\ IsTmp(r) /\ ~(s.op \in {"extsw", "extuw"} /\ s.cls = "w") /\ IsFloat(k[r])

CopyOf(cpy, r) == IF IsTmp(r) /\ cpy[r] # R THEN cpy[r] ELSE r

-----------------------------------------------------------------------------
(* phisimpl(): what is reached from a phi through phis, and through        *)
(* instructions that would copy r.                                         *)
PhiAt(p, u) == p.blk[u.b].phi[u.i]
Result(p, u) == IF u.type = "phi" THEN PhiAt(p, u).to ELSE InsAt(p, u).to
Follows(p, u, r, k, w) == u.type = "phi" \/ (u.type = "ins" /\ IsCopy(InsAt(p, u), r, k, w))
Cluster(p, from, r, k, w) ==
  LET grow[S \in SUBSET Places] ==
        LET T == S \cup {u \in UNION {Uses(p, Result(p, v)) : v \in S} : Follows(p, u, r, k, w)}
        IN IF T = S THEN S ELSE grow[T]
  IN grow[from]

PhiSimpl(p, cpy, f, r, k, w) ==
  LET S == Cluster(p, {f}, r, k, w)
      ts == {Result(p, u) : u \in S}
      as == {CopyOf(cpy, a) : a \in UNION {Range(PhiAt(p, u).arg) : u \in {v \in S : v.type = "phi"}}} \ {r}
  IN IF \A a \in as : IsTmp(a) /\ a \in ts
     THEN [t \in DOMAIN cpy |-> IF t \in ts THEN r ELSE cpy[t]]
     ELSE cpy

(* One block of the first pass.  The argument of the last predecessor seen *)
(* before the block stands for the phi.                                    *)
FromSeen(p, cpy, b, f) ==
  LET seen == {j \in DOMAIN f.arg : f.blk[j] < b}
  IN IF seen = {} THEN R ELSE CopyOf(cpy, f.arg[Max(seen)])
(* Bug: a phi that phisimpl() leaves alone is not entered in the map.      *)
CopyPhiUnmarked(p, k, w, cpy, b, i) ==
  LET f == p.blk[b].phi[i]
      r == FromSeen(p, cpy, b, f)
  IN IF cpy[f.to] # R THEN cpy
     ELSE PhiSimpl(p, cpy, [type |-> "phi", b |-> b, i |-> i], r, k, w)
CopyPhi(p, k, w, cpy, b, i) ==
  LET f == p.blk[b].phi[i]
      r == FromSeen(p, cpy, b, f)
  IN IF cpy[f.to] # R THEN cpy
     ELSE PhiSimpl(p, [cpy EXCEPT ![f.to] = f.to], [type |-> "phi", b |-> b, i |-> i], r, k, w)
CopyIns(k, w, cpy, s) ==
  LET r == CopyOf(cpy, s.arg[1])
  IN IF cpy[s.to] # R THEN cpy ELSE [cpy EXCEPT ![s.to] = IF IsCopy(s, r, k, w) THEN r ELSE s.to]

CopyBlk(p, cpy, b) ==
  LET k == ClsOf(p)
      w == [t \in 1..p.nt |-> Width(p, t)]
      phis == FoldLeft(LAMBDA c, i : CopyPhi(p, k, w, c, b, i), cpy, [i \in 1..Len(p.blk[b].phi) |-> i])
  IN FoldLeft(LAMBDA c, s : CopyIns(k, w, c, s), phis, p.blk[b].ins)

(* The assertions of the first pass in block b, which took cpy to map.     *)
CopyAborts(p, cpy, map, b) ==
  \/ \E f \in Range(p.blk[b].phi) : cpy[f.to] = R /\ FromSeen(p, cpy, b, f) = R
  \/ \E s \in Range(p.blk[b].ins) : ExtOfFloat(s, CopyOf(map, s.arg[1]), ClsOf(p))

-----------------------------------------------------------------------------
(* The second pass.                                                        *)
Subst(cpy, r) == CopyOf(cpy, r)
Rewritten(p, cpy) ==
  [p EXCEPT !.blk = [b \in DOMAIN @ |->
    [@[b] EXCEPT
      !.phi = LET kept == SelectSeq(@, LAMBDA f : cpy[f.to] = f.to)
              IN [j \in DOMAIN kept |->
                   [kept[j] EXCEPT !.arg = [m \in DOMAIN @ |-> Subst(cpy, @[m])]]],
      !.ins = [j \in DOMAIN @ |->
                 IF cpy[@[j].to] # @[j].to THEN Nop
                 ELSE [@[j] EXCEPT !.arg = <<Subst(cpy, @[1]), Subst(cpy, @[2])>>]],
      !.jmp = Subst(cpy, @)]]]

(* "assert(rtype( *pr) != RTmp || !req(cpy[pr->val], R))": subst() is only *)
(* asked about temporaries the first pass saw.                             *)
Kept(p, cpy) ==
  UNION {UNION {Range(f.arg) : f \in {g \in Range(p.blk[b].phi) : cpy[g.to] = g.to}}
         \cup UNION {Range(s.arg) : s \in {x \in Range(p.blk[b].ins) : cpy[x.to] = x.to}}
         \cup {p.blk[b].jmp} : b \in Ids(p)}
SubstAborts(p, cpy) == \E r \in Kept(p, cpy) : IsTmp(r) /\ cpy[r] = R
=============================================================================
