--------------------------------- MODULE Il ---------------------------------
(***************************************************************************)
(* The intermediate language as the middle end sees it (all.h, ops.h):     *)
(* functions, what filluse() (ssa.c) and the control flow graph say of     *)
(* them, and their meaning.  Blocks are numbered and listed in reverse     *)
(* postorder; their graph never changes here, and Cfg and Live show that   *)
(* cfg.c and live.c compute what this module defines.                      *)
(*                                                                         *)
(* A reference is 0 (R), a temporary (positive), or a constant: a small    *)
(* number, a mask of whole bytes, or the address of a symbol.  A function  *)
(* has its blocks and the number of temporaries handed out:                *)
(* [blk |-> sequence of [phi, ins, jmp, s1, s2], nt |-> number].           *)
(***************************************************************************)
EXTENDS Integers, Sequences, FiniteSets, SequencesExt, FiniteSetsExt, Functions

R == 0
IsTmp(r) == r > 0
Bytes(from, to) == {k \in 0..7 : from <= k /\ k < to}
Con(v) == -1 - v
SymCon(label, off) == -1001 - 100 * label - off
MaskCon(m) == -2001 - SumSet({2 ^ k : k \in m})
IsCon(r) == r < 0
IsSym(r) == r <= -1001 /\ r > -2001
IsMask(r) == r <= -2001
Label(r) == (-1001 - r) \div 100
SymOff(r) == (-1001 - r) % 100
MaskOf(r) == {k \in 0..7 : ((-2001 - r) \div 2 ^ k) % 2 = 1}
Num(r) == -1 - r
IsNum(r) == r < 0 /\ r > -1001

Loads == {"loadsb", "loadub", "loadsh", "loaduh", "loadsw", "loaduw", "load"}
Stores == {"storeb", "storeh", "storew", "storel", "stores", "stored"}
ExtOf == [loadsb |-> "extsb", loadub |-> "extub", loadsh |-> "extsh",
          loaduh |-> "extuh", loadsw |-> "extsw", loaduw |-> "extuw"]
Exts == {ExtOf[o] : o \in DOMAIN ExtOf}
ExtSize == [extsb |-> 1, extub |-> 1, extsh |-> 2, extuh |-> 2, extsw |-> 4, extuw |-> 4]
Signed == {"extsb", "extsh", "extsw"}
StoreCls == [storeb |-> "w", storeh |-> "w", storew |-> "w", storel |-> "l",
             stores |-> "s", stored |-> "d"]
IsWide(k) == k \in {"l", "d"}
IsFloat(k) == k \in {"s", "d"}

LoadSz(s) == CASE s.op = "load" -> IF IsWide(s.cls) THEN 8 ELSE 4
               [] OTHER -> ExtSize[ExtOf[s.op]]
StoreSz(s) == CASE s.op = "storeb" -> 1 [] s.op = "storeh" -> 2
                [] s.op \in {"storew", "stores"} -> 4 [] OTHER -> 8

Classes == {"w", "l", "s", "d"}
(* The operations (ops.h); "other" is any that no pass tells apart.         *)
Ops == Loads \cup Stores \cup Exts
  \cup {"add", "sub", "mul", "div", "udiv", "and", "or", "xor", "sar", "shr", "shl",
        "cast", "copy", "alloc", "nop", "par", "arg", "call", "other"}
Instrs == [op : Ops, cls : Classes, to : Nat, arg : Int \X Int]
Phis == [to : Nat, cls : Classes, arg : Seq(Int), blk : Seq(Nat)]
Blocks == [phi : Seq(Phis), ins : Seq(Instrs), jmp : Int, s1 : Nat, s2 : Nat]
Programs == [blk : Seq(Blocks), nt : Nat]
Ins(op, cls, to, a, b) == [op |-> op, cls |-> cls, to |-> to, arg |-> <<a, b>>]
Nop == Ins("nop", "w", R, R, R)

-----------------------------------------------------------------------------
(* The graph.                                                              *)
Ids(p) == DOMAIN p.blk
Succ(p, b) == {p.blk[b].s1, p.blk[b].s2} \ {0}
Preds(p, b) == SelectSeq([x \in Ids(p) |-> x], LAMBDA a : b \in Succ(p, a))

(* S holds the start, and only edges into a leave it.                      *)
Closed(p, S, a) == 1 \in S /\ \A b \in S : Succ(p, b) \subseteq S \cup {a}
Dom(p, a, b) == a = b \/ a = 1 \/ \E S \in SUBSET Ids(p) : Closed(p, S, a) /\ b \notin S
SDom(p, a, b) == a # b /\ Dom(p, a, b)
Doms(p) == [a \in Ids(p) |-> {b \in Ids(p) : Dom(p, a, b)}]
Fron(p, dom, a) == {b \in Ids(p) : /\ (b = a \/ b \notin dom[a])
                                   /\ \E c \in dom[a] : b \in Succ(p, c)}

-----------------------------------------------------------------------------
(* What filluse() records of a temporary.                                  *)
Places == [type : {"phi", "ins", "jmp"}, b : Nat, i : Nat]
InsAt(p, u) == p.blk[u.b].ins[u.i]
Uses(p, t) ==
  UNION { {[type |-> "phi", b |-> b, i |-> i] :
             i \in {j \in DOMAIN p.blk[b].phi : \E m \in DOMAIN p.blk[b].phi[j].arg :
                                                  p.blk[b].phi[j].arg[m] = t}}
          \cup {[type |-> "ins", b |-> b, i |-> i] :
             i \in {j \in DOMAIN p.blk[b].ins : t \in Range(p.blk[b].ins[j].arg)}}
          \cup (IF p.blk[b].jmp = t THEN {[type |-> "jmp", b |-> b, i |-> 0]} ELSE {}) :
        b \in Ids(p)}

Defs(p, t) ==
  UNION { {[type |-> "phi", b |-> b, i |-> i] :
             i \in {j \in DOMAIN p.blk[b].phi : p.blk[b].phi[j].to = t}}
          \cup {[type |-> "ins", b |-> b, i |-> i] :
             i \in {j \in DOMAIN p.blk[b].ins : p.blk[b].ins[j].to = t}} : b \in Ids(p)}

LastDef(p, t) == CHOOSE d \in Defs(p, t) : \A e \in Defs(p, t) :
                   e.b < d.b \/ (e.b = d.b /\ (e.type = "phi" \/ (d.type = "ins" /\ e.i <= d.i)))
Cls(p, t) == IF Defs(p, t) = {} THEN "w"
             ELSE LET d == LastDef(p, t)
                  IN IF d.type = "phi" THEN p.blk[d.b].phi[d.i].cls ELSE InsAt(p, d).cls
ClsOf(p) == [t \in 1..p.nt |-> Cls(p, t)]

(* The extension an instruction leaves, "full" when there is none.         *)
WidthOf(s) ==
  LET w == IF s.op \in DOMAIN ExtOf THEN ExtOf[s.op] ELSE IF s.op \in Exts THEN s.op ELSE "full"
  IN IF w \in {"extsw", "extuw"} /\ s.cls = "w" THEN "full" ELSE w
Width(p, t) ==
  LET ds == {d \in Defs(p, t) : d.type = "ins"}
  IN IF ds = {} THEN "full"
     ELSE WidthOf(InsAt(p, CHOOSE d \in ds : \A e \in ds : e.b < d.b \/ (e.b = d.b /\ e.i <= d.i)))
=============================================================================
