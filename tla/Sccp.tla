-------------------------------- MODULE Sccp --------------------------------
(***************************************************************************)
(* Sparse conditional constant propagation (fold.c).  Phase 1 lowers       *)
(* val[], a lattice value per temporary, driven by two work lists: the     *)
(* edges found executable, linked through the edges themselves (e->work),  *)
(* and the uses of the temporaries whose value changed, last in first out. *)
(* Phase 2 deletes the unvisited blocks and replaces the constants.        *)
(*                                                                         *)
(* A function is a record: blocks 0..n-1 numbered in reverse postorder,    *)
(* the order link of the block list, the successors s1 and s2, the kind    *)
(* jmp and the argument arg of each block's jump, and its phis, ins, pred. *)
(* An operand is a temporary or a constant, a natural number (the index of *)
(* an interned constant; 0 also stands for a jump's missing argument); an  *)
(* instruction that cannot fold is of op "load".                           *)
(***************************************************************************)
EXTENDS Integers, Sequences, SequencesExt

CONSTANTS
  Temps,     \* the temporaries
  Programs   \* the functions considered, in SSA form

Top == -1
Bot == -2
Gone == -1          \* no block, a null successor
Nil == <<>>         \* no edge, a null pointer
Start == <<-1, 0>>  \* the edge into the start block

Blocks(p) == 0..(p.n - 1)
Succ(p, b, k) == IF k = 0 THEN p.s1[b] ELSE p.s2[b]
Succs(p, b) == {p.s1[b], p.s2[b]} \ {Gone}
Preds(p, b) == {a \in Blocks(p) : b \in Succs(p, a)}

Operands == Temps \cup Nat
Functions(N) ==
  LET B == 0..(N - 1)
  IN [n : {N}, link : Seq(B),
      s1 : [B -> B \cup {Gone}], s2 : [B -> B \cup {Gone}],
      jmp : [B -> {"ret", "jmp", "jnz"}], arg : [B -> Operands],
      phi : [B -> Seq([to : Temps, blk : Seq(B), arg : Seq(Operands)])],
      ins : [B -> Seq([to : Temps, op : {"xor", "div", "load", "nop"}, arg : Seq(Operands)])],
      pred : [B -> SUBSET B]]

(* What fold requires: each block is listed once; a jump has the           *)
(* successors its kind says; the start has no predecessor; and a phi has   *)
(* one argument for each predecessor of its block.                         *)
WellFormed(p) ==
  /\ p.n \in Nat \ {0} /\ p \in Functions(p.n)
  /\ IsInjective(p.link) /\ ToSet(p.link) = Blocks(p)
  /\ \A b \in Blocks(p) :
       /\ p.jmp[b] = "ret" => p.s1[b] = Gone /\ p.s2[b] = Gone
       /\ p.jmp[b] = "jmp" => p.s1[b] # Gone /\ p.s2[b] = Gone /\ p.arg[b] = 0
       /\ p.jmp[b] = "jnz" => p.s1[b] # Gone /\ p.s2[b] # Gone
       /\ p.pred[b] = Preds(p, b)
       /\ \A j \in DOMAIN p.phi[b] :
            LET f == p.phi[b][j]
            IN Len(f.blk) = Len(f.arg) /\ IsInjective(f.blk) /\ ToSet(f.blk) = Preds(p, b)
       /\ \A j \in DOMAIN p.ins[b] : p.ins[b][j].op # "nop" /\ Len(p.ins[b][j].arg) = 2
  /\ Preds(p, 0) = {} /\ p.phi[0] = <<>>

PhiDefs(p, b) == {p.phi[b][j].to : j \in DOMAIN p.phi[b]}
InsDefs(p, b) == {p.ins[b][j].to : j \in DOMAIN p.ins[b]}
Defs(p, b) == PhiDefs(p, b) \cup InsDefs(p, b)

(* S is closed under the edges that do not enter d, and from the start.    *)
Closed(p, S, d) ==
  /\ 0 \in S \cup {d}
  /\ \A a \in S : Succs(p, a) \subseteq S \cup {d}
SDom(p, d, b) == d # b /\ \E S \in SUBSET (Blocks(p) \ {b, d}) : Closed(p, S, d)
Available(p, b) == UNION {Defs(p, d) : d \in {c \in Blocks(p) : SDom(p, c, b)}}

(* SSA form: one definition of each temporary, and every use dominated by  *)
(* it (ssacheck).                                                          *)
DefinedOnce(p) ==
  /\ \A b, c \in Blocks(p) : b # c => Defs(p, b) \cap Defs(p, c) = {}
  /\ \A b \in Blocks(p) :
       /\ PhiDefs(p, b) \cap InsDefs(p, b) = {}
       /\ \A j, k \in DOMAIN p.phi[b] : p.phi[b][j].to = p.phi[b][k].to => j = k
       /\ \A j, k \in DOMAIN p.ins[b] : p.ins[b][j].to = p.ins[b][k].to => j = k
DefinedBefore(p) ==
  \A b \in Blocks(p) :
    LET before == Available(p, b) \cup PhiDefs(p, b)
    IN /\ \A j \in DOMAIN p.ins[b] :
            ToSet(p.ins[b][j].arg) \cap Temps
              \subseteq before \cup {p.ins[b][k].to : k \in 1..j - 1}
       /\ p.arg[b] \in Temps => p.arg[b] \in before \cup InsDefs(p, b)
       /\ \A j \in DOMAIN p.phi[b] : \A a \in DOMAIN p.phi[b][j].blk :
            LET f == p.phi[b][j]
            IN f.arg[a] \in Temps => f.arg[a] \in Available(p, f.blk[a]) \cup Defs(p, f.blk[a])

ASSUME SccpAssumption ==
  /\ Temps \cap Int = {}
  /\ \A p \in Programs : WellFormed(p) /\ DefinedOnce(p) /\ DefinedBefore(p)

VARIABLES
  val,             \* lattice value of each temporary
  use,             \* tmp[].use
  dead,            \* Edge.dead
  work,            \* Edge.work
  flowrk, usewrk,  \* the two work lists
  visit,           \* Blk.visit
  pc,              \* where fold is: "loop" is the head of phase 1's loop
  n, i,            \* block and statement at work
  prog,            \* the function as fold finds it
  out              \* the function as phase 2 leaves it

vars == <<val, use, dead, work, flowrk, usewrk, visit, pc, n, i, prog, out>>
lists == <<flowrk, work, usewrk>>

Edges(p) == {Start} \cup (Blocks(p) \X {0, 1})
Dest(e) == IF e = Start THEN 0 ELSE Succ(prog, e[1], e[2])

-----------------------------------------------------------------------------
(* One list after the other.                                               *)
Concat(ss) ==
  LET cat[j \in 0..Len(ss)] == IF j = 0 THEN <<>> ELSE cat[j - 1] \o ss[j]
  IN cat[Len(ss)]

(* The elements of s at the places K.                                      *)
Keep(s, K) == Concat([x \in DOMAIN s |-> IF x \in K THEN <<s[x]>> ELSE <<>>])

(* filluse: the statements a temporary t is an operand of.                 *)
UsesIn(type, b, j, args, t) ==
  Concat([x \in DOMAIN args |->
    IF args[x] = t THEN <<[type |-> type, bid |-> b, idx |-> j]>> ELSE <<>>])

Uses(p, t) ==
  Concat([x \in DOMAIN p.link |->
    LET b == p.link[x]
    IN   Concat([j \in DOMAIN p.phi[b] |-> UsesIn("UPhi", b, j, p.phi[b][j].arg, t)])
      \o Concat([j \in DOMAIN p.ins[b] |-> UsesIn("UIns", b, j, p.ins[b][j].arg, t)])
      \o UsesIn("UJmp", b, 1, <<p.arg[b]>>, t)])

Init ==
  /\ prog \in Programs
  /\ out = prog
  /\ use = [t \in Temps |-> Uses(prog, t)]
  /\ val = [t \in Temps |-> Top]
  /\ dead = [e \in Edges(prog) |-> TRUE]
  /\ work = [e \in Edges(prog) |-> Nil]
  /\ flowrk = Start
  /\ usewrk = <<>>
  /\ visit = [b \in Blocks(prog) |-> 0]
  /\ pc = "loop" /\ n = 0 /\ i = 1

-----------------------------------------------------------------------------
LatVal(x) == IF x \in Temps THEN val[x] ELSE x

LatMergeLast(v, m) == IF m = Top THEN v ELSE m
LatMerge(v, m) == IF m = Top THEN v ELSE IF v = Top \/ v = m THEN m ELSE Bot

(* update(t, m): the uses of a temporary whose value changes are queued.   *)
Update(t, m) ==
  LET v == LatMerge(val[t], m)
  IN /\ val' = [val EXCEPT ![t] = v]
     /\ usewrk' = IF v = val[t] THEN usewrk ELSE usewrk \o use[t]

DeadEdge(s, d) ==
  \A k \in {0, 1} : Succ(prog, s, k) = d => dead[<<s, k>>]

PhiValue(p, b) ==
  LET merge[a \in 0..Len(p.blk)] ==
        IF a = 0 THEN Top
        ELSE IF DeadEdge(p.blk[a], b) THEN merge[a - 1]
        ELSE LatMerge(merge[a - 1], LatVal(p.arg[a]))
  IN merge[Len(p.blk)]

(* opfold, reduced to one operator that always folds and one that does not *)
(* when its second operand is zero.                                        *)
OpFold(op, l, r) ==
  CASE op = "xor" -> (l + r) % 2
    [] op = "div" -> IF r = 0 THEN Bot ELSE l \div r

InsValue(s) ==
  LET l == LatVal(s.arg[1])
      r == LatVal(s.arg[2])
  IN IF s.op = "load" \/ l = Bot \/ r = Bot THEN Bot
     ELSE IF l = Top \/ r = Top THEN Top
     ELSE OpFold(s.op, l, r)

(* The successors visitjmp finds executable, in the order it queues them.  *)
Taken(b) ==
  CASE prog.jmp[b] = "ret" -> <<>>
    [] prog.jmp[b] = "jmp" -> <<0>>
    [] prog.jmp[b] = "jnz" -> IF LatVal(prog.arg[b]) = Bot THEN <<0, 1>>
                              ELSE IF LatVal(prog.arg[b]) = 0 THEN <<1>> ELSE <<0>>

(* The assertions of visitjmp (fold.c:129, 136, 141).                      *)
JmpAsserts(b) ==
  prog.jmp[b] = "jnz" =>
    /\ LatVal(prog.arg[b]) # Top
    /\ LatVal(prog.arg[b]) # Bot => dead[<<b, 1 - Taken(b)[1]>>]

(* Edges ks of b in front of the list: each links to the next one.         *)
PushEdgesCut(b, ks) ==
  IF ks = <<>> THEN UNCHANGED <<flowrk, work>>
  ELSE /\ flowrk' = <<b, ks[1]>>
       /\ work' = [work EXCEPT ![<<b, ks[1]>>] = flowrk]

PushEdgesSelf(b, ks) ==
  IF ks = <<>> THEN UNCHANGED <<flowrk, work>>
  ELSE /\ flowrk' = <<b, ks[1]>>
       /\ work' = [e \in DOMAIN work |->
                     IF \E x \in DOMAIN ks : e = <<b, ks[x]>>
                     THEN LET x == CHOOSE x \in DOMAIN ks : e = <<b, ks[x]>>
                          IN IF x < Len(ks) THEN <<b, ks[x + 1]>> ELSE flowrk'
                     ELSE work[e]]

PushEdges(b, ks) ==
  IF ks = <<>> THEN UNCHANGED <<flowrk, work>>
  ELSE /\ flowrk' = <<b, ks[1]>>
       /\ work' = [e \in DOMAIN work |->
                     IF \E x \in DOMAIN ks : e = <<b, ks[x]>>
                     THEN LET x == CHOOSE x \in DOMAIN ks : e = <<b, ks[x]>>
                          IN IF x < Len(ks) THEN <<b, ks[x + 1]>> ELSE flowrk
                     ELSE work[e]]

VisitPhi(b, j) ==
  /\ Update(prog.phi[b][j].to, PhiValue(prog.phi[b][j], b))
  /\ UNCHANGED <<flowrk, work>>

VisitIns(b, j) ==
  /\ Update(prog.ins[b][j].to, InsValue(prog.ins[b][j]))
  /\ UNCHANGED <<flowrk, work>>

VisitJmp(b, next) ==
  /\ IF JmpAsserts(b)
     THEN pc' = next /\ PushEdges(b, Taken(b))
     ELSE pc' = "abort" /\ UNCHANGED <<flowrk, work>>
  /\ val' = val

-----------------------------------------------------------------------------
(* Phase 1, an edge: unlink it; an edge to nowhere or already alive is     *)
(* dropped.                                                                *)
PopEdge ==
  /\ pc = "loop" /\ flowrk # Nil
  /\ flowrk' = work[flowrk]
  /\ work' = [work EXCEPT ![flowrk] = Nil]
  /\ IF Dest(flowrk) = Gone \/ ~dead[flowrk]
     THEN UNCHANGED <<dead, n, i, pc>>
     ELSE /\ dead' = [dead EXCEPT ![flowrk] = FALSE]
          /\ n' = Dest(flowrk) /\ i' = 1 /\ pc' = "phi"
  /\ UNCHANGED <<val, use, usewrk, visit, prog, out>>

(* The phis are visited through every edge, the rest of the block once.    *)
EdgePhiOnce ==
  /\ pc = "phi" /\ i <= Len(prog.phi[n])
  /\ IF visit[n] = 0 THEN VisitPhi(n, i) ELSE UNCHANGED <<val, usewrk, flowrk, work>>
  /\ i' = i + 1
  /\ UNCHANGED <<use, dead, visit, pc, n, prog, out>>

EdgePhi ==
  /\ pc = "phi" /\ i <= Len(prog.phi[n])
  /\ VisitPhi(n, i)
  /\ i' = i + 1
  /\ UNCHANGED <<use, dead, visit, pc, n, prog, out>>

EdgePhisSeen ==
  /\ pc = "phi" /\ i > Len(prog.phi[n])
  /\ i' = 1
  /\ pc' = IF visit[n] = 0 THEN "ins" ELSE "left"
  /\ UNCHANGED <<val, use, dead, lists, visit, n, prog, out>>

EdgeIns ==
  /\ pc = "ins" /\ i <= Len(prog.ins[n])
  /\ VisitIns(n, i)
  /\ i' = i + 1
  /\ UNCHANGED <<use, dead, visit, pc, n, prog, out>>

EdgeJmp ==
  /\ pc = "ins" /\ i > Len(prog.ins[n])
  /\ VisitJmp(n, "left")
  /\ UNCHANGED <<use, dead, usewrk, visit, n, i, prog, out>>

(* b->visit++, and the assertion of fold.c:229.                            *)
EdgeLeft ==
  /\ pc = "left"
  /\ visit' = [visit EXCEPT ![n] = @ + 1]
  /\ pc' = IF prog.jmp[n] = "jmp" /\ dead[<<n, 0>>] /\ flowrk # <<n, 0>>
           THEN "abort" ELSE "loop"
  /\ UNCHANGED <<val, use, dead, lists, n, i, prog, out>>

(* Phase 1, a use, when no edge is left.                                   *)
LastUse == usewrk[Len(usewrk)]

PopUse ==
  /\ pc = "loop" /\ flowrk = Nil /\ usewrk # <<>>
  /\ usewrk' = Front(usewrk)
  /\ n' = LastUse.bid
  /\ i' = LastUse.idx
  /\ pc' = IF visit[LastUse.bid] = 0 THEN "loop" ELSE LastUse.type
  /\ UNCHANGED <<val, use, dead, flowrk, work, visit, prog, out>>

UsePhi ==
  /\ pc = "UPhi"
  /\ VisitPhi(n, i)
  /\ pc' = "loop"
  /\ UNCHANGED <<use, dead, visit, n, i, prog, out>>

UseIns ==
  /\ pc = "UIns"
  /\ VisitIns(n, i)
  /\ pc' = "loop"
  /\ UNCHANGED <<use, dead, visit, n, i, prog, out>>

UseJmp ==
  /\ pc = "UJmp"
  /\ VisitJmp(n, "loop")
  /\ UNCHANGED <<use, dead, usewrk, visit, n, i, prog, out>>

SearchDone ==
  /\ pc = "loop" /\ flowrk = Nil /\ usewrk = <<>>
  /\ pc' = "trim" /\ i' = 1
  /\ UNCHANGED <<val, use, dead, lists, visit, n, prog, out>>

-----------------------------------------------------------------------------
(* Phase 2, one block of the list at a time.                               *)

(* edgedel (cfg.c): the edge of b that is successor k disappears; the phis *)
(* of its destination lose an argument unless b still jumps there.         *)
ArgOf(p, b) == SelectInSeq(p.blk, LAMBDA a : a = b)
WithoutArg(p, b) ==
  [p EXCEPT !.blk = RemoveAt(@, ArgOf(p, b)), !.arg = RemoveAt(@, ArgOf(p, b))]

EdgeDelOK(p, b, k) ==
  LET d == Succ(p, b, k)
  IN d # Gone /\ p.s1[b] # p.s2[b] =>
       /\ \A j \in DOMAIN p.phi[d] : ArgOf(p.phi[d][j], b) # 0
       /\ p.pred[d] # {} => b \in p.pred[d]

CutEdge(p, b, k) ==
  IF k = 0 THEN [p EXCEPT !.s1[b] = Gone] ELSE [p EXCEPT !.s2[b] = Gone]

EdgeDel(p, b, k) ==
  LET d == Succ(p, b, k)
  IN IF d = Gone \/ p.s1[b] = p.s2[b] THEN CutEdge(p, b, k)
     ELSE [CutEdge(p, b, k) EXCEPT
             !.phi[d] = [j \in DOMAIN @ |-> WithoutArg(@[j], b)],
             !.pred[d] = @ \ {b}]

(* renref(x), and its assertion.                                           *)
RenRefOK(x) == LatVal(x) # Top
RenRef(x) == IF LatVal(x) = Bot THEN x ELSE LatVal(x)

TrimPhi(p, b) ==
  [p EXCEPT !.arg = [a \in DOMAIN @ |->
                       IF DeadEdge(p.blk[a], b) THEN @[a] ELSE RenRef(@[a])]]

TrimIns(s) ==
  IF val[s.to] # Bot THEN [s EXCEPT !.op = "nop", !.arg = <<>>]
  ELSE [s EXCEPT !.arg = [x \in DOMAIN @ |-> RenRef(@[x])]]

TrimAsserts(b) ==
  /\ \A j \in DOMAIN out.phi[b] :
       LET p == out.phi[b][j]
       IN val[p.to] = Bot =>
            \A a \in DOMAIN p.blk : ~DeadEdge(p.blk[a], b) => RenRefOK(p.arg[a])
  /\ \A j \in DOMAIN out.ins[b] :
       LET s == out.ins[b][j]
       IN RenRefOK(s.to) /\ (val[s.to] = Bot => \A x \in DOMAIN s.arg : RenRefOK(s.arg[x]))
  /\ RenRefOK(out.arg[b])

Renamed(b) ==
  LET kept == Keep(out.phi[b], {j \in DOMAIN out.phi[b] : val[out.phi[b][j].to] = Bot})
  IN [out EXCEPT !.phi[b] = [j \in DOMAIN kept |-> TrimPhi(kept[j], b)],
                 !.ins[b] = [j \in DOMAIN @ |-> TrimIns(@[j])],
                 !.arg[b] = RenRef(@)]

(* A jnz on a constant becomes a jmp.                                      *)
ConstJnz(p, b) == p.jmp[b] = "jnz" /\ p.arg[b] \notin Temps
DeadSucc(p, b) == IF p.arg[b] = 0 THEN 0 ELSE 1
JnzToJmpUnswapped(p, b) ==
  [EdgeDel(p, b, DeadSucc(p, b)) EXCEPT !.jmp[b] = "jmp", !.arg[b] = 0]
JnzToJmp(p, b) ==
  LET q == EdgeDel(p, b, DeadSucc(p, b))
      q1 == IF DeadSucc(p, b) = 0 THEN [q EXCEPT !.s1[b] = q.s2[b], !.s2[b] = Gone] ELSE q
  IN [q1 EXCEPT !.jmp[b] = "jmp", !.arg[b] = 0]

TrimLive ==
  /\ pc = "trim" /\ i <= Len(prog.link)
  /\ LET b == prog.link[i]
         p == Renamed(b)
     IN /\ visit[b] # 0
        /\ IF /\ TrimAsserts(b)
              /\ ConstJnz(p, b) => EdgeDelOK(p, b, DeadSucc(p, b))
           THEN /\ out' = IF ConstJnz(p, b) THEN JnzToJmp(p, b) ELSE p
                /\ i' = i + 1 /\ pc' = pc
           ELSE pc' = "abort" /\ UNCHANGED <<out, i>>
  /\ UNCHANGED <<val, use, dead, lists, visit, n, prog>>

TrimDead ==
  /\ pc = "trim" /\ i <= Len(prog.link)
  /\ LET b == prog.link[i]
         p == EdgeDel(out, b, 0)
     IN /\ visit[b] = 0
        /\ IF EdgeDelOK(out, b, 0) /\ EdgeDelOK(p, b, 1)
           THEN /\ out' = [EdgeDel(p, b, 1) EXCEPT !.link = Keep(@, {x \in DOMAIN @ : @[x] # b})]
                /\ i' = i + 1 /\ pc' = pc
           ELSE pc' = "abort" /\ UNCHANGED <<out, i>>
  /\ UNCHANGED <<val, use, dead, lists, visit, n, prog>>

TrimEnd ==
  /\ pc = "trim" /\ i > Len(prog.link)
  /\ pc' = "done"
  /\ UNCHANGED <<val, use, dead, lists, visit, n, i, prog, out>>

Search ==
  \/ PopEdge \/ EdgePhi \/ EdgePhisSeen \/ EdgeIns \/ EdgeJmp \/ EdgeLeft
  \/ PopUse \/ UsePhi \/ UseIns \/ UseJmp
  \/ SearchDone
Trim == TrimLive \/ TrimDead \/ TrimEnd

Stopped == pc \in {"done", "abort"} /\ UNCHANGED vars

Next == Search \/ Trim \/ Stopped

Spec == Init /\ [][Next]_vars

-----------------------------------------------------------------------------
(* Every variable has its type.                                            *)
TypeOK ==
  /\ val \in [Temps -> {Top, Bot} \cup Nat]
  /\ dead \in [Edges(prog) -> BOOLEAN]
  /\ work \in [Edges(prog) -> Edges(prog) \cup {Nil}]
  /\ flowrk \in Edges(prog) \cup {Nil}
  /\ \A x \in DOMAIN usewrk : \E t \in Temps : \E y \in DOMAIN use[t] : usewrk[x] = use[t][y]
  /\ visit \in [Blocks(prog) -> Nat]
  /\ pc \in {"loop", "phi", "ins", "left", "UPhi", "UIns", "UJmp", "trim", "done", "abort"}
  /\ n \in Blocks(prog) /\ i \in Nat \ {0}

(* The edge list, whose links live in the edges, is acyclic, and an edge   *)
(* outside it carries no stale link.                                       *)
Linked ==
  LET next[x \in 0..2 * prog.n + 1] ==
        IF x = 0 THEN flowrk
        ELSE IF next[x - 1] = Nil THEN Nil ELSE work[next[x - 1]]
      listed == {next[x] : x \in DOMAIN next}
  IN /\ next[2 * prog.n + 1] = Nil
     /\ \A e \in Edges(prog) \ listed : work[e] = Nil

(* None of fold.c's assertions fails, nor those of edgedel: a jump never   *)
(* depends on Top or changes its mind between constants, and every operand *)
(* of a block that stays is defined (fold.c:129, 136, 141, 175, 229;       *)
(* cfg.c:29, 38); and the list of edges stays one.                         *)
NoAbort == TypeOK /\ pc # "abort" /\ Linked

(* When the search is over, val and the edges are a fixed point of the     *)
(* propagation equations: every visited statement's value is what its      *)
(* operands say, exactly the edges a visited jump may take are alive, and  *)
(* exactly the blocks such an edge enters were visited.  Nothing queued    *)
(* was lost and nothing was found too pessimistic a value for.             *)
EdgeAlive(b, k) == \E x \in DOMAIN Taken(b) : Taken(b)[x] = k
Fixpoint ==
  pc = "trim" /\ i = 1 =>
    /\ \A b \in Blocks(prog) :
         /\ visit[b] > 0 <=> b = 0 \/ \E a \in Blocks(prog) : ~DeadEdge(a, b)
         /\ \A k \in {0, 1} : ~dead[<<b, k>>] <=> visit[b] > 0 /\ EdgeAlive(b, k)
         /\ \A j \in DOMAIN prog.phi[b] :
              LET p == prog.phi[b][j]
                  in == {LatVal(p.arg[a]) : a \in {c \in DOMAIN p.blk : ~DeadEdge(p.blk[c], b)}}
              IN val[p.to] = IF in \subseteq {Top} THEN Top
                             ELSE IF \E v \in in : in \subseteq {v, Top} /\ v # Top
                             THEN CHOOSE v \in in : v # Top ELSE Bot
         /\ visit[b] > 0 =>
              \A j \in DOMAIN prog.ins[b] :
                val[prog.ins[b][j].to] = InsValue(prog.ins[b][j])

(* fold always finishes.                                                   *)
Terminates == <>(pc \in {"done", "abort"})
=============================================================================
