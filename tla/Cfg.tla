-------------------------------- MODULE Cfg --------------------------------
(***************************************************************************)
(* The control flow graph (cfg.c): reverse postorder, predecessors,        *)
(* immediate dominators by the iteration of Cooper, Harvey and Kennedy,    *)
(* dominance frontiers and loop weights, computed in the order main.c and  *)
(* ssa.c ask for them.  Blocks are 1..NBlk, 1 the start and 0 the null     *)
(* pointer; the parser refuses jumps to the start (parse.c:613).           *)
(***************************************************************************)
EXTENDS Integers, Sequences, FiniteSets, SequencesExt

CONSTANTS
  NBlk,   \* blocks the parser made
  Graphs  \* the graphs at hand: successors, the loop weights blocks already
          \* have, and whether the predecessors were filled before

Blk == 1..NBlk

ASSUME CfgAssumption ==
  /\ NBlk \in Nat \ {0}
  /\ \A g \in Graphs :
       /\ g.s1 \in [Blk -> (Blk \ {1}) \cup {0}]
       /\ g.s2 \in [Blk -> (Blk \ {1}) \cup {0}]
       /\ \A b \in Blk : g.s1[b] = 0 => g.s2[b] = 0
       /\ g.loop \in [Blk -> Nat]
       /\ g.known \in BOOLEAN

VARIABLES
  s1, s2,    \* successors
  link,      \* the block list
  phi,       \* the blocks of the arguments of each block's phis
  pred,      \* predecessors
  id,        \* Blk.id, -1 before rporec
  nblk, rpo, \* Fn.nblk and Fn.rpo
  idom, dom, \* immediate dominator, and the blocks it is one of
  fron,      \* dominance frontier
  loop,      \* loop weight
  visit,     \* Blk.visit
  pc,        \* the pass at work
  stack,     \* the active calls of rporec or loopmark
  x,         \* rporec's counter; later a loop index
  ch         \* filldom: something changed in this round

graph == <<s1, s2, link, phi, pred>>
order == <<id, nblk, rpo>>
doms == <<idom, dom, fron>>
vars == <<graph, order, doms, loop, visit, pc, stack, x, ch>>

Succs(b) == {s1[b], s2[b]} \ {0}
PredsOf(b) == {a \in Blk : b \in Succs(a)}

(* What of a list is in a set, in order.                                   *)
Those(s, S) ==
  LET some[j \in 0..Len(s)] ==
        IF j = 0 THEN <<>>
        ELSE IF s[j] \in S THEN Append(some[j - 1], s[j]) ELSE some[j - 1]
  IN some[Len(s)]
InLink(S) == Those([j \in Blk |-> j], S)

Init ==
  /\ \E g \in Graphs :
       /\ s1 = g.s1 /\ s2 = g.s2 /\ loop = g.loop
       /\ pred = [b \in Blk |-> IF g.known THEN InLink(PredsOf(b)) ELSE <<>>]
  /\ link = [j \in Blk |-> j]
  /\ phi = [b \in Blk |-> InLink(PredsOf(b))]
  /\ id = [b \in Blk |-> -1]
  /\ nblk = NBlk /\ rpo = <<>>
  /\ idom = [b \in Blk |-> 0] /\ dom = [b \in Blk |-> <<>>]
  /\ fron = [b \in Blk |-> <<>>]
  /\ visit = [b \in Blk |-> 0]
  /\ pc = "rpo" /\ stack = <<>>
  /\ x = NBlk - 1
  /\ ch = 0

-----------------------------------------------------------------------------
(* fillrpo.  rporec(b): the call marks b, visits its successors, the one   *)
(* of smaller weight first, and numbers b on the way back.                 *)
RpoFrame(b) ==
  [blk |-> b,
   todo |-> IF s1[b] # 0 /\ s2[b] # 0 /\ loop[s1[b]] > loop[s2[b]]
            THEN <<s2[b], s1[b]>> ELSE <<s1[b], s2[b]>>]

RpoCall(b, rest) ==
  IF b = 0 \/ id[b] # -1
  THEN stack' = rest /\ id' = id
  ELSE stack' = Append(rest, RpoFrame(b)) /\ id' = [id EXCEPT ![b] = 1]

RpoStart ==
  /\ pc = "rpo" /\ stack = <<>> /\ id[1] = -1
  /\ RpoCall(1, <<>>)
  /\ UNCHANGED <<graph, nblk, rpo, doms, loop, visit, pc, x, ch>>

RpoVisit ==
  /\ pc = "rpo" /\ stack # <<>>
  /\ Last(stack).todo # <<>>
  /\ LET f == Last(stack)
     IN RpoCall(Head(f.todo), Append(Front(stack), [f EXCEPT !.todo = Tail(@)]))
  /\ UNCHANGED <<graph, nblk, rpo, doms, loop, visit, pc, x, ch>>

RpoNumber ==
  /\ pc = "rpo" /\ stack # <<>>
  /\ Last(stack).todo = <<>>
  /\ id' = [id EXCEPT ![Last(stack).blk] = x]
  /\ x' = x - 1
  /\ stack' = Front(stack)
  /\ UNCHANGED <<graph, nblk, rpo, doms, loop, visit, pc, ch>>

(* The block list is swept: blocks without a number lose their edges.      *)
FirstId == 1 + x

RpoDone ==
  /\ pc = "rpo" /\ stack = <<>> /\ id[1] # -1
  /\ pc' = "sweep"
  /\ nblk' = nblk - FirstId
  /\ rpo' = [j \in 0..nblk' - 1 |-> 0]
  /\ stack' = link
  /\ UNCHANGED <<graph, id, doms, loop, visit, x, ch>>

(* edgedel on a graph g, as a record, for the edge of b to d.              *)
Deleted(g, b, d) ==
  [phi |-> [g.phi EXCEPT ![d] = RemoveFirst(@, b)],
   pred |-> [g.pred EXCEPT ![d] = RemoveFirst(@, b)]]

EdgesDeletedTwice(b) ==
  LET g == [phi |-> phi, pred |-> pred]
      g1 == IF s1[b] = 0 \/ s1[b] = s2[b] THEN g ELSE Deleted(g, b, s1[b])
  IN IF s2[b] = 0 \/ s1[b] = s2[b] THEN g1 ELSE Deleted(g1, b, s2[b])

(* edgedel(b, &b->s1), edgedel(b, &b->s2): with one destination the first  *)
(* call only clears s1.                                                    *)
EdgesDeleted(b) ==
  LET g == [phi |-> phi, pred |-> pred]
      g1 == IF s1[b] = 0 \/ s1[b] = s2[b] THEN g ELSE Deleted(g, b, s1[b])
  IN IF s2[b] = 0 THEN g1 ELSE Deleted(g1, b, s2[b])

(* The assertions of edgedel: the block is among the arguments of the phis *)
(* and, if they are known, among the predecessors.  (TLC would report a    *)
(* deadlock.)                                                              *)
EdgeDelOK(b) ==
  \A d \in Succs(b) : Contains(phi[d], b) /\ (pred[d] # <<>> => Contains(pred[d], b))

SweepDead ==
  /\ pc = "sweep" /\ stack # <<>>
  /\ LET b == Head(stack) IN
       /\ id[b] = -1 /\ EdgeDelOK(b)
       /\ phi' = EdgesDeleted(b).phi /\ pred' = EdgesDeleted(b).pred
       /\ s1' = [s1 EXCEPT ![b] = 0] /\ s2' = [s2 EXCEPT ![b] = 0]
       /\ link' = RemoveFirst(link, b)
  /\ stack' = Tail(stack)
  /\ UNCHANGED <<order, doms, loop, visit, pc, x, ch>>

SweepLive ==
  /\ pc = "sweep" /\ stack # <<>>
  /\ LET b == Head(stack) IN
       /\ id[b] # -1
       /\ id' = [id EXCEPT ![b] = @ - FirstId]
       /\ rpo' = [rpo EXCEPT ![id'[b]] = b]
  /\ stack' = Tail(stack)
  /\ UNCHANGED <<graph, nblk, doms, loop, visit, pc, x, ch>>

-----------------------------------------------------------------------------
(* fillpreds: in list order, once for a jnz with one destination; visit    *)
(* counts them.                                                            *)
FillPreds ==
  /\ pc = "sweep" /\ stack = <<>>
  /\ pred' = [b \in Blk |-> Those(link, PredsOf(b))]
  /\ visit' = [b \in Blk |-> IF pred'[b] = <<>> THEN visit[b] ELSE Len(pred'[b])]
  /\ pc' = "dom" /\ x' = 1
  /\ UNCHANGED <<s1, s2, link, phi, order, doms, loop, stack, ch>>

(* inter(b1, b2): climb from the block of greater number until both meet,  *)
(* among the blocks whose dominator was found.                             *)
Known == {b \in ToSet(link) : idom[b] # 0 \/ b = 1}
Inter(c1, c2) ==
  LET climb[p \in Known \X Known] ==
        IF p[1] = p[2] THEN p[1]
        ELSE IF id[p[1]] < id[p[2]] THEN climb[<<p[2], p[1]>>]
        ELSE climb[<<idom[p[1]], p[2]>>]
  IN IF c1 = 0 THEN c2 ELSE climb[<<c1, c2>>]

NewIdom(b) ==
  LET from == Those(pred[b], Known)
      meet[j \in 0..Len(from)] == IF j = 0 THEN 0 ELSE Inter(meet[j - 1], from[j])
  IN meet[Len(from)]

DomBlk ==
  /\ pc = "dom" /\ x < nblk
  /\ idom' = [idom EXCEPT ![rpo[x]] = NewIdom(rpo[x])]
  /\ ch' = IF idom' = idom THEN ch ELSE ch + 1
  /\ x' = x + 1
  /\ UNCHANGED <<graph, order, dom, fron, loop, visit, pc, stack>>

DomAgainStale ==
  /\ pc = "dom" /\ x >= nblk /\ ch > 0
  /\ x' = 1
  /\ UNCHANGED <<graph, order, doms, loop, visit, pc, stack, ch>>

DomAgain ==
  /\ pc = "dom" /\ x >= nblk /\ ch > 0
  /\ ch' = 0 /\ x' = 1
  /\ UNCHANGED <<graph, order, doms, loop, visit, pc, stack>>

(* The tree: a block goes in front of its siblings.                        *)
DomDoneOnce ==
  /\ pc = "dom" /\ x >= nblk
  /\ dom' = [d \in Blk |-> Reverse(Those(link, {b \in Blk : idom[b] = d}))]
  /\ pc' = "fron" /\ x' = 1
  /\ UNCHANGED <<graph, order, idom, fron, loop, visit, stack, ch>>

DomDone ==
  /\ pc = "dom" /\ x >= nblk /\ ch = 0
  /\ dom' = [d \in Blk |-> Reverse(Those(link, {b \in Blk : idom[b] = d}))]
  /\ pc' = "fron" /\ x' = 1
  /\ UNCHANGED <<graph, order, idom, fron, loop, visit, stack, ch>>

(* sdom(b1, b2): climb from b2 as long as its number is the greater.       *)
SDom(c1, c2) ==
  LET climb[b \in ToSet(link)] == IF id[b] > id[c1] THEN climb[idom[b]] ELSE b
  IN c1 # c2 /\ climb[c2] = c1

-----------------------------------------------------------------------------
(* fillfron: s joins the frontier of b and of the blocks above it, up to   *)
(* the first that dominates s.                                             *)
AboveDom(b, s) ==
  LET climb[a \in ToSet(link)] == IF a = s \/ SDom(a, s) THEN {} ELSE {a} \cup climb[idom[a]]
  IN climb[b]

Above(b, s) ==
  LET climb[a \in ToSet(link)] == IF SDom(a, s) THEN {} ELSE {a} \cup climb[idom[a]]
  IN climb[b]

AddFron(f, S, s) ==
  [a \in Blk |-> IF a \in S /\ ~Contains(f[a], s) THEN Append(f[a], s) ELSE f[a]]

FronBlk ==
  /\ pc = "fron" /\ x <= Len(link)
  /\ LET b == link[x]
         f1 == IF s1[b] = 0 THEN fron ELSE AddFron(fron, Above(b, s1[b]), s1[b])
     IN fron' = IF s2[b] = 0 THEN f1 ELSE AddFron(f1, Above(b, s2[b]), s2[b])
  /\ x' = x + 1
  /\ UNCHANGED <<graph, order, idom, dom, loop, visit, pc, stack, ch>>

(* fillloop, loopiter: every weight is 1; then for each block, in order,   *)
(* loopmark from its predecessors of greater or equal number.              *)
FronDone ==
  /\ pc = "fron" /\ x > Len(link)
  /\ loop' = [b \in Blk |-> IF Contains(link, b) THEN 1 ELSE loop[b]]
  /\ visit' = [b \in Blk |-> IF Contains(link, b) THEN -1 ELSE visit[b]]
  /\ pc' = "loop" /\ x' = 0
  /\ stack' = Those(pred[rpo[0]], {a \in Blk : id[a] >= 0})
  /\ UNCHANGED <<graph, order, doms, ch>>

LoopMarkedOnce(hd, b) == id[b] < id[hd] \/ visit[b] # -1
LoopMarked(hd, b) == id[b] < id[hd] \/ visit[b] = id[hd]

(* loopmark(hd, b) for the block on top, f being multloop.                 *)
LoopMark ==
  /\ pc = "loop" /\ stack # <<>>
  /\ LET b == Head(stack)
         hd == rpo[x]
     IN IF LoopMarked(hd, b)
        THEN stack' = Tail(stack) /\ UNCHANGED <<loop, visit>>
        ELSE /\ visit' = [visit EXCEPT ![b] = id[hd]]
             /\ loop' = [loop EXCEPT ![b] = @ * 10]
             /\ stack' = pred[b] \o Tail(stack)
  /\ UNCHANGED <<graph, order, doms, pc, x, ch>>

LoopNext ==
  /\ pc = "loop" /\ stack = <<>>
  /\ IF x + 1 < nblk
     THEN /\ x' = x + 1 /\ pc' = pc
          /\ stack' = Those(pred[rpo[x + 1]], {a \in Blk : id[a] >= x + 1})
     ELSE pc' = "done" /\ UNCHANGED <<x, stack>>
  /\ UNCHANGED <<graph, order, doms, loop, visit, ch>>

Passes ==
  \/ RpoStart \/ RpoVisit \/ RpoNumber \/ RpoDone
  \/ SweepDead \/ SweepLive
  \/ FillPreds
  \/ DomBlk \/ DomAgain \/ DomDone
  \/ FronBlk \/ FronDone
  \/ LoopMark \/ LoopNext

Stopped == pc = "done" /\ UNCHANGED vars

Next == Passes \/ Stopped

Spec == Init /\ [][Next]_vars

-----------------------------------------------------------------------------
(* Blocks on a path from S that avoids the blocks of T.                    *)
Reach(S, T) ==
  LET grow[k \in 0..NBlk] ==
        IF k = 0 THEN S \ T
        ELSE grow[k - 1] \cup ((UNION {Succs(b) : b \in grow[k - 1]}) \ T)
  IN grow[NBlk]

Live == Reach({1}, {})
Dominates(a, b) == b \notin Reach({1}, {a})
IsIDom(a, b) ==
  /\ a # b /\ Dominates(a, b)
  /\ \A d \in Live \ {b} : Dominates(d, b) => Dominates(d, a)

(* Every variable has its type.                                            *)
TypeOK ==
  /\ s1 \in [Blk -> Blk \cup {0}] /\ s2 \in [Blk -> Blk \cup {0}]
  /\ \A b \in Blk : phi[b] \in Seq(Blk) /\ pred[b] \in Seq(Blk)
                    /\ dom[b] \in Seq(Blk) /\ fron[b] \in Seq(Blk)
  /\ link \in Seq(Blk)
  /\ id \in [Blk -> -1..NBlk] /\ nblk \in 0..NBlk
  /\ \A j \in DOMAIN rpo : rpo[j] \in Blk \cup {0}
  /\ idom \in [Blk -> Blk \cup {0}]
  /\ loop \in [Blk -> Nat] /\ visit \in [Blk -> -1..NBlk]
  /\ pc \in {"rpo", "sweep", "dom", "fron", "loop", "done"}
  /\ x \in -1..NBlk + 1 /\ ch \in Nat

(* fillrpo keeps the reachable blocks, numbers them 0..nblk-1 with the     *)
(* start first, and an edge against the numbering closes a cycle; the      *)
(* phis and predecessor lists forget the deleted blocks and nothing else.  *)
RpoOK ==
  TypeOK /\ (pc = "dom" =>
    /\ ToSet(link) = Live /\ nblk = Len(link) /\ rpo[0] = 1
    /\ DOMAIN rpo = 0..nblk - 1
    /\ \A b \in Live : id[b] \in DOMAIN rpo /\ rpo[id[b]] = b
    /\ \A b \in Live : \A s \in Succs(b) : id[s] <= id[b] => b \in Reach({s}, {})
    /\ \A b \in Live : ToSet(phi[b]) = PredsOf(b) /\ ToSet(pred[b]) = PredsOf(b))

(* While filldom iterates, an immediate dominator found so far has a       *)
(* smaller number than its block, so climbing ends, and never passes a     *)
(* block that does dominate: the true one is it or above it.  When it is   *)
(* done they are the immediate dominators, and sdom strict dominance.      *)
IdomBelow ==
  \A b \in Live : idom[b] # 0 =>
    /\ id[idom[b]] < id[b]
    /\ \A d \in Live \ {b} : Dominates(d, b) => d = idom[b] \/ id[d] < id[idom[b]]
DomOK ==
  /\ pc = "dom" => IdomBelow
  /\ pc = "fron" /\ x = 1 =>
       /\ idom[1] = 0
       /\ \A b \in Live \ {1} : idom[b] \in Live /\ IsIDom(idom[b], b)
       /\ \A a, b \in Live : SDom(a, b) <=> a # b /\ Dominates(a, b)
       /\ \A b \in Live : ToSet(dom[b]) = {c \in Live \ {1} : idom[c] = b}

(* fillfron computes dominance frontiers, without duplicates.              *)
FronOK ==
  pc = "loop" /\ x = 0 =>
    \A b \in Live :
      /\ ToSet(fron[b]) = {s \in Live : /\ \E a \in PredsOf(s) : Dominates(b, a)
                                        /\ ~(b # s /\ Dominates(b, s))}
      /\ IsInjective(fron[b])

Headers == {h \in Live : \E a \in PredsOf(h) : Dominates(h, a)}
Reducible == \A b \in Live : \A s \in Succs(b) : id[s] <= id[b] => Dominates(s, b)
InLoop(h, b) ==
  b = h \/ \E a \in PredsOf(h) : Dominates(h, a) /\ a \in Reach({b}, {h})

(* 10 to the power k.                                                      *)
Tens[k \in 0..NBlk] == IF k = 0 THEN 1 ELSE Tens[k - 1] * 10

(* In a reducible graph a block weighs 10 to the number of natural loops   *)
(* it is in.                                                               *)
LoopOK ==
  pc = "done" /\ Reducible =>
    \A b \in Live : loop[b] = Tens[Cardinality({h \in Headers : InLoop(h, b)})]

=============================================================================
