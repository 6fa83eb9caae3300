------------------------------- MODULE Middle -------------------------------
(***************************************************************************)
(* The middle end from memopt() to copy(), in the order of func() (main.c),*)
(* one step for each pass, block renamed, load searched and block copied.  *)
(* What is left is then executed beside the function that came in, block   *)
(* by block along every path, with calls that see and write all memory     *)
(* they can reach.  The passes keep the graph, so the two stay in step.    *)
(***************************************************************************)
EXTENDS IlRun, MemOpt, Ssa, LoadOpt, CopyElim

CONSTANTS
  Fns,       \* functions: [p |-> program, mem |-> what is there when it starts]
  FreeNames, \* cells the free list may hold from functions compiled before
  MaxBlks    \* blocks an execution enters

(* No temporary of a block has a number above nt.                          *)
Numbered(k, nt) ==
  k.jmp <= nt /\ \A s \in Range(k.ins) : s.to <= nt /\ s.arg[1] <= nt /\ s.arg[2] <= nt

ASSUME MiddleAssumption ==
  /\ MaxBlks \in Nat /\ FreeNames \subseteq Nat
  /\ \A f \in Fns : f.p \in Programs /\ Ids(f.p) # {} /\ \A b \in Ids(f.p) :
       /\ f.p.blk[b].phi = <<>> /\ Numbered(f.p.blk[b], f.p.nt)
       /\ Succ(f.p, b) \subseteq Ids(f.p) \ {1}
       /\ b # 1 => \E a \in 1..b - 1 : b \in Succ(f.p, a)

VARIABLES
  fn,    \* the function that came in
  p,     \* the function now
  dom,   \* dominance
  pc,    \* the pass at work
  todo,  \* the blocks to rename, in the order of the walk down the dominator tree, or the loads to search
  ren,   \* the renamer: visit, cells, free list, stacks
  log,   \* load elimination: aliases, log, temporaries
  cpy,   \* copy elimination: the map, and the block it is at
  run    \* the execution: [at, from, m, m2, left, wrong]

vars == <<fn, p, dom, pc, todo, ren, log, cpy, run>>

None == <<>>
Init ==
  /\ fn \in Fns /\ p = fn.p /\ dom = Doms(fn.p)
  /\ pc = "memopt" /\ todo = <<>>
  /\ ren = None /\ log = None /\ cpy = None /\ run = None

MemOptPass ==
  /\ pc = "memopt"
  /\ IF ReadUnset(p) THEN pc' = "error" /\ p' = p
     ELSE pc' = "phiins" /\ p' = MemOpt(p)
  /\ UNCHANGED <<fn, dom, todo, ren, log, cpy, run>>

Fresh(n) == [j \in 1..n |-> [r |-> R, b |-> 1, up |-> j - 1]]
PhiInsPass ==
  /\ pc = "phiins"
  /\ \E st \in {PhiIns(p, dom)} :
        IF st.bad THEN pc' = "error" /\ UNCHANGED <<p, ren, todo>>
        ELSE /\ pc' = "rename" /\ p' = st.p
             /\ \E n \in FreeNames : ren' = Renamer(st, Fresh(n), n)
             /\ todo' = <<1>>
  /\ UNCHANGED <<fn, dom, log, cpy, run>>

RenBlkStep ==
  /\ pc = "rename" /\ todo # <<>>
  /\ ren' = RenBlk(ren, dom, Head(todo)) /\ p' = ren'.p
  /\ todo' = Kids(p, dom, Head(todo)) \o Tail(todo)
  /\ UNCHANGED <<fn, dom, pc, log, cpy, run>>

(* ssa() returns; ssacheck(), fillalias().                                 *)
AliasPass ==
  /\ pc = "rename" /\ todo = <<>>
  /\ pc' = "load" /\ todo' = LoadsOf(p) /\ ren' = None
  /\ log' = [x |-> FillAlias(p), st |-> StartState(p)]
  /\ UNCHANGED <<fn, p, dom, cpy, run>>

LoadStep ==
  /\ pc = "load" /\ todo # <<>>
  /\ \E rs \in {Search(p, log.x, log.st, Head(todo)[1], Head(todo)[2])} :
       /\ p' = Searched(p, Head(todo)[1], Head(todo)[2], rs.r)
       /\ log' = [log EXCEPT !.st = rs.st]
  /\ todo' = Tail(todo)
  /\ UNCHANGED <<fn, dom, pc, ren, cpy, run>>

InsertPass ==
  /\ pc = "load" /\ todo = <<>>
  /\ p' = Inserted(p, log.st) /\ log' = None
  /\ pc' = "copy" /\ cpy' = [b |-> 1, map |-> [t \in 0..log.st.nt |-> R]]
  /\ UNCHANGED <<fn, dom, todo, ren, run>>

CopyStep ==
  /\ pc = "copy" /\ cpy.b <= Len(p.blk)
  /\ \E map \in {CopyBlk(p, cpy.map, cpy.b)} :
        IF CopyAborts(p, cpy.map, map, cpy.b) THEN pc' = "abort" /\ UNCHANGED cpy
        ELSE cpy' = [b |-> cpy.b + 1, map |-> map] /\ UNCHANGED pc
  /\ UNCHANGED <<fn, p, dom, todo, ren, log, run>>

SubstPass ==
  /\ pc = "copy" /\ cpy.b > Len(p.blk)
  /\ IF SubstAborts(p, cpy.map) THEN pc' = "abort" /\ UNCHANGED <<p, run>>
     ELSE /\ pc' = "run" /\ p' = Rewritten(p, cpy.map)
          /\ run' = [at |-> 1, from |-> 0, m |-> Start(fn.p, fn.mem), m2 |-> Start(p, fn.mem),
                     left |-> MaxBlks, wrong |-> {}]
  /\ cpy' = None
  /\ UNCHANGED <<fn, dom, todo, ren, log>>

(* Execution ends at a return, when the original does something undefined, *)
(* or at the bound.  What a return leaves in memory others can reach, and  *)
(* the word a jump tests, must agree too.                                  *)
Word(v) == [k \in 1..4 |-> v[k]]
Wrong(b, m, m2) ==
  {<<"call", b, j>> : j \in {i \in DOMAIN m.seen :
     i > Len(m2.seen) \/ Len(m.seen[i]) # Len(m2.seen[i])
       \/ \E a \in DOMAIN m.seen[i] : ~Agree(m.seen[i][a], m2.seen[i][a])}}
  \cup {<<"memory", b, o>> : o \in {o \in m.vis : Succ(fn.p, b) = {} /\ ~Agree(m.mem[o], m2.mem[o])}}
  \cup {<<"end", b, 0>> : j \in {i \in {0} : m2.bad \/
          ~LET v == Val(m.env, fn.p.blk[b].jmp)
               w == Val(m2.env, p.blk[b].jmp)
           IN IF Succ(fn.p, b) = {} THEN Agree(AsClass(fn.ret, v), w) ELSE Agree(Word(v), Word(w))}}

Lost(m, b) ==
  \/ m.bad \/ Succ(fn.p, b) = {}
  \/ Cardinality(Succ(fn.p, b)) = 2 /\ \E k \in 1..4 : Val(m.env, fn.p.blk[b].jmp)[k] = Junk
RunStep ==
  /\ pc = "run" /\ run.at # 0 /\ run.left > 0
  /\ \E m \in {RunBlk(fn.p, run.m, run.at, run.from)}, m2 \in {RunBlk(p, run.m2, run.at, run.from)} :
     \E s \in IF Lost(m, run.at) THEN {0} ELSE Succ(fn.p, run.at) :
       run' = [at |-> s, from |-> run.at, m |-> m, m2 |-> m2, left |-> run.left - 1,
               wrong |-> IF m.bad THEN run.wrong ELSE run.wrong \cup Wrong(run.at, m, m2)]
  /\ UNCHANGED <<fn, p, dom, pc, todo, ren, log, cpy>>

Stopped ==
  /\ pc \in {"error", "abort"} \/ (pc = "run" /\ (run.at = 0 \/ run.left = 0))
  /\ UNCHANGED vars

Next ==
  \/ MemOptPass \/ PhiInsPass \/ RenBlkStep \/ AliasPass \/ LoadStep \/ InsertPass
  \/ CopyStep \/ SubstPass \/ RunStep \/ Stopped
Spec == Init /\ [][Next]_vars

-----------------------------------------------------------------------------
(* What the middle end leaves does what came in did, on every path: calls  *)
(* see the same arguments and memory, jumps test the same word, the same   *)
(* value is returned (mem.c, ssa.c, alias.c, load.c, copy.c together).     *)
SameBehaviour == (pc = "run" /\ (run.at = 0 \/ run.left = 0)) => run.wrong = {}

(* After renaming, after load elimination and after copy elimination the   *)
(* function is in SSA form with complete phis: nothing a search took back  *)
(* (load.c:221) is referred to, nothing copy.c removed is still used.      *)
SsaOK == (pc = "load" \/ (pc = "copy" /\ cpy.b = 1) \/ (pc = "run" /\ run.from = 0)) =>
           IsSsa([p EXCEPT !.blk = [b \in DOMAIN @ |-> [@[b] EXCEPT
             !.ins = [j \in DOMAIN @ |-> IF pc = "load" /\ @[j].op \in Loads THEN [@[j] EXCEPT !.arg[2] = R] ELSE @[j]]]]], dom)

(* No assertion of copy() fails: a phi has an argument from a block        *)
(* already seen, and only temporaries the first pass saw are asked for.    *)
NoAbort == pc # "abort"

(* The cells of the renaming stacks (ssa.c:208) are on one stack or on the *)
(* free list, never on two of them, and no chain runs in a circle.         *)
NamesApart ==
  (pc = "rename" /\ ren # None) =>
    LET tops == {ren.stk[t] : t \in DOMAIN ren.stk} \cup {ren.namel}
    IN /\ \A n \in tops : Ends(ren.cell, n)
       /\ \A t \in DOMAIN ren.stk : Chain(ren.cell, ren.stk[t]) \cap Chain(ren.cell, ren.namel) = {}
       /\ \A t, u \in DOMAIN ren.stk : t # u =>
            Chain(ren.cell, ren.stk[t]) \cap Chain(ren.cell, ren.stk[u]) = {}
=============================================================================
