------------------------------ MODULE MCGraph -------------------------------
(* The analyses of a function's graph for TLC: the passes of cfg.c on      *)
(* every graph of four blocks as the parser leaves it, and on every graph  *)
(* of three (and a block without edges) that has been through them before, *)
(* weighted, its predecessors filled.  Behind the graph of one block stand *)
(* the functions for filllive, and every graph of four reachable blocks,   *)
(* empty or not, for simpljmp, in turn.  To save states the first          *)
(* successor of the start is the block behind it.                          *)
EXTENDS Cfg, JmpThread, Live
CONSTANTS ta, tb, tc, td, r0, sp

Wired(k) ==
  LET to == [Blk -> ((1..k) \ {1}) \cup {0}]
  IN {w \in [s1 : to, s2 : to] :
        /\ w.s1[1] \in {0, 2}
        /\ \A b \in Blk : (w.s1[b] = 0 => w.s2[b] = 0) /\ (b > k => w.s1[b] = 0)}

Parsed ==
  {[s1 |-> w.s1, s2 |-> w.s2, loop |-> [b \in Blk |-> 1], known |-> FALSE] : w \in Wired(NBlk)}
Again ==
  {[s1 |-> w.s1, s2 |-> w.s2, loop |-> f, known |-> TRUE] :
     w \in Wired(NBlk - 1), f \in {h \in [Blk -> {1, 10}] : h[1] = 1 /\ h[NBlk] = 1}}

MCGraphs == Parsed \cup Again

(* The functions for filllive: a loop whose phis exchange their values, a  *)
(* loop with a call in it, and a branch into a return, with choices of     *)
(* what each instruction writes and reads.                                 *)
Ins(to, uses) == [to |-> to, uses |-> uses, call |-> FALSE, ret |-> {}, arg |-> {}]
Call(rets, args, uses) == [to |-> None, uses |-> uses, call |-> TRUE, ret |-> rets, arg |-> args]
Phi(to, blk, arg) == [to |-> to, blk |-> blk, arg |-> arg]
LBlk(phis, code, used, rets, succ) ==
  [phi |-> phis, ins |-> code, jmp |-> used, ret |-> rets, succ |-> succ]

Fn(bs) ==
  LET B == 0..(Len(bs) - 1)
  IN [n |-> Len(bs),
      phi |-> [k \in B |-> bs[k + 1].phi], ins |-> [k \in B |-> bs[k + 1].ins],
      jmp |-> [k \in B |-> bs[k + 1].jmp], ret |-> [k \in B |-> bs[k + 1].ret],
      succ |-> [k \in B |-> bs[k + 1].succ]]

(* A use of v and w after a call that returns in r0, as the abi lowers it. *)
Called(v, w) == <<Ins(r0, {w}), Call({r0}, {r0}, {v}), Ins(tc, {r0})>>

Swaps ==
  { Fn(<< LBlk(<<>>, <<Ins(ta, f)>>, {}, None, <<1>>),
          LBlk(<<Phi(tb, <<0, 2>>, <<p, tc>>), Phi(tc, <<0, 2>>, <<ta, q>>)>>,
              <<Ins(td, y)>>, z, None, <<2, 3>>),
          LBlk(<<>>, <<Ins(w, {tc, td})>>, {}, None, <<1>>),
          LBlk(<<>>, <<Ins(r0, {v})>>, {}, {r0}, <<>>) >>) :
      f \in {{}, {r0}}, y \in {{}, {ta, tb}, {td}}, z \in {{ta}, {tb}, {tc}},
      p \in {0, ta}, q \in {0, tb, tc, td},
      w \in {ta, td, sp, None}, v \in {ta, tb, td} }

Calls ==
  { Fn(<< LBlk(<<>>, <<Ins(ta, {r0}), Ins(tb, f)>>, {}, None, <<1>>),
          LBlk(<<Phi(td, <<0, 3>>, <<p, q>>)>>, y, {}, None, <<2>>),
          LBlk(<<>>, <<>>, {tc}, None, <<3, 4>>),
          LBlk(<<>>, <<Ins(tb, z)>>, {}, None, <<1>>),
          LBlk(<<>>, u, {}, {r0}, <<>>) >>) :
      f \in {{}, {ta}}, p \in {0, tb}, q \in {0, tb, td},
      y \in {Called(ta, tb), Called(td, tb), Called(tb, ta) \o <<Ins(sp, {sp})>>, <<Ins(tc, {td})>>},
      z \in {{}, {ta, tc}, {tb, td}},
      u \in {<<Ins(r0, {tb})>>, <<Ins(r0, {tc}), Ins(sp, {sp})>>, Called(tc, td) \o <<Ins(r0, {tc})>>} }

Branches ==
  { Fn(<< LBlk(<<>>, f, {ta}, None, y),
          LBlk(<<>>, <<Ins(tb, {tc})>>, {}, None, <<2>>),
          LBlk(<<Phi(td, <<0, 1>>, <<p, tb>>)>>, <<Ins(r0, z)>>, w, IF w = {} THEN {r0} ELSE None,
              IF w = {} THEN <<>> ELSE <<0, 2>>) >>) :
      f \in {<<Ins(tc, {ta, tb})>>, <<Ins(sp, {}), Ins(td, {sp})>>, Called(ta, td)},
      y \in {<<1, 2>>, <<2, 1>>, <<2>>, <<1, 1>>},
      p \in {0, ta, td}, z \in {{ta}, {td}, {tc, td}}, w \in {{}, {td}, {tc}} }

(* A function with nothing in it.                                          *)
Nothing == Fn(<< LBlk(<<>>, <<>>, {}, None, <<>>) >>)

MCPrograms == {Nothing} \cup Swaps \cup Calls \cup Branches

-----------------------------------------------------------------------------
MCTemps == {ta, tb, tc, td, r0, sp}
MCWide == {td}
MCRGlob == {sp}
MCNRSave == [k \in Classes |-> IF k = 0 THEN 2 ELSE 1]
ASSUME MCLiveAssumption == PressureAssumption

all == <<vars, lvars, jvars>>

OneBlock == \A b \in Blk : s1[b] = 0
Unseen == \A b \in Blk : loop[b] = 1

(* A function and a graph that are at hand when another one is looked at.  *)
NoFunction == prog = Nothing /\ LiveReady
NoThread ==
  /\ jmp = [b \in JBlk |-> IF b = NJmp THEN "ret0" ELSE "jmp"]
  /\ to1 = [b \in JBlk |-> (b + 1) % (NJmp + 1)] /\ to2 = [b \in JBlk |-> 0]
  /\ empty = [b \in JBlk |-> FALSE]
  /\ ThreadReady

MCInit ==
  /\ Init
  /\ \/ NoFunction /\ NoThread
     \/ OneBlock /\ Unseen /\ LiveInit /\ NoThread
     \/ OneBlock /\ Unseen /\ NoFunction /\ ThreadInit /\ to1[1] \in {0, 2}

AllDone == pc = "done" /\ (OneBlock => LiveEnded /\ ThreadEnded)
Work ==
  \/ Passes /\ UNCHANGED <<lvars, jvars>>
  \/ pc = "done" /\ OneBlock /\ ThreadWork /\ UNCHANGED <<vars, lvars>>
  \/ pc = "done" /\ OneBlock /\ ThreadEnded /\ LiveNext /\ UNCHANGED <<vars, jvars>>

(* Sequential code: a step that can be taken is taken.                     *)
MCSpec == MCInit /\ [][Work \/ (AllDone /\ UNCHANGED all)]_all /\ WF_all(Work)

(* Every pass ends: the iteration of filldom reaches a round and filllive  *)
(* a sweep without a change (cfg.c:163-177, live.c:57, 69, 126-129), and   *)
(* the recursions of rporec, loopmark and uffind come back.                *)
PassesEnd == <>AllDone
=============================================================================
