------------------------------- MODULE MCSccp -------------------------------
(* Small functions for TLC, numbered as fillrpo numbers them: a diamond, a *)
(* loop, a loop around a diamond, and a jnz with one destination, each     *)
(* with every choice of a few operands and operators, and with the blocks  *)
(* listed in two orders.                                                   *)
EXTENDS SccpExec
CONSTANTS ta, tb, tc, td, te
MCTemps == {ta, tb, tc, td, te}

Blk(phi, ins, jmp, arg, s1, s2) ==
  [phi |-> phi, ins |-> ins, jmp |-> jmp, arg |-> arg, s1 |-> s1, s2 |-> s2]
Jmp(phi, ins, s) == Blk(phi, ins, "jmp", 0, s, Gone)
Ret(phi, x) == Blk(phi, <<>>, "ret", x, Gone, Gone)
Phi(to, blk, arg) == [to |-> to, blk |-> blk, arg |-> arg]
Ins(to, op, x, y) == [to |-> to, op |-> op, arg |-> <<x, y>>]

Fn(bs, link) ==
  LET N == Len(bs)
  IN [n |-> N, link |-> link,
      s1 |-> [x \in 0..N - 1 |-> bs[x + 1].s1],
      s2 |-> [x \in 0..N - 1 |-> bs[x + 1].s2],
      jmp |-> [x \in 0..N - 1 |-> bs[x + 1].jmp],
      arg |-> [x \in 0..N - 1 |-> bs[x + 1].arg],
      phi |-> [x \in 0..N - 1 |-> bs[x + 1].phi],
      ins |-> [x \in 0..N - 1 |-> bs[x + 1].ins],
      pred |-> [x \in 0..N - 1 |->
                  {y \in 0..N - 1 : x \in {bs[y + 1].s1, bs[y + 1].s2}}]]

First == {<<Ins(ta, "load", 0, 0)>>, <<Ins(ta, "xor", 1, 0)>>, <<Ins(ta, "xor", 1, 1)>>}

Diamonds ==
  { Fn(<< Blk(<<>>, f, "jnz", ta, 2, 1),
          Jmp(<<>>, <<x>>, 3),
          Jmp(<<>>, <<y>>, 3),
          Ret(<<Phi(td, <<1, 2>>, <<p, q>>)>>, td) >>, l) :
      f \in First,
      x \in {Ins(tb, "xor", ta, 1), Ins(tb, "div", 1, ta), Ins(tb, "load", ta, 0)},
      y \in {Ins(tc, "xor", ta, 1), Ins(tc, "div", ta, ta)},
      p \in {0, 1, ta, tb}, q \in {0, 1, ta, tc},
      l \in {<<0, 1, 2, 3>>, <<0, 3, 2, 1>>} }

Loops ==
  { Fn(<< Jmp(<<>>, f, 1),
          Blk(<<Phi(tb, <<0, 3>>, <<p, q>>)>>, <<x>>, "jnz", z, 3, 2),
          Ret(<<>>, r),
          Jmp(<<>>, <<y>>, 1) >>, l) :
      f \in First,
      p \in {0, 1, ta}, q \in {0, tb, tc, td},
      x \in {Ins(tc, "xor", tb, 1), Ins(tc, "xor", tb, ta), Ins(tc, "div", ta, tb)},
      y \in {Ins(td, "xor", tb, tc), Ins(td, "load", 0, 0)},
      z \in {ta, tb, tc}, r \in {tb, tc},
      l \in {<<0, 1, 2, 3>>, <<0, 3, 2, 1>>} }

LoopDiamonds ==
  { Fn(<< Jmp(<<>>, f, 1),
          Blk(<<Phi(tb, <<0, 4>>, <<p, q>>)>>, <<>>, "jnz", y, 3, 2),
          Jmp(<<>>, <<x>>, 4),
          Jmp(<<>>, <<>>, 4),
          Blk(<<Phi(te, <<2, 3>>, <<r, s>>)>>, <<>>, "jnz", z, 1, 5),
          Ret(<<>>, te) >>, <<0, 1, 2, 3, 4, 5>>) :
      f \in First,
      p \in {0, 1, ta}, q \in {0, 1, te},
      x \in {Ins(tc, "xor", tb, 1), Ins(tc, "load", 0, 0)},
      y \in {ta, tb}, z \in {te, tb},
      r \in {0, tb, tc}, s \in {0, 1, tb} }

Doubles ==
  { Fn(<< Blk(<<>>, f, "jnz", ta, 1, 1),
          Blk(<<Phi(tb, <<0>>, <<p>>)>>, <<x>>, "jnz", z, 3, 2),
          Jmp(<<>>, <<>>, 3),
          Ret(<<Phi(td, <<1, 2>>, <<q, r>>)>>, td) >>, l) :
      f \in First,
      p \in {0, 1, ta},
      x \in {Ins(tc, "xor", tb, ta), Ins(tc, "div", 1, tb)},
      z \in {tb, tc}, q \in {0, tb, tc}, r \in {0, tc},
      l \in {<<0, 1, 2, 3>>, <<0, 3, 2, 1>>} }

(* A function with nothing to fold: after it the arithmetic is tried.      *)
Plain == Fn(<<Ret(<<>>, 0)>>, <<0>>)
MCPrograms == Diamonds \cup Loops \cup LoopDiamonds \cup Doubles \cup {Plain}

-----------------------------------------------------------------------------
(* Words of four bits.  The patterns are the ends of every width, as words *)
(* and as longs, and some that hold more than a word.                      *)
VARIABLES expr, res
Arith == INSTANCE FoldInt WITH
  LongBits <- 8, Placements <- {<<40, 200>>, <<0, 255>>, <<9, 9>>},
  Operands <- {0, 1, 2, 3, 5, 7, 8, 9, 15, 16, 17, 24, 31, 100, 127, 128, 129, 200, 240, 248, 254, 255}
FoldOK == Arith!FoldOK

MCInit == XInit /\ Arith!Init
MCNext ==
  \/ XNext /\ UNCHANGED <<expr, res>>
  \/ prog = Plain /\ pc = "done" /\ Arith!Fold /\ UNCHANGED all
MCSpec == MCInit /\ [][MCNext]_<<all, expr, res>> /\ WF_<<all, expr, res>>(Fold /\ UNCHANGED <<expr, res>>)
=============================================================================
