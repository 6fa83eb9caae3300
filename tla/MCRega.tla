------------------------------- MODULE MCRega -------------------------------
(* Functions for TLC.  Register 1 passes and returns values, 2 is global   *)
(* (as m68k's a0, amid the others), 3 and 4 are callee-save, 5 is the only *)
(* one of base class 1.                                                    *)
EXTENDS RegaExec
MCTemps == 11..20
MCKBase == [t \in MCTemps |-> IF t = 17 THEN 1 ELSE 0]

Op(to, a, b) == Ins("op", to, a, b)
OpMem(to, a, b) == [Ins("op", to, a, b) EXCEPT !.mem = 1]
Cp(to, a) == Ins("copy", to, a, R)
(* A call as the abi lowers it.                                            *)
Called1(to, f, a) ==
  << Cp(1, a),
     [Ins("call", 0, f, CALL) EXCEPT !.use = {1}, !.ret = {1}],
     Cp(to, TMP(1)) >>
Phi(to, blk, arg) == [to |-> TMP(to), blk |-> blk, arg |-> arg]
Blk(p, is, j, a, b) == [phi |-> p, ins |-> is, jmp |-> j, s1 |-> a, s2 |-> b]
Ret(p, is) == Blk(p, is, CALL, Null, Null)

Fn(classes, bs) ==
  LET B == 0..(Len(bs) - 1)
  IN [n |-> Len(bs), reg |-> {1},
      s1 |-> [b \in B |-> bs[b + 1].s1], s2 |-> [b \in B |-> bs[b + 1].s2],
      phi |-> [b \in B |-> bs[b + 1].phi], ins |-> [b \in B |-> bs[b + 1].ins],
      jmp |-> [b \in B |-> bs[b + 1].jmp],
      ret |-> [b \in B |-> IF bs[b + 1].jmp = CALL THEN {1} ELSE {}],
      phicls |-> [t \in MCTemps |-> IF \E c \in classes : t \in c
                                    THEN Min(CHOOSE c \in classes : t \in c) ELSE t]]

(* A loop whose phis may exchange their values, and what lives through it. *)
Loops ==
  { Fn({{12, 13, 15}, {11, 14}},
       << Blk(<<>>, <<Cp(11, TMP(1)), Op(12, TMP(11), CON)>> \o y, R, 1, Null),
          Blk(<<Phi(13, <<0, 1>>, <<TMP(12), p>>), Phi(14, <<0, 1>>, <<q, TMP(13)>>)>>,
              <<Op(15, TMP(13), u)>> \o z, TMP(j), 1, 2),
          Ret(<<>>, <<Op(16, TMP(15), w), Cp(1, TMP(16))>>) >>) :
      y \in {<<>>, <<Op(16, TMP(12), R)>>},
      p \in {TMP(14), TMP(15)}, q \in {CON, TMP(11), TMP(12)},
      u \in {R, TMP(14), TMP(11), TMP(12)}, z \in {<<>>, <<Op(0, TMP(15), TMP(14))>>},
      j \in {13, 15}, w \in {R, TMP(11), TMP(14)} }

(* A loop around a branch and a call.                                      *)
Calls ==
  { Fn({{11, 13, 15}},
       << Blk(<<>>, <<Cp(11, TMP(1)), Op(12, TMP(11), CON), Op(17, v17, R)>>, R, 1, Null),
          Blk(<<Phi(13, <<0, 3>>, <<TMP(11), TMP(15)>>)>>, <<Op(14, TMP(13), TMP(12))>>,
              TMP(14), 2, 4),
          Blk(<<>>, Called1(to, f, TMP(13)), R, 3, Null),
          Blk(<<>>, <<Op(15, a, b)>>, R, 1, Null),
          Ret(<<>>, w) >>) :
      v17 \in {CON, TMP(11)},
      to \in {0, 16}, f \in {CON, TMP(12), TMP(14)}, a \in {TMP(13), TMP(12)}, b \in {TMP(14), R},
      w \in {<<Op(16, TMP(13), TMP(14)), Cp(1, TMP(16))>>, <<Op(0, TMP(12), TMP(17)), Cp(1, TMP(13))>>} }

(* A branch whose arms join in phis; operands in memory or memory operands *)
(* on a target that has them, and a result computed in two steps.          *)
Branches ==
  { Fn({{13, 14, 15}},
       << Blk(<<>>, <<Cp(11, TMP(1)), Op(12, TMP(11), CON), Op(16, TMP(12), R)>>, TMP(j), x1, x2),
          Blk(<<>>, <<Op(13, TMP(11), TMP(12))>> \o two, R, 3, Null),
          Blk(<<>>, <<o>> \o c, R, 3, Null),
          Ret(<<Phi(15, <<1, 2>>, <<TMP(13), p>>)>>,
              <<OpMem(17, TMP(15), TMP(q)), OpMem(14, TMP(11), MEM(16, 12)),
                Op(0, TMP(17), MEM(14, 0)), Cp(1, TMP(14))>>) >>) :
      j \in {12, 16}, x1 \in {1}, x2 \in {2},
      two \in {<<>>, <<Op(13, TMP(13), CON)>>},
      o \in {Op(14, TMP(16), TMP(12)), OpMem(14, TMP(11), TMP(16)), Op(14, MEM(16, 12), R)},
      c \in {<<>>, Called1(14, CON, TMP(14)), Called1(14, TMP(16), TMP(12))},
      p \in {TMP(14), TMP(12), CON}, q \in {11, 16} }

(* A loop with more values than registers.                                 *)
Tight ==
  { Fn({{13, 18}, {14, 19}, {15, 20}},
       << Blk(<<>>, <<Cp(11, TMP(1)), Op(12, TMP(11), CON)>>, R, 1, Null),
          Blk(<<Phi(13, <<0, 1>>, <<TMP(11), TMP(18)>>), Phi(14, <<0, 1>>, <<TMP(12), TMP(19)>>),
                Phi(15, <<0, 1>>, <<p, TMP(q)>>)>>,
              <<Op(16, c, CON), Op(18, TMP(13), CON), Op(19, TMP(14), d), Op(20, TMP(15), TMP(12))>>
                \o e, TMP(16), 1, 2),
          Ret(<<>>, <<Op(11, TMP(18), TMP(19)), Op(13, TMP(11), TMP(w)), Cp(1, TMP(13))>>) >>) :
      p \in {CON, TMP(11)}, q \in {13, 20},
      c \in {CON, TMP(13), TMP(12)}, d \in {CON, TMP(16)}, e \in {<<>>, <<Op(0, TMP(16), TMP(18))>>},
      w \in {12, 20} }

(* A loop without an instruction, and values only jumps read.              *)
Spins ==
  { Fn({},
       << Blk(<<>>, <<Cp(11, TMP(1))>>, R, 1, Null),
          Blk(<<Phi(13, <<0, 1>>, <<CON, TMP(14)>>), Phi(14, <<0, 1>>, <<TMP(11), TMP(p)>>)>>,
              is, TMP(j), 1, 2),
          Blk(<<>>, <<>>, TMP(13), 3, 4),
          Blk(<<>>, <<>>, TMP(14), 4, 4),
          Ret(<<>>, <<Cp(1, CON)>>) >>) :
      p \in {11, 13}, is \in {<<>>, <<Op(0, TMP(11), R)>>}, j \in {11, 13} }

(* A block with more values than registers, and one operand from memory.   *)
Straight ==
  { Fn({},
       << Ret(<<>>,
              <<Cp(11, TMP(1)), Op(12, TMP(11), CON), Op(13, TMP(11), TMP(12)), Op(14, TMP(12), CON),
                OpMem(to, TMP(a), TMP(b)), Op(15, TMP(c), TMP(d)), Op(16, TMP(15), TMP(e))>>
              \o f \o <<Cp(1, TMP(16))>>) >>) :
      to \in {0, 18}, a \in {11, 12, 14}, b \in {13, 14}, c \in 11..14, d \in {12, 13}, e \in 11..13,
      f \in {<<>>, <<OpMem(0, TMP(16), TMP(14))>>} }

(* A function with nothing in it.                                          *)
Empty == Fn({}, <<Ret(<<>>, <<>>)>>)

MCPrograms == Straight \cup Loops \cup Calls \cup Branches \cup Tight \cup Spins
=============================================================================
