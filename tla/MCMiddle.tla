------------------------------ MODULE MCMiddle ------------------------------
(* Functions for Middle: two stores and a load over one slot with every    *)
(* size and offset; diamonds and loops with a menu for each block; and the *)
(* ways in which a pointer may hide what it points to.                     *)
EXTENDS Middle

CONSTANT Family

A == 1
B == 2
C == 3
S == 4
Q == 5
X == 6
Y == 7
Z == 8
V == 9
NT == 12
ToSym == SymCon(1, 0)

Blk(ins, jmp, s1, s2) == [phi |-> <<>>, ins |-> ins, jmp |-> jmp, s1 |-> s1, s2 |-> s2]
Entry == <<Ins("par", "l", A, R, R), Ins("par", "l", B, R, R), Ins("par", "w", C, R, R),
           Ins("alloc", "l", S, Con(8), R)>>
St(op, v, at) == Ins(op, "w", R, v, at)
Ld(op, k, to, at) == Ins(op, k, to, at, R)
Cp(k, to, r) == Ins("copy", k, to, r, R)
Plus(to, r, n) == Ins("add", "l", to, r, Con(n))
Arg(r) == Ins("arg", "l", R, r, R)
CallWith(r) == <<Arg(r), Ins("call", "l", R, R, R)>>
Fun(blk, ret) == [p |-> [blk |-> blk, nt |-> NT], ret |-> ret,
                  mem |-> [o \in {Global(0), Global(1)} |-> Symbol(9, o - 90)]]

-----------------------------------------------------------------------------
(* A store of sz bytes at offset o, before a load of z bytes at f that     *)
(* def() shifts down without masking what the store did not write, stores  *)
(* a value that has nothing there.                                         *)
Unmasked(o, sz, f, z) == LET d == f - o IN d > 0 /\ d < sz /\ sz - d < z /\ d + sz >= z
ExtFor == [storeb |-> "extub", storeh |-> "extuh", storew |-> "extuw", storel |-> "copy"]
Size == [storeb |-> 1, storeh |-> 2, storew |-> 4, storel |-> 8]
IntStores == DOMAIN Size
Offs(sz) == {o \in {0, 1, 2, 4} : o + sz <= 8}

StoreAt(op, v, tmp, at, o, f, z) ==
  (IF o = 0 THEN <<>> ELSE <<Plus(at, S, o)>>)
  \o (IF Unmasked(o, Size[op], f, z) THEN <<Ins(ExtFor[op], "l", tmp, v, R)>> ELSE <<>>)
  \o <<St(op, IF Unmasked(o, Size[op], f, z) THEN tmp ELSE v, IF o = 0 THEN S ELSE at)>>
LoadAt(op, k, o) ==
  (IF o = 0 THEN <<>> ELSE <<Plus(Z, S, o)>>) \o <<Ld(op, k, V, IF o = 0 THEN S ELSE Z)>>
LoadsOfClass == {<<"load", "l">>, <<"load", "w">>, <<"loaduw", "l">>, <<"loadsh", "l">>,
                 <<"loaduh", "w">>, <<"loadub", "w">>, <<"loadsb", "l">>}
SizeOfLoad(op, k) == LoadSz(Ld(op, k, V, S))

Straight ==
  {Fun(<<Blk(Entry \o StoreAt(s1, A, 10, Q, o1, f, SizeOfLoad(ld[1], ld[2]))
                   \o StoreAt(s2, B, 11, X, o2, f, SizeOfLoad(ld[1], ld[2]))
                   \o LoadAt(ld[1], ld[2], f), V, 0, 0)>>, ld[2]) :
     <<s1, o1, s2, o2, ld, f>> \in
       {c \in IntStores \X (0..6) \X IntStores \X (0..6) \X LoadsOfClass \X (0..6) :
          /\ c[2] \in Offs(Size[c[1]]) /\ c[4] \in Offs(Size[c[3]])
          /\ c[6] \in Offs(SizeOfLoad(c[5][1], c[5][2]))
          /\ ~(c[1] = c[3] /\ c[5][1] \in {"loaduw", "loadsw"} /\ c[2] = 0 /\ c[4] = 0 /\ c[6] = 0)}}

(* Two extensions, the first of a parameter or in a load.                  *)
Twice ==
  {Fun(<<Blk(Entry \o first \o <<Ins(e, k, V, X, R)>>, V, 0, 0)>>, k) :
     e \in Exts, k \in {"w", "l"},
     first \in {<<Ins(f, j, X, A, R)>> : f \in Exts, j \in {"w", "l"}}
              \cup {<<Ld(f, j, X, ToSym)>> : f \in DOMAIN ExtOf, j \in {"w", "l"}}}

-----------------------------------------------------------------------------
(* What a block may do.                                                    *)
Swap == <<Cp("l", Z, X), Cp("l", X, Y), Cp("l", Y, Z)>>
Menu == [nothing |-> <<>>, word |-> <<St("storew", A, S)>>, long |-> <<St("storel", X, S)>>,
         high |-> <<Plus(Q, S, 4), St("storew", B, Q)>>,
         read |-> <<Ld("load", "l", X, S)>>, half |-> <<Ld("loaduh", "l", Y, S)>>,
         call |-> CallWith(X), give |-> CallWith(S), hide |-> <<St("storel", S, ToSym)>>,
         swap |-> Swap, set |-> <<Cp("l", X, B)>>, same |-> <<Ins("or", "l", X, X, Con(0))>>,
         narrow |-> <<Ins("extsh", "l", Y, X, R)>>,
         point |-> <<Cp("l", X, S)>>, at4 |-> <<Plus(X, S, 4)>>, away |-> <<Cp("l", X, ToSym)>>,
         through |-> <<St("storew", B, X)>>, from |-> <<Ld("loadsw", "l", Y, X)>>,
         two |-> <<Cp("l", X, S), Cp("l", Y, ToSym)>>, leave |-> <<St("storew", B, X)>> \o Swap,
         mix |-> <<Ins("or", "l", X, Con(0), S)>>, self |-> <<St("storel", S, S)>>]
Begin == Entry \o <<Cp("l", X, A), Cp("l", Y, B)>>
Finish == <<Ld("load", "l", V, S)>> \o <<Arg(X), Arg(Y)>> \o <<Ins("call", "l", R, R, R)>>

Diamond(m, k, n, end) ==
  <<Blk(Begin \o Menu[m], C, 2, 3), Blk(Menu[k], R, 4, 0), Blk(Menu[n], R, 4, 0),
    Blk(end \o Finish, V, 0, 0)>>
Loop(m, k, n) ==
  <<Blk(Begin \o Menu[m], R, 2, 0), Blk(Menu[k], C, 3, 4), Blk(Menu[n], R, 2, 0),
    Blk(Finish, V, 0, 0)>>
(* Only the start lets X point to the slot when X comes round a loop.      *)
Round == {"word", "read", "half", "leave", "call", "give", "swap", "set", "same", "through", "from"}
Later == {"nothing", "word", "high", "read", "half", "leave", "give", "swap", "same", "narrow", "through", "from"}
Sides == {"nothing", "word", "read", "hide", "set", "swap", "point", "at4", "mix", "through"}
Starts == {"nothing", "word", "long", "self", "point", "at4", "mix", "two"}
Few == {"word", "read", "half", "call", "give", "swap", "through", "from"}
(* A diamond in a loop, a loop entered at two places, a loop in a loop.    *)
DiamondLoop(m, k, n, j) ==
  <<Blk(Begin \o Menu[m], R, 2, 0), Blk(<<>>, C, 3, 4), Blk(Menu[k], R, 5, 0), Blk(Menu[n], R, 5, 0),
    Blk(Menu[j], A, 2, 6), Blk(Finish, V, 0, 0)>>
TwoEntries(m, k, n) ==
  <<Blk(Begin \o Menu[m], C, 2, 3), Blk(Menu[k], A, 3, 4), Blk(Menu[n], R, 2, 0), Blk(Finish, V, 0, 0)>>
SelfLoop(m, k) == <<Blk(Begin \o Menu[m], R, 2, 0), Blk(Menu[k], C, 2, 3), Blk(Finish, V, 0, 0)>>
LoopLoop(m, k, n, j) ==
  <<Blk(Begin \o Menu[m], R, 2, 0), Blk(Menu[k], R, 3, 0), Blk(Menu[n], C, 3, 4),
    Blk(Menu[j], A, 2, 5), Blk(Finish, V, 0, 0)>>
Graphs ==
  {Fun(g, "l") : g \in {Diamond(m, k, n, e) : m \in Starts, k, n \in Sides, e \in {<<>>, Menu["from"], Menu["through"]}}
     \cup {Loop(m, k, n) : m \in Starts, k \in Round, n \in Later}
     \cup {SelfLoop(m, k) : m \in Starts, k \in Round \cup Later}
     \cup {TwoEntries(m, k, n) : m \in {"nothing", "word", "at4", "two"}, k, n \in Few}
     \cup {DiamondLoop(m, k, n, j) : m \in {"nothing", "point"}, k, n \in Few, j \in {"nothing", "same", "through"}}
     \cup {LoopLoop(m, k, n, j) : m \in {"word", "at4"}, k, n \in Few, j \in {"nothing", "set"}}}
-----------------------------------------------------------------------------
(* A slot of one word read as a signed long; two stores of halves and a    *)
(* load across them; a pointer that is a slot's in every round but the     *)
(* first.                                                                  *)
Mistaken == {Fun(
  <<Blk(Entry \o <<Ins("alloc", "l", 10, Con(4), R), Ins("alloc", "l", 11, Con(8), R),
                   St("storew", A, 10), Ld("loadsw", "l", V, 10)>> \o CallWith(V), R, 2, 0),
    Blk(<<Plus(X, S, 2), St("storeh", B, X), St("storeh", A, S), Plus(Q, S, 1),
          Ld("loaduh", "w", Y, Q)>> \o CallWith(Y) \o <<Cp("l", X, ToSym)>>, R, 3, 0),
    Blk(<<Plus(Z, 11, 4), St("storew", A, Z), St("storew", B, X), Cp("l", X, Z),
          Ld("load", "w", V, Z)>> \o CallWith(V), R, 3, 0)>>, "w")}

Test == CASE Family = "mistaken" -> Mistaken [] Family = "straight" -> Straight [] Family = "graphs" -> Graphs
          [] Family = "all" -> Straight \cup Twice \cup Graphs
=============================================================================
