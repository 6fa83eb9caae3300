------------------------------ MODULE MCFrame ------------------------------
(* Instances of Frame and M68kFrame for TLC: start blocks of up to two     *)
(* allocs of any alignment and size (sizes on both sides of each rounding  *)
(* step, and some that are refused), and longer ones that reach an INT_MAX *)
(* chosen small.  Then of M68kCode: every instruction with every kind of   *)
(* argument, and every graph of three blocks that m68k_emitfn() may get.   *)
EXTENDS M68kFrame, FiniteSets
CONSTANTS w1, w2, s1, s2, s3, DReg, AReg, Functions
MCTemps == {w1, w2, s1, s2, s3}
MCWide == {w1, w2}
MCSizes == {-9, 0, 4, 9, 17, 26}

UpTo(n) == UNION {[1..m -> Alloc] : m \in 0..n}
Filling == { [i \in 1..n |-> [al |-> k, dyn |-> FALSE, sz |-> 17]] :
               n \in 5..7, k \in 0..2 }
MCStartBlocks == UpTo(2) \cup Filling

NoTemps == {}
OneLocal == {<<[al |-> 0, dyn |-> FALSE, sz |-> 17]>>}

-----------------------------------------------------------------------------
VARIABLES fn, stage, code, asm, reg, keep
codeVars == <<fn, stage, code, asm, reg, keep>>

(* Numbers around the bounds of bytes, halfwords and words of 2, 4 and 8   *)
(* bits, counts of shifts, and one pattern of alternating bits.            *)
C == INSTANCE M68kCode WITH WordBits <- 8, Patterns <- {0, 1, 3, 127, 128, 170, 255}

A == C!Tmp("a")
B == C!Tmp("b")
P == C!Tmp("p")
To == C!Tmp("r")
N(n) == C!Con(n)
Symbol == C!Ref("sym", 100)
Block(ins) == [ins |-> ins, jmp |-> <<"ret">>, s1 |-> <<0>>, s2 |-> <<0>>]
One(op, to, x, y) == Block(<<C!Ins(op, to, x, y)>>)

TwoArgs == C!Arith \ (C!Exts \cup {"neg"})
OneArg == C!Exts \cup C!Loads \cup {"neg", "copy"}
Numbers == {N(1), N(2), N(3)}
Instructions ==
  {One(op, To, A, y) : op \in TwoArgs, y \in {A, B} \cup Numbers}
  \cup {One(op, To, A, y) : op \in TwoArgs \ C!Shifts, y \in {N(8), Symbol, P}}
  \cup {One(op, To, x, A) : op \in TwoArgs, x \in Numbers \cup {Symbol, P}}
  \cup {One(op, To, x, C!R) : op \in OneArg, x \in {A, Symbol, P}}
  \cup {One(op, C!R, x, y) : op \in C!Stores, x \in {A, N(3), Symbol, P}, y \in {B, Symbol, P}}
  \cup {One("alloc", To, x, C!R) : x \in {A, N(8)}}
  \cup {One("copy", To, N(3), C!R), One("copy", To, C!Slot(0), C!R), One("copy", C!Slot(0), A, C!R),
        One("swap", C!R, A, B)}

(* Blocks two and three are reached, and nothing jumps back to the start.  *)
Graphs ==
  {[ins |-> <<>>, jmp |-> j, s1 |-> x, s2 |-> y] :
     j \in [1..3 -> {"jmp", "jnz", "ret"}], x, y \in [1..3 -> {0, 2, 3}]}
Succs(h, b) == {h.s1[b], h.s2[b]} \ {0}
Formed(h) ==
  /\ \A b \in 1..3 :
       Cardinality(Succs(h, b)) = (CASE h.jmp[b] = "ret" -> 0 [] h.jmp[b] = "jmp" -> 1 [] h.jmp[b] = "jnz" -> 2)
       /\ (h.jmp[b] = "jmp" => h.s2[b] = 0)
  /\ Succs(h, 1) # {}
  /\ \A b \in 2..3 : \E c \in 1..3 \ {b} : b \in Succs(h, c)

Nothing == [ins |-> <<>>, jmp |-> <<>>, s1 |-> <<>>, s2 |-> <<>>]
MCFunctions == Instructions \cup {h \in Graphs : Formed(h)}

(* What the port gets wrong, with one register: a number minus a temporary,*)
(* extensions, the address and the contents of a symbol, the contents of a *)
(* fast local, a branch on a word of which only the upper half is not zero.*)
Unfinished ==
  {[ins |-> <<C!Ins("sub", To, N(3), A), C!Ins("xor", To, N(3), A), C!Ins("extsb", To, A, C!R),
              C!Ins("loadsh", To, A, C!R), C!Ins("loadsw", To, Symbol, C!R),
              C!Ins("loadsw", To, P, C!R)>>,
    jmp |-> <<"jnz", "ret", "ret">>, s1 |-> <<2, 0, 0>>, s2 |-> <<3, 0, 0>>]}
NoAddressRegisters == {}

-----------------------------------------------------------------------------
(* A behaviour is about a frame, or about code.                            *)
MCInit ==
  \/ Init /\ C!Init({Nothing})
  \/ allocs = <<>> /\ Init /\ C!Init(Functions)
MCNext ==
  \/ fn = Nothing /\ Next /\ UNCHANGED codeVars
  \/ fn # Nothing /\ C!Next /\ UNCHANGED vars
  \/ fn # Nothing /\ stage = "done" /\ UNCHANGED <<vars, codeVars>>
MCSpec == MCInit /\ [][MCNext]_<<vars, codeVars>>

(* What M68kCode calls right, for all code that is not on its list of what *)
(* the port lacks; and what is on it is wrong (m68k/emit.c).               *)
CodeRight == C!CodeRight

(* First the code, then the frame it runs in.                              *)
BothNext ==
  \/ C!Next /\ UNCHANGED vars
  \/ stage = "done" /\ Next /\ UNCHANGED codeVars
BothSpec == Init /\ C!Init(Functions) /\ [][BothNext]_<<vars, codeVars>>

(* The frame is as the comment at m68k/emit.c:446-462 draws it, and every  *)
(* instruction is implemented as doc/il.txt describes it.                  *)
AsDescribed == (pc = "done" /\ stage = "done") => AsDrawn /\ C!AsDocumented
=============================================================================
