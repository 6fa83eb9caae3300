------------------------------ MODULE M68kCode ------------------------------
(***************************************************************************)
(* What becomes of an instruction on its way to the 68000: the lowering of *)
(* products, quotients and shifts (m68k/abi.c), instruction selection      *)
(* (m68k/isel.c), registers as the allocator may give them, and the text   *)
(* m68k/emit.c writes for the assembler vasm, jumps included.  A word has  *)
(* WordBits bits, half of them a halfword, half of that a byte; memory is  *)
(* big endian, with WordBits/4 bits at an address.  The machine at the end *)
(* of the module is the 68000 as far as that text uses it.                 *)
(***************************************************************************)
EXTENDS Integers, Sequences, FiniteSets, SequencesExt, Bitwise

CONSTANTS
  WordBits,    \* bits of a word, 8 or more
  DReg, AReg,  \* data and address registers the allocator gives out
  Patterns     \* what words may hold

VARIABLES
  fn,     \* the function: a block's ins, and the graph's jmp, s1, s2
  stage,  \* how far it is
  code,   \* the instructions each one has become
  asm,    \* and what is written for it
  reg,    \* the register of each temporary
  keep    \* arguments that are used again after the instruction

vars == <<fn, stage, code, asm, reg, keep>>

HalfBits == WordBits \div 2
ByteBits == WordBits \div 4
MostShift == WordBits \div 4   \* 8: the largest count a shift has room for
U(n, x) == x % 2 ^ n
S(n, x) == IF U(n, x) < 2 ^ (n - 1) THEN U(n, x) ELSE U(n, x) - 2 ^ n

(* References: a temporary (p holds the address of a fast local), a number,*)
(* the address of a symbol, a slot; later a register.                      *)
Ref(t, v) == [t |-> t, v |-> v]
R == Ref("none", 0)
Tmp(x) == Ref("tmp", x)
Con(n) == Ref("con", n)
Slot(s) == Ref("slot", s)
Ins(op, to, x, y) == [op |-> op, to |-> to, arg |-> <<x, y>>]

Shifts == {"sar", "shr", "shl"}
Muls == {"mul", "div", "rem", "udiv", "urem"}
Exts == {"extsb", "extub", "extsh", "extuh"}
Cmps == {"eq", "ne", "sge", "sgt", "sle", "slt", "uge", "ugt", "ule", "ult"}
Loads == {"loadsb", "loadub", "loadsh", "loaduh", "loadsw", "loaduw"}
Stores == {"storeb", "storeh", "storew"}
Arith == {"add", "sub", "and", "or", "xor", "neg"} \cup Shifts \cup Muls \cup Exts \cup Cmps

-----------------------------------------------------------------------------
(* The first loop of m68k_abi(): selshift, selmul, seldiv.  A call of a    *)
(* library routine stands for its pushes, see M68kAbi.                     *)
IsPow2(x) == x.t = "con" /\ \E k \in 0..WordBits - 1 : x.v = 2 ^ k
Log2(x) == Con(CHOOSE k \in 0..WordBits - 1 : x.v = 2 ^ k)
Die == Ins("die", R, R, R)
Called(f, to, args) ==
  <<[op |-> "call", to |-> Tmp("ret"), arg |-> args, sym |-> f], Ins("copy", to, Tmp("ret"), R)>>

SelShift(i) ==
  IF i.arg[2].t = "con" /\ i.arg[2].v > MostShift - 1
  THEN <<Ins("copy", Tmp("imm"), i.arg[2], R), Ins(i.op, i.to, i.arg[1], Tmp("imm"))>>
  ELSE <<i>>

SelMul(i) ==
  IF IsPow2(i.arg[2]) THEN <<Ins("shl", i.to, i.arg[1], Log2(i.arg[2]))>>
  ELSE Called("mulu32", i.to, <<i.arg[2], i.arg[1]>>)

CompTimeDiv(i) == <<Ins("shr", i.to, Log2(i.arg[2]), i.arg[1])>>
SelDiv(i) ==
  LET routine == Called("divmodu32", i.to, i.arg \o <<Con(IF i.op = "udiv" THEN 1 ELSE 0)>>)
  IN CASE i.op \in {"div", "rem"} -> <<Die>>
       [] i.op = "udiv" /\ i.arg[2].t = "con" /\ i.arg[2].v >= 2 ^ WordBits - 1 -> <<Die>>
       [] i.op = "udiv" /\ IsPow2(i.arg[2]) -> CompTimeDiv(i)
       [] OTHER -> routine

Lowered(i) ==
  CASE i.op \in {"shr", "shl"} -> SelShift(i)
    [] i.op = "mul" -> SelMul(i)
    [] i.op \in Muls \ {"mul"} -> SelDiv(i)
    [] OTHER -> <<i>>

-----------------------------------------------------------------------------
(* m68k_isel(): sel(), with the temporary fixarg() makes for an address.   *)
FixArg(x, q) == IF x = Tmp("p") THEN Tmp(q) ELSE x
AddrOf(x, q) == IF x = Tmp("p") THEN <<Ins("addr", Tmp(q), Slot(0), R)>> ELSE <<>>
Temp(n) == <<"q1", "q2", "q3">>[n]
Fixed(i) ==
  FlattenSeq([n \in DOMAIN i.arg |-> AddrOf(i.arg[n], Temp(n))])
  \o <<[i EXCEPT !.arg = [n \in DOMAIN @ |-> FixArg(@[n], Temp(n))]]>>

SelCmp(i) ==
  (IF i.arg[2].t = "con"
   THEN <<Ins("copy", Tmp("imm"), i.arg[2], R), [i EXCEPT !.arg[2] = Tmp("imm")]>>
   ELSE <<i>>)
  \o <<Ins("and", i.to, i.to, Con(1))>>

(* salloc() (util.c); with a constant the class is l.                      *)
SAlloc(i) ==
  IF i.arg[1].t = "con" THEN <<Ins("sallocl", i.to, Con(16 * ((i.arg[1].v + 15) \div 16)), R)>>
  ELSE <<Ins("add", Tmp("q1"), i.arg[1], Con(15)), Ins("and", Tmp("q2"), Tmp("q1"), Con(2 ^ WordBits - 16)),
         Ins("salloc", i.to, Tmp("q2"), R)>>

Sel(i) ==
  CASE i.op = "alloc" -> SAlloc(i)
    [] i.op \in Cmps -> SelCmp(i)
    [] i.op \in Loads \cup {"storeb", "storeh"} -> <<i>>
    [] OTHER -> Fixed(i)

-----------------------------------------------------------------------------
(* The allocator: temporaries alive together have different registers.  It *)
(* may give any register to the result, also one of an argument that is    *)
(* not used again; a routine leaves its result in d0.                      *)
TempsOf(x) == IF x.t = "tmp" THEN {x.v} ELSE {}
Used(i) == UNION {TempsOf(i.arg[n]) : n \in DOMAIN i.arg}
TempsIn(c) == UNION {Used(c[n]) \cup TempsOf(c[n].to) : n \in DOMAIN c}
AliveAfter(c, k) ==
  LET live[n \in 0..Len(c)] ==
        IF n = 0 THEN k \cup TempsOf(Last(c).to)
        ELSE LET i == c[Len(c) + 1 - n] IN (live[n - 1] \ TempsOf(i.to)) \cup Used(i)
  IN live
Allocated(c, k, f) ==
  \A n \in 0..Len(c) :
    \A x, y \in AliveAfter(c, k)[n] : x # y => f[x] # f[y]

Placed(f, x) == IF x.t = "tmp" THEN Ref("reg", f[x.v]) ELSE x
InRegs(f, i) == [i EXCEPT !.to = Placed(f, @), !.arg = [n \in DOMAIN @ |-> Placed(f, @[n])]]

-----------------------------------------------------------------------------
(* emitf() writes registers, numbers and symbols, both as immediates, and  *)
(* dies of anything else; emitaddr() writes a symbol as the word there.    *)
Asm(m, sz, from, to) == [m |-> m, sz |-> sz, from |-> from, to |-> to]
Bad == Ref("bad", 0)
Ea(x) == CASE x.t = "reg" -> x [] x.t \in {"con", "sym"} -> Ref("imm", x.v) [] OTHER -> Bad
A0 == Ref("reg", "a0")
Fp == Ref("reg", "fp")
AtA0 == Ref("ind", "a0")
EmitAddr(x) == Ref("abs", x.v)
Failed(why) == <<Asm(why, "l", R, R)>>

(* slot(), for a frame of FnSlot slots, and Oaddr, which negates it.       *)
FnSlot == 3
SlotOff(s) == 8 - 4 * (FnSlot - s)
InFrame(x) == Ref("frame", SlotOff(x.v))

(* The comparison each Scc makes, for cmp's operands in their order.       *)
Scc(op) ==
  CASE op = "eq" -> "seq" [] op = "ne" -> "sne"
    [] op = "sge" -> "sle" [] op = "sgt" -> "slt" [] op = "sle" -> "sge" [] op = "slt" -> "sgt"
    [] op = "uge" -> "sls" [] op = "ugt" -> "slo" [] op = "ule" -> "shs" [] op = "ult" -> "shi"
Mnemonic(op) ==
  CASE op = "xor" -> "eor" [] op = "sar" -> "asr" [] op = "shr" -> "lsr" [] op = "shl" -> "lsl"
    [] OTHER -> op
Mode(op) ==
  CASE op \in {"add", "sub", "shr", "shl"} -> "+"
    [] op \in {"and", "or", "xor", "sar"} -> "-"
    [] op \in {"neg"} \cup Exts -> "*"
    [] OTHER -> ""

(* The entries of omap[], without the copy convins() makes.                *)
Table(i) ==
  LET x == Ea(i.arg[1]) y == Ea(i.arg[2]) to == Ea(i.to)
      Extend(signed, n) == IF signed THEN Asm("ext", "w", R, to) ELSE Asm("and", "w", Ref("imm", n), to)
      Byte == 2 ^ ByteBits - 1
  IN CASE Mode(i.op) \in {"+", "-"} -> <<Asm(Mnemonic(i.op), "l", y, to)>>
       [] i.op = "neg" -> <<Asm("neg", "l", R, to)>>
       [] i.op \in Exts ->
            <<Extend(i.op \in {"extsb", "extsh"}, IF i.op = "extub" THEN Byte ELSE 2 ^ HalfBits - 1)>>
       [] i.op \in Cmps -> <<Asm("cmp", "l", x, y), Asm(Scc(i.op), "b", R, to)>>
       [] i.op \in Stores ->
            <<Asm("move", "l", y, A0),
              Asm("move", CASE i.op = "storeb" -> "b" [] i.op = "storeh" -> "w" [] OTHER -> "l", x, AtA0)>>
       [] i.op \in {"loadsw", "loaduw", "load"} -> <<Asm("move", "l", AtA0, to)>>
       [] i.op \in Loads -> <<Asm("move", "b", AtA0, to), Extend(i.op \in {"loadsb", "loadsh"}, Byte)>>
       [] i.op = "copy" -> <<Asm("move", "l", x, to)>>
       [] i.op = "swap" -> <<Asm("exg", "l", x, y)>>
       [] i.op = "salloc" -> <<Asm("add", "w", x, Ref("reg", "sp"))>>
       [] OTHER -> Failed("no match")

(* Ocopy, and loadcon().                                                   *)
LoadCon(x, to) == <<Asm("move", "l", IF x.t = "sym" THEN EmitAddr(x) ELSE Ref("imm", x.v), to)>>
EmitCopy(to, x) ==
  CASE to = x -> <<>>
    [] to.t = "slot" ->
         IF x.t = "reg" THEN Table(Ins("storew", R, x, to)) ELSE Failed("unimplemented")
    [] x.t \in {"con", "sym"} -> LoadCon(x, to)
    [] x.t = "slot" -> Table(Ins("load", to, x, R))
    [] OTHER -> Table(Ins("copy", to, x, R))

(* convins(): three addresses become two.                                  *)
(* Bug: the result's register is overwritten before it is read.            *)
SwappedNever(i) == i
Swapped(i) == IF i.arg[2] = i.to THEN [i EXCEPT !.arg = <<@[2], @[1]>>] ELSE i
ConvIns(mode, i) ==
  IF mode = "*" THEN EmitCopy(i.to, i.arg[1]) \o Table(i)
  ELSE LET j == IF mode = "+" THEN Swapped(i) ELSE i
       IN IF j.arg[2] = j.to /\ j.arg[1] # j.to THEN Failed("assertion")
          ELSE EmitCopy(j.to, j.arg[1]) \o Table(j)

EmitLoad(i) ==
  CASE i.arg[1].t = "reg" -> <<Asm("move", "l", i.arg[1], A0)>> \o Table(i)
    [] i.arg[1].t = "sym" -> <<Asm("move", "l", EmitAddr(i.arg[1]), A0)>>
    [] i.arg[1].t = "slot" -> <<Asm("move", "l", InFrame(i.arg[1]), i.to)>>
    [] OTHER -> Failed("no match")

EmitIns(i) ==
  CASE i.op = "die" -> Failed("unimplemented")
    [] i.op = "call" -> <<[m |-> "call", sym |-> i.sym, arg |-> [n \in DOMAIN i.arg |-> Ea(i.arg[n])]]>>
    [] i.op = "copy" -> EmitCopy(i.to, i.arg[1])
    [] i.op = "addr" -> <<Asm("move", "l", Fp, i.to), Asm("add", "w", Ref("imm", -SlotOff(i.arg[1].v)), i.to)>>
    [] i.op \in Loads \cup {"load"} -> EmitLoad(i)
    [] Mode(i.op) # "" -> ConvIns(Mode(i.op), i)
    [] OTHER -> Table(i)

-----------------------------------------------------------------------------
(* m68k_emitfn(): the blocks in order, whether a label is written, and the *)
(* branches at the end; the argument of a jnz is in a data register.       *)
Blk == DOMAIN fn.jmp
NPred(b) == Cardinality({c \in Blk : b \in {fn.s1[c], fn.s2[c]}})
FallsInto(b) == IF fn.jmp[b] = "jnz" THEN b + 1 \in {fn.s1[b], fn.s2[b]} ELSE fn.jmp[b] = "jmp" /\ fn.s1[b] = b + 1
Labelled(b) == NPred(b) > 1 \/ (b > 1 /\ ~FallsInto(b - 1))
Bra(b, to) == IF to = b + 1 THEN <<>> ELSE <<[on |-> "always", to |-> to]>>
Branches(b) ==
  CASE fn.jmp[b] = "ret" -> <<[on |-> "always", to |-> 0]>>
    [] fn.jmp[b] = "jmp" -> Bra(b, fn.s1[b])
    [] fn.s2[b] = b + 1 -> <<[on |-> "ne", to |-> fn.s1[b]]>>
    [] OTHER -> <<[on |-> "eq", to |-> fn.s2[b]]>> \o Bra(b, fn.s1[b])

-----------------------------------------------------------------------------
Init(functions) ==
  /\ fn \in functions
  /\ stage = "abi"
  /\ code = [n \in DOMAIN fn.ins |-> <<fn.ins[n]>>]
  /\ asm = <<>> /\ reg = <<>> /\ keep = {}

Each(Op(_), c) == [n \in DOMAIN c |-> FlattenSeq([k \in DOMAIN c[n] |-> Op(c[n][k])])]

Lower ==
  /\ stage = "abi" /\ stage' = "isel"
  /\ code' = Each(Lowered, code)
  /\ UNCHANGED <<fn, asm, reg, keep>>

Select ==
  /\ stage = "isel" /\ stage' = "rega"
  /\ code' = Each(Sel, code)
  /\ UNCHANGED <<fn, asm, reg, keep>>

Allocate ==
  /\ stage = "rega" /\ stage' = "emit"
  /\ LET temps == UNION {TempsIn(code[n]) : n \in DOMAIN code}
     IN keep' \in SUBSET (temps \cap {"a", "b"}) /\ reg' \in [temps -> DReg \cup AReg]
  /\ "ret" \in DOMAIN reg' => reg'["ret"] = "d0"
  /\ \A n \in DOMAIN code : Allocated(code[n], keep', reg')
  /\ code' = [n \in DOMAIN code |-> [k \in DOMAIN code[n] |-> InRegs(reg', code[n][k])]]
  /\ UNCHANGED <<fn, asm>>

Emit ==
  /\ stage = "emit" /\ stage' = "done"
  /\ asm' = Each(EmitIns, code)
  /\ UNCHANGED <<fn, code, reg, keep>>

Next == Lower \/ Select \/ Allocate \/ Emit

-----------------------------------------------------------------------------
(* The 68000: which of the instructions exist, and what they do.  A move   *)
(* or an addition to an address register sets all of it; shifts take the   *)
(* count modulo twice the word; Scc sets a byte.                           *)
Size(sz) == CASE sz = "b" -> ByteBits [] sz = "w" -> HalfBits [] sz = "l" -> WordBits
IsD(x) == x.t = "reg" /\ x.v \in DReg
IsA(x) == x.t = "reg" /\ x.v \notin DReg
IsImm(x, vs) == x.t = "imm" /\ x.v \in vs
Sccs == {Scc(op) : op \in Cmps}

Exists(a) ==
  CASE a.m = "call" -> Bad \notin Range(a.arg)
    [] a.m = "move" -> Bad \notin {a.from, a.to} /\ (a.sz = "b" => ~IsA(a.from) /\ ~IsA(a.to))
    [] a.m \in {"add", "sub", "cmp"} -> a.from # Bad /\ a.to.t = "reg"
    [] a.m = "exg" -> a.from.t = "reg" /\ a.to.t = "reg"
    [] a.m \in {"and", "or"} -> IsD(a.to) /\ a.from # Bad /\ ~IsA(a.from)
    [] a.m = "eor" -> IsD(a.to) /\ (IsD(a.from) \/ a.from.t = "imm")
    [] a.m \in {"asr", "lsr", "lsl"} -> IsD(a.to) /\ (IsD(a.from) \/ IsImm(a.from, 1..MostShift))
    [] a.m \in {"neg", "ext"} \cup Sccs -> IsD(a.to)
    [] OTHER -> FALSE

Bytes(n) == n \div ByteBits
Fetch(mem, p, n) ==
  FoldLeft(LAMBDA x, k : x * 2 ^ ByteBits + mem[U(WordBits, p + k - 1)], 0, [k \in 1..Bytes(n) |-> k])
Stored(mem, p, n, x) ==
  [q \in DOMAIN mem |->
     LET k == U(WordBits, q - p)
     IN IF k < Bytes(n) THEN U(ByteBits, x \div 2 ^ (ByteBits * (Bytes(n) - 1 - k))) ELSE mem[q]]

Where(m, x) ==
  CASE x.t = "abs" -> x.v [] x.t = "ind" -> m.reg[x.v] [] x.t = "frame" -> m.reg["fp"] + x.v
Get(m, x, n) ==
  CASE x.t = "reg" -> U(n, m.reg[x.v]) [] x.t = "imm" -> U(n, x.v) [] x.t = "none" -> 0
    [] OTHER -> Fetch(m.mem, Where(m, x), n)
Put(m, x, n, y) ==
  CASE IsD(x) -> [m EXCEPT !.reg[x.v] = @ - U(n, @) + U(n, y)]
    [] IsA(x) -> [m EXCEPT !.reg[x.v] = U(WordBits, S(n, y))]
    [] OTHER -> [m EXCEPT !.mem = Stored(@, Where(m, x), n, y)]

Holds(cc, x, y) ==
  LET s == S(WordBits, x) t == S(WordBits, y)
  IN CASE cc = "seq" -> y = x [] cc = "sne" -> y # x
       [] cc = "sle" -> t <= s [] cc = "slt" -> t < s [] cc = "sge" -> t >= s [] cc = "sgt" -> t > s
       [] cc = "sls" -> y <= x [] cc = "slo" -> y < x [] cc = "shs" -> y >= x [] cc = "shi" -> y > x

(* The routines the user must provide (m68k/abi.c:558-569).                *)
Routine(f, v) ==
  CASE f = "mulu32" -> U(WordBits, v[1] * v[2])
    [] f = "divmodu32" -> IF v[3] = 1 THEN v[1] \div v[2] ELSE v[1] % v[2]

Exec(m, a) ==
  IF a.m = "call"
  THEN [m EXCEPT !.reg["d0"] = Routine(a.sym, [n \in DOMAIN a.arg |-> Get(m, a.arg[n], WordBits)])]
  ELSE
  LET n == IF IsA(a.to) THEN WordBits ELSE Size(a.sz)
      x == IF IsA(a.to) THEN U(WordBits, S(Size(a.sz), Get(m, a.from, Size(a.sz)))) ELSE Get(m, a.from, n)
      y == Get(m, a.to, n)
      by == x % (2 * WordBits)
      Set(z) == Put(m, a.to, n, z)
  IN CASE a.m = "move" -> Set(x)
       [] a.m = "add" -> Set(y + x) [] a.m = "sub" -> Set(y - x) [] a.m = "neg" -> Set(-y)
       [] a.m = "and" -> Set(y & x) [] a.m = "or" -> Set(y | x) [] a.m = "eor" -> Set(y ^^ x)
       [] a.m = "asr" -> Set(S(n, y) \div 2 ^ by) [] a.m = "lsr" -> Set(y \div 2 ^ by)
       [] a.m = "lsl" -> Set(y * 2 ^ by)
       [] a.m = "ext" -> Set(S(ByteBits, y))
       [] a.m = "exg" -> Put(Put(m, a.to, n, x), a.from, n, y)
       [] a.m = "cmp" -> [m EXCEPT !.cmp = <<x, y>>]
       [] a.m \in Sccs -> Set(IF Holds(a.m, m.cmp[1], m.cmp[2]) THEN 2 ^ ByteBits - 1 ELSE 0)

-----------------------------------------------------------------------------
(* What doc/il.txt says of an instruction, for the machine m0 before it    *)
(* and m1 after it.                                                        *)
Doc == INSTANCE FoldInt WITH
  LongBits <- 2 * WordBits, Operands <- {}, Placements <- {}, expr <- [op |-> "none"], res <- R

SomeMemory == [p \in 0..2 ^ WordBits - 1 |-> (3 * p + p \div 5) % 2 ^ ByteBits]
Before(x, y) ==
  [reg |-> [r \in DReg \cup AReg \cup {"a0", "fp", "sp"} |->
              CASE r = "fp" -> 30 [] r = "sp" -> 200
                [] "a" \in DOMAIN reg /\ reg["a"] = r -> x
                [] "b" \in DOMAIN reg /\ reg["b"] = r -> y
                [] OTHER -> 77],
   mem |-> SomeMemory,
   cmp |-> <<0, 0>>]

Value(m, x) ==
  CASE x = Tmp("p") -> U(WordBits, m.reg["fp"] - SlotOff(0))
    [] x.t = "tmp" -> m.reg[reg[x.v]]
    [] x.t = "slot" -> U(WordBits, m.reg["fp"] + SlotOff(x.v))
    [] x.t = "none" -> 0
    [] OTHER -> x.v

Loaded(op, m, p) ==
  CASE op = "loadsb" -> U(WordBits, S(ByteBits, Fetch(m.mem, p, ByteBits)))
    [] op = "loadub" -> Fetch(m.mem, p, ByteBits)
    [] op = "loadsh" -> U(WordBits, S(HalfBits, Fetch(m.mem, p, HalfBits)))
    [] op = "loaduh" -> Fetch(m.mem, p, HalfBits)
    [] OTHER -> Fetch(m.mem, p, WordBits)

Width(op) == CASE op = "storeb" -> ByteBits [] op = "storeh" -> HalfBits [] OTHER -> WordBits

Defined(i, m) ==
  /\ i.op \in Shifts => Value(m, i.arg[2]) < WordBits
  /\ i.op \in Muls \ {"mul"} => Value(m, i.arg[2]) # 0

Meant(i, m0, m1) ==
  LET x == Value(m0, i.arg[1]) y == Value(m0, i.arg[2])
      Result(z) == m1.reg[reg[i.to.v]] = z /\ m1.mem = m0.mem
      Contents(v) == IF i.arg[1].t = "slot" THEN Fetch(m0.mem, v, WordBits) ELSE v
  IN /\ \A t \in keep : i.op # "swap" => m1.reg[reg[t]] = m0.reg[reg[t]]
     /\ m1.reg["fp"] = m0.reg["fp"] /\ (i.op # "alloc" => m1.reg["sp"] = m0.reg["sp"])
     /\ CASE i.op \in Arith ->
               Doc!Means([op |-> i.op, k |-> "w", of |-> "w"], m1.reg[reg[i.to.v]], x, y) /\ m1.mem = m0.mem
          [] i.op \in Loads \cup {"load"} -> Result(Loaded(i.op, m0, x))
          [] i.op \in Stores -> m1.mem = Stored(m0.mem, y, Width(i.op), x)
          [] i.op = "copy" /\ i.to.t = "slot" -> m1.mem = Stored(m0.mem, Value(m0, i.to), WordBits, Contents(x))
          [] i.op = "copy" -> Result(Contents(x))
          [] i.op = "swap" -> m1.reg[reg["a"]] = y /\ m1.reg[reg["b"]] = x /\ m1.mem = m0.mem
          [] i.op = "alloc" -> Result(m1.reg["sp"]) /\ m1.reg["sp"] + x <= m0.reg["sp"]

Refused(c) == \E n \in DOMAIN c : c[n].m = "unimplemented"
Undefined(n) == "p" \in DOMAIN reg /\ \E k \in DOMAIN code[n] : Ref("reg", reg["p"]) \in Range(code[n][k].arg)
Held(t) == IF t \in DOMAIN reg THEN Patterns ELSE {0}

(* An instruction is refused as not implemented, or what is written for it *)
(* exists and does what doc/il.txt says, whatever its arguments hold; it   *)
(* spares the arguments that are used again, and reads what was defined.   *)
InsRight(n) ==
  \/ Refused(asm[n])
  \/ /\ ~Undefined(n)
     /\ \A k \in DOMAIN asm[n] : Exists(asm[n][k])
     /\ \A x \in Held("a"), y \in Held("b") :
          LET m == Before(x, y)
          IN Defined(fn.ins[n], m) => Meant(fn.ins[n], m, FoldLeft(Exec, m, asm[n]))

(* tst without a size tests a halfword.                                    *)
Taken(br, v) ==
  CASE br.on = "always" -> TRUE [] br.on = "eq" -> U(HalfBits, v) = 0 [] br.on = "ne" -> U(HalfBits, v) # 0
GoesTo(b, v) ==
  LET on == SelectSeq(Branches(b), LAMBDA br : Taken(br, v))
  IN IF on = <<>> THEN b + 1 ELSE on[1].to
Successor(b, v) ==
  CASE fn.jmp[b] = "ret" -> 0 [] fn.jmp[b] = "jmp" -> fn.s1[b]
    [] fn.jmp[b] = "jnz" -> IF v # 0 THEN fn.s1[b] ELSE fn.s2[b]

(* Control goes where the block's jump says, and each branch to a label    *)
(* that is written.                                                        *)
JumpRight(b, v) ==
  /\ GoesTo(b, v) = Successor(b, v)
  /\ \A k \in DOMAIN Branches(b) : Branches(b)[k].to \in {c \in Blk : Labelled(c)} \cup {0}

(* The processor has no such instruction: only moves, additions and        *)
(* subtractions reach address registers, shifts count from 1 to MostShift, *)
(* the operand cmp subtracts from is a register.                           *)
Clash(i) == i.arg[2] = i.to /\ i.arg[1] # i.to
Source(i) == IF Clash(i) \/ i.op = "storeb" THEN i.arg[1] ELSE i.arg[2]
Lacking(i) ==
  \/ i.op \in {"and", "or", "xor", "neg"} \cup Shifts \cup Cmps /\ IsA(i.to)
  \/ i.op \in {"and", "or", "xor", "storeb"} \cup Shifts /\ IsA(Source(i))
  \/ i.op \in Shifts /\ Source(i).t = "con" /\ Source(i).v \notin 1..MostShift
  \/ i.op \in Cmps /\ i.arg[2].t = "sym"

(* Where the port is not finished: extensions, of registers and of what is *)
(* loaded, set a halfword; there is no alloca; what is written for the     *)
(* address of a symbol reads memory; slots are read through a0, and not    *)
(* written at all; the address of a local loses a carry in a data register.*)
(* Then two addresses: a subtraction or shift whose second argument shares *)
(* the register of the result is turned around, which is right only for    *)
(* the quotients seldiv() turned around before; other operations fail an   *)
(* assertion.                                                              *)
Mistaken(i, reversed) ==
  \/ i.op \in Exts \cup (Loads \ {"loadsw", "loaduw"}) \cup {"salloc", "sallocl"}
  \/ i.op \in {"copy", "loadsw", "loaduw"} /\ i.arg[1].t = "sym"
  \/ Mode(i.op) # "" /\ i.arg[1].t = "sym" /\ ~Clash(i)
  \/ i.op = "copy" /\ "slot" \in {i.to.t, i.arg[1].t}
  \/ i.op = "addr" /\ IsD(i.to)
  \/ i.op \in {"sub", "shr", "shl"} /\ Clash(i) # reversed
  \/ Mode(i.op) = "-" /\ Clash(i)
Known(n) ==
  \/ Undefined(n)
  \/ \E k \in DOMAIN code[n] : Lacking(code[n][k]) \/ Mistaken(code[n][k], fn.ins[n].op = "udiv")

(* What is written for an instruction or a jump is right unless the list   *)
(* above has it, and wrong if it has.                                      *)
CodeRight ==
  stage = "done" =>
    /\ \A n \in DOMAIN fn.ins : InsRight(n) = (Refused(asm[n]) \/ ~Known(n))
    /\ \A b \in Blk, v \in Patterns :
         JumpRight(b, v) = ~(fn.jmp[b] = "jnz" /\ v # 0 /\ U(HalfBits, v) = 0)

(* The code is as doc/il.txt says.                                         *)
AsDocumented ==
  stage = "done" =>
    /\ \A n \in DOMAIN fn.ins : InsRight(n)
    /\ \A b \in Blk, v \in Patterns : JumpRight(b, v)
=============================================================================
