------------------------------ MODULE Rv64Abi -------------------------------
(***************************************************************************)
(* rv64/abi.c: how calls, parameters, returns and variadic arguments are   *)
(* lowered for RISC-V, and the part of rv64/emit.c that lays out what is   *)
(* above the frame pointer.                                                *)
(***************************************************************************)
EXTENDS AbiTypes

T5 == 6
A0 == 7
SP == 27
FA0 == 50
Gp(n) == A0 + n
Fp(n) == FA0 + n

(* What argsclass() knows of an argument.  parts is one entry for each     *)
(* register wide piece: its class, its offset in the aggregate and, for    *)
(* the first nreg of them, its register.                                   *)
NoClass == [ptr |-> FALSE, stk1 |-> FALSE, stk2 |-> FALSE, fpint |-> FALSE,
            typ |-> NewTyp(0), parts |-> <<>>, nreg |-> 0]
PartClass(f) == CASE f.type \in {"b", "h", "w"} -> Kw [] f.type = "l" -> Kl
                  [] f.type = "s" -> Ks [] f.type = "d" -> Kd
Count(parts, base) == Cardinality({n \in DOMAIN parts : KBASE(parts[n].k) = base})
Ngp(c) == Count(c.parts, 0)
Nfp(c) == Count(c.parts, 1)

(* fpstruct(): the scalars of a structure, none when it is a union or has  *)
(* more than two; what follows a nested type keeps the offset of the type. *)
Failed == <<[k |-> Kx, off |-> -1]>>
RECURSIVE FpStruct(_, _, _)
FpStruct(t, at, parts) ==
  IF t.isunion THEN Failed
  ELSE FoldLeft(LAMBDA s, f :
         CASE s.parts = Failed -> s
           [] f.type = "FPad" -> [s EXCEPT !.off = @ + f.len]
           [] f.type = "FTyp" -> [s EXCEPT !.parts = FpStruct(f.typ, s.off, @)]
           [] OTHER -> IF Len(s.parts) = 2 THEN [s EXCEPT !.parts = Failed]
                       ELSE [off |-> s.off + f.len,
                             parts |-> Append(s.parts, [k |-> PartClass(f), off |-> s.off])],
         [off |-> at, parts |-> parts], t.fields[1]).parts

(* Registers for the pieces, in order, from the next free ones.            *)
WithRegs(parts, gp, fp) ==
  [n \in DOMAIN parts |->
     [k |-> parts[n].k, off |-> parts[n].off,
      reg |-> IF KBASE(parts[n].k) = 0 THEN Gp(gp + Count(SubSeq(parts, 1, n - 1), 0))
                                       ELSE Fp(fp + Count(SubSeq(parts, 1, n - 1), 1))]]
IntParts(size) == [n \in 1 .. RoundUp(size, 8) \div 8 |-> [k |-> Kl, off |-> 8 * (n - 1)]]

IsPtr(t) == t.isdark \/ t.size > 16 \/ t.size = 0
PartsOf(t, fpabi, f) ==
  IF IsPtr(t) THEN IntParts(8)
  ELSE IF fpabi /\ f # Failed /\ Count(f, 1) > 0 THEN f ELSE IntParts(t.size)
WithParts(t, parts, gp, fp) ==
  [NoClass EXCEPT !.ptr = IsPtr(t), !.typ = t, !.parts = WithRegs(parts, gp, fp),
                  !.nreg = Len(parts)]
TypClass(t, fpabi, gp, fp) == WithParts(t, PartsOf(t, fpabi, FpStruct(t, 0, <<>>)), gp, fp)

(* argsclass() goes through the arguments with the number of registers     *)
(* already given.                                                          *)
Scanned(retptr) == [gp |-> IF retptr THEN 1 ELSE 0, fp |-> 0, vararg |-> FALSE,
                    env |-> FALSE, ca |-> <<>>, ok |-> TRUE]
OnePart(k, reg) == <<[k |-> k, off |-> 0, reg |-> reg]>>

ClassScalar(s, k) ==
  IF ~s.vararg /\ KBASE(k) = 1 /\ s.fp < 8 THEN
    [s EXCEPT !.fp = @ + 1,
              !.ca = Append(@, [NoClass EXCEPT !.parts = OnePart(k, Fp(s.fp)), !.nreg = 1])]
  ELSE IF s.gp < 8 THEN
    [s EXCEPT !.gp = @ + 1,
              !.ca = Append(@, [NoClass EXCEPT !.parts = OnePart(k, Gp(s.gp)), !.nreg = 1,
                                               !.fpint = KBASE(k) = 1])]
  ELSE [s EXCEPT !.ca = Append(@, [NoClass EXCEPT !.parts = OnePart(k, R), !.stk1 = TRUE])]

(* An aggregate with floating point members goes to the integer registers  *)
(* when either kind would be used up; one of two words may be split        *)
(* between the last register and the stack.                                *)
InFloats(s, c) == Nfp(c) = 0 \/ (Nfp(c) < 8 - s.fp /\ Ngp(c) < 8 - s.gp)
AggregateClass(s, t, c) == IF InFloats(s, c) THEN c ELSE TypClass(t, FALSE, s.gp, s.fp)
GiveAggregate(s, c, ngp, nfp) ==
  IF ngp <= 8 - s.gp THEN [s EXCEPT !.gp = @ + ngp, !.fp = @ + nfp, !.ca = Append(@, c)]
  ELSE IF s.gp < 8 THEN
    [s EXCEPT !.gp = @ + 1, !.ca = Append(@, [c EXCEPT !.stk2 = TRUE, !.nreg = 1]),
              !.ok = @ /\ ngp = 2 /\ ~c.ptr]
  ELSE [s EXCEPT !.ca = Append(@, [c EXCEPT !.stk1 = TRUE, !.stk2 = c.nreg > 1, !.nreg = 0])]
Give(s, c) == GiveAggregate(s, c, Ngp(c), Nfp(c))
ClassAggregate(s, t) == Give(s, AggregateClass(s, t, TypClass(t, TRUE, s.gp, s.fp)))

ArgsClass(args, retptr) ==
  FoldLeft(LAMBDA s, a :
    CASE a.op = "arg" -> ClassScalar(s, a.k)
      [] a.op = "argv" -> [s EXCEPT !.vararg = TRUE, !.ca = Append(@, NoClass)]
      [] a.op = "argc" -> ClassAggregate(s, a.typ)
      [] a.op = "arge" -> [s EXCEPT !.env = TRUE,
           !.ca = Append(@, [NoClass EXCEPT !.parts = OnePart(Kl, T5), !.nreg = 1])],
    Scanned(retptr), args)

(* The second argument of a call is what argregs() and retregs() read.     *)
ArgCall(s) == [gp |-> s.gp, fp |-> s.fp, env |-> s.env]
RetCall(c) == [gp |-> Ngp(c), fp |-> Nfp(c)]
RetRegs(r) == {Gp(n) : n \in 0 .. r.gp - 1} \cup {Fp(n) : n \in 0 .. r.fp - 1}
ArgRegs(r) == {Gp(n) : n \in 0 .. r.gp - 1} \cup {Fp(n) : n \in 0 .. r.fp - 1}
              \cup (IF r.env THEN {T5} ELSE {})

(* sttmps(), ldregs() and stkblob().                                       *)
StTmps(c, tmps, mem) ==
  Emitted([n \in DOMAIN tmps |-> Store(c.parts[n].k, tmps[n], mem, c.parts[n].off)])
LdRegs(c, mem) ==
  Emitted([n \in 1 .. c.nreg |-> Load(c.parts[n].k, c.parts[n].reg, mem, c.parts[n].off)])
StkBlob(to, t) == Alloc(to, IF t.align > 2 THEN t.align - 2 ELSE 0, RoundUp(t.size, 8))

RetClass(ret) == IF ret.op = "argc" THEN TypClass(ret.typ, TRUE, 0, 0)
                 ELSE [NoClass EXCEPT !.parts = OnePart(ret.k, IF KBASE(ret.k) = 0 THEN A0 ELSE FA0)]

(* selret(): the result goes to its registers, or through the pointer the  *)
(* caller passed.                                                          *)
RetCode(ret, arg, cr) ==
  IF ret.op = "argc" /\ cr.ptr
  THEN [code |-> Blit(RetTmp, 0, arg, 0, ret.typ.size), regs |-> {}]
  ELSE [code |-> IF ret.op = "argc" THEN LdRegs(cr, arg) ELSE Copy(ret.k, cr.parts[1].reg, arg),
        regs |-> RetRegs(RetCall(cr))]
SelRet(ret, arg) == RetCode(ret, arg, RetClass(ret))
-----------------------------------------------------------------------------
(* selcall().  An aggregate that became a pointer is copied to a blob      *)
(* allocated at the start of the function; from there on it is a scalar.   *)
RetPtr(ret) == ret.op = "argc" /\ RetClass(ret).ptr
Words(c) == (IF c.stk1 THEN 1 ELSE 0) + (IF c.stk2 THEN 1 ELSE 0)
SumWords(ca, n) == FoldLeft(LAMBDA s, c : s + Words(c), 0, SubSeq(ca, 1, n))
IsBlob(a, c) == a.op = "argc" /\ ~c.ptr
ArgVal(c, i) == IF c.ptr THEN BlobTmp(i) ELSE ArgTmp(i)

Blobs(ca) ==
  FlattenSeq([i \in DOMAIN ca |-> IF ca[i].ptr THEN StkBlob(BlobTmp(i), ca[i].typ) ELSE <<>>])
MoveArg(a, c, i) ==
  IF a.op = "argv" \/ c.stk1 THEN <<>>
  ELSE IF IsBlob(a, c) THEN LdRegs(c, ArgTmp(i))
  ELSE IF c.fpint THEN Copy(IF KWIDE(a.k) THEN Kl ELSE Kw, c.parts[1].reg, PartTmp(i, 0))
  ELSE Copy(c.parts[1].k, c.parts[1].reg, ArgVal(c, i))
PrepareArg(a, c, i) ==
  (IF c.ptr THEN Blit(BlobTmp(i), 0, ArgTmp(i), 0, c.typ.size) ELSE <<>>)
  \o (IF c.fpint THEN Copy(IF KWIDE(a.k) THEN Kl ELSE Kw, PartTmp(i, 0), ArgTmp(i)) ELSE <<>>)
StackArg(a, c, i, at) ==
  IF a.op = "argv" \/ Words(c) = 0 THEN <<>>
  ELSE IF ~IsBlob(a, c) THEN
    IF a.k = Kw THEN Copy(Kw, PartTmp(i, 1), ArgVal(c, i)) \o Store(Kl, PartTmp(i, 1), NewTmp(0), at)
    ELSE Store(a.k, ArgVal(c, i), NewTmp(0), at)
  ELSE (IF c.stk2 THEN Blit(NewTmp(0), at + (IF c.stk1 THEN 8 ELSE 0), ArgTmp(i), 8, 8) ELSE <<>>)
       \o (IF c.stk1 THEN Blit(NewTmp(0), at, ArgTmp(i), 0, 8) ELSE <<>>)

(* The code before the call, the code after it, the allocations at the     *)
(* start of the function, and what the call says of registers.             *)
TakeResult(ret, cr, tmps) ==
  IF ret.op # "argc" THEN Copy(ret.k, ResTmp, cr.parts[1].reg)
  ELSE IF cr.ptr THEN Copy(Kw, R, A0)
  ELSE Emitted([j \in DOMAIN tmps |-> Copy(cr.parts[j].k, tmps[j], cr.parts[j].reg)])
       \o StTmps(cr, tmps, ResTmp)
Area(to, n) == IF n # 0 THEN Salloc(to, n) ELSE <<>>
CallCode(args, ret, s, ca, cr, stk) ==
  [ok |-> s.ok,
   before |-> Area(NewTmp(0), stk)
     \o Emitted([i \in DOMAIN args |-> StackArg(args[i], ca[i], i, 8 * SumWords(ca, i - 1))])
     \o Emitted([i \in DOMAIN args |-> PrepareArg(args[i], ca[i], i)])
     \o Emitted([i \in DOMAIN args |-> MoveArg(args[i], ca[i], i)])
     \o (IF cr.ptr THEN Copy(Kl, A0, ResTmp) ELSE <<>>),
   after |-> TakeResult(ret, cr, [j \in 1 .. cr.nreg |-> NewTmp(j)]) \o Area(R, -stk),
   start |-> Blobs(ca) \o (IF ret.op = "argc" THEN StkBlob(ResTmp, ret.typ) ELSE <<>>),
   args |-> ArgRegs(ArgCall(s)), rets |-> RetRegs(RetCall(cr))]
CallOf(args, ret, s, cr) ==
  CallCode(args, ret, s, s.ca, cr, RoundUp(8 * SumWords(s.ca, Len(args)), 16))
SelCall(args, ret) == CallOf(args, ret, ArgsClass(args, RetPtr(ret)), RetClass(ret))

(* selpar().  An aggregate on the stack stays where it is: its temporary   *)
(* is the slot.                                                            *)
ParParts(c) == IF c.stk2 THEN [c.parts EXCEPT ![2] = [k |-> Kl, off |-> 8, reg |-> R]] ELSE c.parts
LoadPar(a, c, i, s) ==
  IF IsBlob(a, c) THEN
    IF c.nreg = 0 THEN Addr(ParTmp(i), SLOT(-s))
    ELSE (IF c.stk2 THEN Load(Kl, PartTmp(i, 2), SLOT(-s), 0) ELSE <<>>)
         \o Emitted([j \in 1 .. c.nreg |-> Copy(c.parts[j].k, PartTmp(i, j), c.parts[j].reg)])
  ELSE IF c.stk1 THEN Load(c.parts[1].k, ParTmp(i), SLOT(-s), 0)
  ELSE Copy(IF ~c.fpint THEN c.parts[1].k ELSE IF KWIDE(a.k) THEN Kl ELSE Kw,
            IF c.fpint THEN PartTmp(i, 0) ELSE ParTmp(i), c.parts[1].reg)
StorePar(a, c, i) ==
  IF c.fpint THEN Copy(a.k, ParTmp(i), PartTmp(i, 0))
  ELSE IF IsBlob(a, c) /\ c.nreg # 0
  THEN StkBlob(ParTmp(i), c.typ)
       \o StTmps([c EXCEPT !.parts = ParParts(c)], [j \in DOMAIN c.parts |-> PartTmp(i, j)], ParTmp(i))
  ELSE <<>>

ParCode(pars, retptr, s, ca, s0) ==
  [ok |-> s.ok,
   code |-> Emitted([i \in DOMAIN pars |-> LoadPar(pars[i], ca[i], i, s0 + SumWords(ca, i - 1))])
            \o Emitted([i \in DOMAIN pars |-> StorePar(pars[i], ca[i], i)])
            \o (IF retptr THEN Copy(Kl, RetTmp, A0) ELSE <<>>),
   reg |-> ArgRegs(ArgCall(s)),
   stk |-> s0 + SumWords(ca, Len(pars)), gp |-> s.gp, fp |-> s.fp]
ParOf(pars, retptr, s, s0) == ParCode(pars, retptr, s, s.ca, s0)
SelParAt(pars, retptr, s0) == ParOf(pars, retptr, ArgsClass(pars, retptr), s0)
SelPar(pars, ret, vararg) == SelParAt(pars, RetPtr(ret), 2 + (IF vararg THEN 8 ELSE 0))

(* selvastart() and selvaarg(): the registers saved by the prologue and    *)
(* the stack arguments above them are one array.                           *)
SelVaStartRegs(p) == Addr(NewTmp(0), SLOT(-(2 + p.gp))) \o Store(Kl, NewTmp(0), ApTmp, 0)
SelVaStart(p) ==
  Addr(NewTmp(0), SLOT(-(IF p.stk > 10 THEN p.stk ELSE 2 + p.gp))) \o Store(Kl, NewTmp(0), ApTmp, 0)
VaArg(st, k) ==
  Run(st, Load(Kl, NewTmp(1), ApTmp, 0) \o Load(k, VaTmp, NewTmp(1), 0)
          \o Add(NewTmp(2), NewTmp(1), 8) \o Store(Kl, NewTmp(2), ApTmp, 0))

(* The prologue, emit.c: a variadic function saves its argument registers  *)
(* above the return address.                                               *)
SlotAddr(fp, s) == fp + 8 * s
Prologue(st, vararg) ==
  LET st1 == IF vararg
             THEN Run([st EXCEPT !.sp = @ - 64],
                      FlattenSeq([n \in 1 .. 8 |-> Store(Kl, Gp(n - 1), st.spreg, 8 * (n - 1))]))
             ELSE st
      fp == st1.sp - 16
  IN  [st1 EXCEPT !.sp = fp - 64, !.slot = [s \in 1 .. 40 |-> SlotAddr(fp, s)]]
=============================================================================
