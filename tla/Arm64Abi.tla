------------------------------ MODULE Arm64Abi ------------------------------
(***************************************************************************)
(* arm64/abi.c: calls, parameters, returns and variadic arguments for the  *)
(* 64-bit ARM convention, and the prologue of arm64/emit.c.                *)
(***************************************************************************)
EXTENDS AbiTypes

R0 == 1
R8 == 9
R9 == 10
IP0 == 17
SP == 32
V0 == 33
Gp(n) == R0 + n
Fp(n) == V0 + n

(* isfloatv(): are all members, of every body and through nested types,    *)
(* floats of one class?                                                    *)
NotFloat == -2
RECURSIVE FloatClass(_, _)
FloatClass(t, cls) ==
  FoldLeft(LAMBDA c, f :
    CASE c = NotFloat -> c
      [] f.type = "s" -> IF c = Kd THEN NotFloat ELSE Ks
      [] f.type = "d" -> IF c = Ks THEN NotFloat ELSE Kd
      [] f.type = "FTyp" -> FloatClass(f.typ, c)
      [] OTHER -> NotFloat,
    cls, FlattenSeq(t.fields))

(* typclass(): the registers an aggregate would have from gp and fp on.    *)
NoClass == [ptr |-> FALSE, stk |-> FALSE, typ |-> NewTyp(0), size |-> 8, ngp |-> 0, nfp |-> 0,
            cls |-> <<>>, reg |-> <<>>]
InFloats(c, n, fp, base) == [c EXCEPT !.nfp = n, !.reg = [j \in 1 .. n |-> Fp(fp + j - 1)],
                                      !.cls = [j \in 1 .. n |-> base]]
InWords(c, n, gp) == [c EXCEPT !.ngp = n, !.reg = [j \in 1 .. n |-> Gp(gp + j - 1)],
                               !.cls = [j \in 1 .. n |-> Kl]]
AsPointer(c, gp) == [InWords(c, 1, gp) EXCEPT !.ptr = TRUE, !.size = 8]
ClassOf(t, gp, fp, c, base) ==
  IF t.isdark \/ c.size > 16 \/ c.size = 0 THEN AsPointer(c, gp)
  ELSE IF base # NotFloat THEN InFloats(c, t.size \div Width(base), fp, base)
  ELSE InWords(c, c.size \div 8, gp)
TypClass(t, gp, fp) ==
  ClassOf(t, gp, fp, [NoClass EXCEPT !.typ = t, !.size = RoundUp(t.size, 8)], FloatClass(t, Kx))

(* argsclass(): gp and fp registers are given, ngp and nfp left; a kind    *)
(* that once was too short is closed.                                      *)
Give(s, c) == [s EXCEPT !.ngp = @ - c.ngp, !.nfp = @ - c.nfp, !.gp = @ + c.ngp,
                        !.fp = @ + c.nfp, !.ca = Append(@, c)]
ClassScalar(s, k) ==
  LET c == [NoClass EXCEPT !.cls = <<k>>, !.reg = <<R>>]
  IN  IF KBASE(k) = 0 /\ s.ngp > 0 THEN Give(s, [c EXCEPT !.reg = <<Gp(s.gp)>>, !.ngp = 1])
      ELSE IF KBASE(k) = 1 /\ s.nfp > 0 THEN Give(s, [c EXCEPT !.reg = <<Fp(s.fp)>>, !.nfp = 1])
      ELSE [s EXCEPT !.ca = Append(@, [c EXCEPT !.stk = TRUE])]
GiveAggregate(s, c, stk) ==
  IF c.ngp > s.ngp THEN [stk EXCEPT !.ngp = 0]
  ELSE IF c.nfp > s.nfp THEN [stk EXCEPT !.nfp = 0]
  ELSE Give(s, c)
GiveClass(s, c) == GiveAggregate(s, c, [s EXCEPT !.ca = Append(@, [c EXCEPT !.stk = TRUE])])
ClassAggregate(s, t) == GiveClass(s, TypClass(t, s.gp, s.fp))
ArgsClass(args) ==
  FoldLeft(LAMBDA s, a :
    CASE a.op = "arg" -> ClassScalar(s, a.k)
      [] a.op = "argc" -> ClassAggregate(s, a.typ)
      [] a.op = "arge" -> [s EXCEPT !.env = TRUE,
           !.ca = Append(@, [NoClass EXCEPT !.reg = <<R9>>, !.cls = <<Kl>>])]
      [] a.op = "argv" -> [s EXCEPT !.ca = Append(@, NoClass)],
    [gp |-> 0, fp |-> 0, ngp |-> 8, nfp |-> 8, env |-> FALSE, ca |-> <<>>], args)

RetRegs(c) == {Gp(n) : n \in 0 .. c.ngp - 1} \cup {Fp(n) : n \in 0 .. c.nfp - 1}
ArgRegsNoX8(s, x8) == {Gp(n) : n \in 0 .. s.gp - 1} \cup {Fp(n) : n \in 0 .. s.fp - 1}
                      \cup {r \in {R9} : s.env}
ArgRegs(s, x8) == {Gp(n) : n \in 0 .. s.gp - 1} \cup {Fp(n) : n \in 0 .. s.fp - 1}
                  \cup {r \in {R8} : x8} \cup {r \in {R9} : s.env}

(* sttmps(), ldregs() and stkblob().                                       *)
PartOff(cls, n) == FoldLeft(LAMBDA s, k : s + Width(k), 0, SubSeq(cls, 1, n - 1))
StTmps(cls, tmps, mem) ==
  Emitted([n \in DOMAIN cls |-> Store(cls[n], tmps[n], mem, PartOff(cls, n))])
LdRegs(c, mem) == Emitted([n \in DOMAIN c.reg |-> Load(c.cls[n], c.reg[n], mem, PartOff(c.cls, n))])
StkBlob(to, c) == Alloc(to, IF c.typ.align > 2 THEN c.typ.align - 2 ELSE 0,
                        IF c.ptr THEN c.typ.size ELSE c.size)

RetClass(ret) ==
  IF ret.op = "argc" THEN TypClass(ret.typ, 0, 0)
  ELSE [NoClass EXCEPT !.cls = <<ret.k>>, !.reg = <<IF KBASE(ret.k) = 0 THEN R0 ELSE V0>>,
                       !.ngp = 1 - KBASE(ret.k), !.nfp = KBASE(ret.k)]

RetCode(ret, arg, cr) ==
  [regs |-> IF cr.ptr THEN {} ELSE RetRegs(cr),
   code |-> IF ret.op # "argc" THEN Copy(ret.k, cr.reg[1], arg)
            ELSE IF cr.ptr THEN Blit(RetTmp, 0, arg, 0, ret.typ.size)
            ELSE LdRegs(cr, arg)]
SelRet(ret, arg) == RetCode(ret, arg, RetClass(ret))

-----------------------------------------------------------------------------
(* selcall(): moves to registers are emitted first, so that the stack is   *)
(* written before them and the blobs before the stack pointer moves.       *)
StackAt(ca, n) == FoldLeft(LAMBDA s, c : s + (IF c.stk THEN c.size ELSE 0), 0, SubSeq(ca, 1, n))
IsBlob(a, c) == a.op = "argc" /\ ~c.ptr
ArgVal(c, i) == IF c.ptr THEN BlobTmp(i) ELSE ArgTmp(i)
MoveArg(a, c, i) == IF c.stk \/ a.op = "argv" THEN <<>>
                    ELSE IF IsBlob(a, c) THEN LdRegs(c, ArgTmp(i))
                    ELSE Copy(c.cls[1], c.reg[1], ArgVal(c, i))
StackArg(a, c, i, at) == IF ~c.stk THEN <<>>
                         ELSE IF IsBlob(a, c) THEN Blit(SP, at, ArgTmp(i), 0, c.size)
                         ELSE Store(Kl, ArgVal(c, i), SP, at)

BlobCode(c, i) == IF c.ptr THEN Blit(BlobTmp(i), 0, ArgTmp(i), 0, c.typ.size) ELSE <<>>
Blobs(ca) ==
  FlattenSeq([i \in DOMAIN ca |-> IF ca[i].ptr THEN StkBlob(BlobTmp(i), ca[i]) ELSE <<>>])
TakeResult(ret, cr, parts) ==
  IF ret.op # "argc" THEN Copy(ret.k, ResTmp, cr.reg[1])
  ELSE IF cr.ptr THEN Copy(Kw, R, R0)
  ELSE Emitted([j \in DOMAIN parts |-> Copy(cr.cls[j], parts[j], cr.reg[j])])
       \o StTmps(cr.cls, parts, ResTmp)
Area(n) == IF n # 0 THEN Salloc(R, n) ELSE <<>>
CallCode(args, ret, s, ca, cr, stk) ==
  [ok |-> TRUE,
   before |->
     Emitted([i \in DOMAIN args |-> BlobCode(ca[i], i)]) \o Area(stk)
     \o Emitted([i \in DOMAIN args |-> StackArg(args[i], ca[i], i, StackAt(ca, i - 1))])
     \o Emitted([i \in DOMAIN args |-> MoveArg(args[i], ca[i], i)])
     \o (IF cr.ptr THEN Copy(Kl, R8, ResTmp) ELSE <<>>),
   after |-> TakeResult(ret, cr, [j \in DOMAIN cr.reg |-> NewTmp(j)]) \o Area(-stk),
   start |-> Blobs(ca) \o (IF ret.op = "argc" THEN StkBlob(ResTmp, cr) ELSE <<>>),
   args |-> ArgRegs(s, cr.ptr), rets |-> RetRegs(cr)]
CallOf(args, ret, s, cr) ==
  CallCode(args, ret, s, s.ca, cr, RoundUp(StackAt(s.ca, Len(args)), 16))
SelCall(args, ret) == CallOf(args, ret, ArgsClass(args), RetClass(ret))

(* selpar(): stack parameters start at slot -2, eight bytes each slot.     *)
LoadPar(a, c, i, s) ==
  IF IsBlob(a, c) THEN
    IF c.stk THEN Addr(ParTmp(i), SLOT(-s))
    ELSE Emitted([j \in DOMAIN c.reg |-> Copy(c.cls[j], PartTmp(i, j), c.reg[j])])
  ELSE IF c.stk THEN Load(c.cls[1], ParTmp(i), SLOT(-s), 0)
  ELSE Copy(c.cls[1], ParTmp(i), c.reg[1])
StorePar(a, c, i) ==
  IF ~IsBlob(a, c) \/ c.stk THEN <<>>
  ELSE StkBlob(ParTmp(i), c) \o StTmps(c.cls, [j \in DOMAIN c.reg |-> PartTmp(i, j)], ParTmp(i))

ParCode(pars, s, ca, x8) ==
  [ok |-> TRUE,
   code |-> Emitted([i \in DOMAIN pars |-> LoadPar(pars[i], ca[i], i, 2 + StackAt(ca, i - 1) \div 8)])
            \o (IF x8 THEN Copy(Kl, RetTmp, R8) ELSE <<>>)
            \o Emitted([i \in DOMAIN pars |-> StorePar(pars[i], ca[i], i)]),
   reg |-> ArgRegs(s, x8), gp |-> s.gp, fp |-> s.fp, stk |-> StackAt(ca, Len(pars)) \div 8]
ParOf(pars, s, x8) == ParCode(pars, s, s.ca, x8)
SelPar(pars, ret, vararg) ==
  ParOf(pars, ArgsClass(pars), ret.op = "argc" /\ RetClass(ret).ptr)

(* selvastart() fills the five fields of a va_list from slot -1, the saved *)
(* registers; the offsets count up to zero, where selvaarg() goes on with  *)
(* the stack.                                                              *)
SelVaStart(p) ==
  Const(Kw, NewTmp(0), (p.fp - 8) * 16) \o Store(Kw, NewTmp(0), ApTmp, 28)
  \o Const(Kw, NewTmp(1), (p.gp - 8) * 8) \o Store(Kw, NewTmp(1), ApTmp, 24)
  \o Addr(NewTmp(2), SLOT(-1))
  \o Add(NewTmp(3), NewTmp(2), 192) \o Store(Kl, NewTmp(3), ApTmp, 16)
  \o Add(NewTmp(4), NewTmp(2), 64) \o Store(Kl, NewTmp(4), ApTmp, 8)
  \o Add(NewTmp(5), NewTmp(2), p.stk * 8 + 192) \o Store(Kl, NewTmp(5), ApTmp, 0)
VaArg(st, k) ==
  LET isgp == KBASE(k) = 0
      nrat == IF isgp THEN 24 ELSE 28
      s == Run(st, Load(Kw, NewTmp(0), ApTmp, nrat))
      nr == NumOf(Val(s, NewTmp(0)))
      breg == Load(Kl, NewTmp(1), ApTmp, IF isgp THEN 8 ELSE 16) \o Add(NewTmp(2), NewTmp(1), nr)
              \o Add(NewTmp(3), NewTmp(0), IF isgp THEN 8 ELSE 16)
              \o Store(Kw, NewTmp(3), ApTmp, nrat)
      bstk == Load(Kl, NewTmp(2), ApTmp, 0) \o Add(NewTmp(3), NewTmp(2), 8)
              \o Store(Kl, NewTmp(3), ApTmp, 0)
  IN  Run(s, (IF nr < 0 THEN breg ELSE bstk) \o Load(k, VaTmp, NewTmp(2), 0))

(* The prologue, emit.c: for a variadic function the vector registers at   *)
(* the top, then the general ones, then the frame; slot -1 is the end of   *)
(* the frame and slot -2 the first stack argument.                         *)
SlotAddr(end, save, s) == IF s = 1 THEN end ELSE end + save + (s - 2) * 8
Prologue(st, vararg) ==
  LET save == IF vararg THEN 192 ELSE 0
      end == st.sp - save
      frame == 64
      st1 == [st EXCEPT !.sp = end - frame - 16,
                        !.slot = [s \in 1 .. 40 |-> SlotAddr(end, save, s)]]
  IN  IF ~vararg THEN st1
      ELSE Run(SetV(st1, IP0, Num(end)),
               FlattenSeq([n \in 1 .. 8 |-> Store(Kl, Gp(n - 1), IP0, 8 * (n - 1))])
               \o FlattenSeq([n \in 1 .. 8 |-> Store(Kl, Fp(n - 1), IP0, 64 + 16 * (n - 1))]))
=============================================================================
