------------------------------ MODULE SysvAbi -------------------------------
(***************************************************************************)
(* amd64/sysv.c: calls, parameters, returns and variadic arguments for     *)
(* the System V convention, and the prologue of amd64/emit.c.              *)
(***************************************************************************)
EXTENDS AbiTypes

RAX == 1
RCX == 2
RDX == 3
RSI == 4
RDI == 5
RBP == 15
XMM0 == 17
rsave == <<RDI, RSI, RDX, RCX, 6, 7>>

(* classify(): the class of each of the two eight byte words, over every   *)
(* member of a union, starting s bytes into the aggregate.                 *)
Kinds(cls, f, s) ==
  LET n == s \div 8 + 1
  IN  CASE f.type = "FPad" -> cls
        [] f.type \in {"s", "d"} -> IF cls[n] = Kx THEN [cls EXCEPT ![n] = Kd] ELSE cls
        [] OTHER -> [cls EXCEPT ![n] = Kl]
RECURSIVE Classify(_, _, _)
Classify(cls, t, s) ==
  FoldLeft(LAMBDA c, body :
    FoldLeft(LAMBDA x, f :
      [s |-> x.s + f.len,
       cls |-> IF f.type = "FTyp" THEN Classify(x.cls, f.typ, x.s) ELSE Kinds(x.cls, f, x.s)],
      [s |-> s, cls |-> c], body).cls, cls, t.fields)

SizeOf(t) == RoundUp(t.size, IF t.align < 3 THEN 8 ELSE 2^t.align)
InMemory(t) == t.isdark \/ SizeOf(t) > 16 \/ SizeOf(t) = 0
TypClass(t) ==
  [inmem |-> IF InMemory(t) THEN 1 ELSE 0, align |-> t.align, size |-> SizeOf(t), typ |-> t,
   cls |-> IF InMemory(t) THEN <<Kx, Kx>> ELSE Classify(<<Kx, Kx>>, t, 0)]
Words(a) == {n \in 1 .. 2 : 8 * (n - 1) < a.size}
Needs(a, base) == IF a.inmem # 0 THEN 0 ELSE Cardinality({n \in Words(a) : KBASE(a.cls[n]) = base})

(* argsclass(): nint and nsse registers are left.                          *)
NoClass == [inmem |-> 0, align |-> 0, size |-> 0, typ |-> NewTyp(0), cls |-> <<Kx, Kx>>]
Give(s, a) ==
  [s EXCEPT !.nint = @ - Needs(a, 0), !.nsse = @ - Needs(a, 1), !.ca = Append(@, a)]
Left(s, k) == IF KBASE(k) = 0 THEN s.nint ELSE s.nsse
ClassScalar(s, k) ==
  Give(s, [NoClass EXCEPT !.inmem = IF Left(s, k) > 0 THEN 0 ELSE 2, !.align = 3, !.size = 8,
                          !.cls = <<k, Kx>>])
Fitting(s, c) ==
  IF s.nint >= Needs(c, 0) /\ s.nsse >= Needs(c, 1) THEN c ELSE [c EXCEPT !.inmem = 1]
ClassAggregate(s, t) == Give(s, Fitting(s, TypClass(t)))
ArgsClass(args, hidden) ==
  FoldLeft(LAMBDA s, a :
    CASE a.op = "arg" -> ClassScalar(s, a.k)
      [] a.op = "argc" -> ClassAggregate(s, a.typ)
      [] a.op = "arge" -> [s EXCEPT !.env = TRUE, !.ca = Append(@, NoClass)]
      [] a.op = "argv" -> [s EXCEPT !.var = TRUE, !.ca = Append(@, NoClass)],
    [nint |-> IF hidden THEN 5 ELSE 6, nsse |-> 8, var |-> FALSE, env |-> FALSE, ca |-> <<>>],
    args)

RetRegs(ni, nf) == {r \in {RAX} : ni >= 1} \cup {r \in {RDX} : ni >= 2}
                   \cup {r \in {XMM0} : nf >= 1} \cup {r \in {XMM0 + 1} : nf >= 2}
ArgRegs(s) == {rsave[n] : n \in 1 .. 6 - s.nint} \cup {XMM0 + n : n \in 0 .. 7 - s.nsse}
              \cup {r \in {RAX} : s.var \/ s.env}

(* rarg() for the words of each argument in turn, after ni integer         *)
(* registers.                                                              *)
RArg(k, ni, ns) == IF KBASE(k) = 0 THEN rsave[ni + 1] ELSE XMM0 + ns
InRegs(a, c) == a.op \in {"arg", "argc"} /\ c.inmem = 0
RegsOf(args, ca, ni0) ==
  FoldLeft(LAMBDA s, i :
    LET c == ca[i]
        second == [ni |-> s.ni + (1 - KBASE(c.cls[1])), ns |-> s.ns + KBASE(c.cls[1])]
    IN  IF ~InRegs(args[i], c) THEN [s EXCEPT !.reg = Append(@, <<R, R>>)]
        ELSE [ni |-> s.ni + Needs(c, 0), ns |-> s.ns + Needs(c, 1),
              reg |-> Append(s.reg, <<RArg(c.cls[1], s.ni, s.ns),
                        IF c.size > 8 THEN RArg(c.cls[2], second.ni, second.ns) ELSE R>>)],
    [ni |-> ni0, ns |-> 0, reg |-> <<>>], [i \in 1 .. Len(args) |-> i]).reg

(* retr(): the registers of an aggregate result.                           *)
RetReg(a) == [n \in Words(a) |->
  LET before == Cardinality({m \in 1 .. n - 1 : KBASE(a.cls[m]) = KBASE(a.cls[n])})
  IN  IF KBASE(a.cls[n]) = 0 THEN <<RAX, RDX>>[before + 1] ELSE XMM0 + before]
ResultReg(k) == IF KBASE(k) = 0 THEN RAX ELSE XMM0
RetPtr(ret) == ret.op = "argc" /\ TypClass(ret.typ).inmem # 0
ResultRegs(ret) ==
  IF ret.op # "argc" THEN RetRegs(1 - KBASE(ret.k), KBASE(ret.k))
  ELSE IF RetPtr(ret) THEN RetRegs(1, 0)
  ELSE LET a == TypClass(ret.typ) IN RetRegs(Needs(a, 0), Needs(a, 1))

LoadResult(size, reg, arg) ==
  Load(Kl, reg[1], arg, 0) \o (IF size > 8 THEN Load(Kl, reg[2], arg, 8) ELSE <<>>)
SelRet(ret, arg) ==
  [regs |-> ResultRegs(ret),
   code |-> IF ret.op # "argc" THEN Copy(ret.k, ResultReg(ret.k), arg)
            ELSE IF RetPtr(ret)
            THEN Blit(RetTmp, 0, arg, 0, ret.typ.size) \o Copy(Kl, RAX, RetTmp)
            ELSE LoadResult(SizeOf(ret.typ), RetReg(TypClass(ret.typ)), arg)]

(* The stack: scalars and aggregates in order, those that want 16 bytes at *)
(* a multiple of 16.  The caller sizes it from the last argument to the    *)
(* first, and gives the offsets from the first to the last.                *)
OnStack(a, c) == a.op \in {"arg", "argc"} /\ c.inmem # 0
StackSizeForward(args, ca) ==
  RoundUp(FoldLeft(LAMBDA stk, i :
    IF OnStack(args[i], ca[i]) THEN stk + ca[i].size ELSE stk, 0, [i \in 1 .. Len(args) |-> i]), 8)
StackSize(args, ca) ==
  RoundUp(FoldRight(LAMBDA i, stk :
    IF ~OnStack(args[i], ca[i]) THEN stk
    ELSE RoundUp(stk + ca[i].size, IF ca[i].align = 4 THEN 16 ELSE 8),
    [i \in 1 .. Len(args) |-> i], 0), 16)
Offsets(args, ca) ==
  FoldLeft(LAMBDA s, i :
    LET at == IF args[i].op = "argc" /\ ca[i].align = 4 THEN RoundUp(s.off, 16) ELSE s.off
    IN  IF ~OnStack(args[i], ca[i]) THEN [s EXCEPT !.at = Append(@, 0)]
        ELSE [off |-> at + ca[i].size, at |-> Append(s.at, at)],
    [off |-> 0, at |-> <<>>], [i \in 1 .. Len(args) |-> i]).at

Pad(to, a) == Alloc(to, IF a.align >= 2 THEN a.align - 2 ELSE 0, a.size)
MoveArg(a, c, i, reg) ==
  IF ~InRegs(a, c) THEN <<>>
  ELSE IF a.op = "arg" THEN Copy(a.k, reg[1], ArgTmp(i))
  ELSE Load(c.cls[1], reg[1], ArgTmp(i), 0)
       \o (IF c.size > 8 THEN Load(c.cls[2], reg[2], ArgTmp(i), 8) ELSE <<>>)
StackArg(a, c, i, at) ==
  IF ~OnStack(a, c) THEN <<>>
  ELSE IF a.op = "argc" THEN Blit(NewTmp(0), at, ArgTmp(i), 0, c.typ.size)
  ELSE Store(Kl, ArgTmp(i), NewTmp(0), at)

(* What follows the call when it returns an aggregate: the result is at    *)
(* the address in RAX, or is stored from its registers into the pad.       *)
TakeAggregateFirst(a, reg) ==
  IF a.inmem # 0 THEN Copy(Kl, ResTmp, RAX)
  ELSE Copy(a.cls[1], NewTmp(1), reg[1]) \o Store(Kl, NewTmp(1), ResTmp, 0)
TakeAggregate(a, reg) ==
  IF a.inmem # 0 THEN Copy(Kl, ResTmp, RAX)
  ELSE Copy(a.cls[1], NewTmp(1), reg[1])
       \o (IF a.size > 8 THEN Copy(a.cls[2], NewTmp(2), reg[2]) ELSE <<>>)
       \o Store(Kl, NewTmp(1), ResTmp, 0)
       \o (IF a.size > 8 THEN Store(Kl, NewTmp(2), ResTmp, 8) ELSE <<>>)

Envs(args) == {i \in DOMAIN args : args[i].op = "arge"}
SetRax(args, s) == IF s.env THEN Copy(Kl, RAX, ArgTmp(CHOOSE i \in Envs(args) : TRUE))
                   ELSE IF s.var THEN Const(Kw, RAX, 8 - s.nsse) ELSE <<>>
Area(to, n) == IF n # 0 THEN Salloc(to, n) ELSE <<>>
TakeResult(ret) == IF ret.op = "argc" THEN TakeAggregate(TypClass(ret.typ), RetReg(TypClass(ret.typ)))
                   ELSE Copy(ret.k, ResTmp, ResultReg(ret.k))
CallCode(args, ret, s, ca, stk, at, reg, pad, retptr) ==
  [ok |-> ~(s.var /\ s.env),
   before |-> Area(NewTmp(0), stk)
     \o Emitted([i \in DOMAIN args |-> StackArg(args[i], ca[i], i, at[i])])
     \o Emitted([i \in DOMAIN args |-> MoveArg(args[i], ca[i], i, reg[i])])
     \o (IF retptr THEN Copy(Kl, RDI, pad) ELSE <<>>) \o SetRax(args, s),
   after |-> TakeResult(ret) \o Area(R, -stk),
   start |-> IF ret.op = "argc" THEN Pad(pad, TypClass(ret.typ)) ELSE <<>>,
   args |-> ArgRegs(s), rets |-> ResultRegs(ret)]
CallOf(args, ret, s, ca, retptr) ==
  CallCode(args, ret, s, ca, StackSize(args, ca), Offsets(args, ca),
           RegsOf(args, ca, IF retptr THEN 1 ELSE 0), IF retptr THEN NewTmp(3) ELSE ResTmp, retptr)
CallFrom(args, ret, s, retptr) == CallOf(args, ret, s, s.ca, retptr)
SelCall(args, ret) == CallFrom(args, ret, ArgsClass(args, RetPtr(ret)), RetPtr(ret))

(* selpar(): slots count four bytes, the first stack argument is slot -4.  *)
SlotsOfPacked(pars, ca) ==
  FoldLeft(LAMBDA s, i :
    [at |-> Append(s.at, s.s), s |-> s.s + (IF OnStack(pars[i], ca[i]) THEN ca[i].size \div 4 ELSE 0)],
    [at |-> <<>>, s |-> 4], [i \in 1 .. Len(pars) |-> i])
SlotsOf(pars, ca) ==
  FoldLeft(LAMBDA s, i :
    LET at == IF ca[i].inmem = 1 /\ ca[i].align = 4 THEN RoundUp(s.s, 4) ELSE s.s
    IN  [at |-> Append(s.at, at), s |-> at + (IF OnStack(pars[i], ca[i]) THEN ca[i].size \div 4 ELSE 0)],
    [at |-> <<>>, s |-> 4], [i \in 1 .. Len(pars) |-> i])
LoadPar(a, c, i, reg, s) ==
  CASE c.inmem = 1 -> Addr(ParTmp(i), SLOT(-s))
    [] c.inmem = 2 -> Load(a.k, ParTmp(i), SLOT(-s), 0)
    [] c.inmem = 0 /\ a.op = "arge" -> <<>>
    [] c.inmem = 0 /\ a.op = "arg" -> Copy(a.k, ParTmp(i), reg[1])
    [] OTHER -> (IF c.size > 8 THEN Copy(c.cls[2], PartTmp(i, 2), reg[2]) ELSE <<>>)
                \o Copy(c.cls[1], PartTmp(i, 1), reg[1])
StorePar(a, c, i) ==
  IF a.op # "argc" \/ c.inmem # 0 THEN <<>>
  ELSE Pad(ParTmp(i), c) \o Store(Kl, PartTmp(i, 1), ParTmp(i), 0)
       \o (IF c.size > 8 THEN Store(Kl, PartTmp(i, 2), ParTmp(i), 8) ELSE <<>>)

ParCode(pars, s, ca, reg, slots, retptr) ==
  [ok |-> TRUE,
   code |-> (IF s.env THEN Copy(Kl, ParTmp(CHOOSE i \in Envs(pars) : TRUE), RAX) ELSE <<>>)
     \o Emitted([i \in DOMAIN pars |-> LoadPar(pars[i], ca[i], i, reg[i], slots.at[i])])
     \o (IF retptr THEN Copy(Kl, RetTmp, RDI) ELSE <<>>)
     \o Emitted([i \in DOMAIN pars |-> StorePar(pars[i], ca[i], i)]),
   reg |-> ArgRegs(s), gp |-> 6 - s.nint, fp |-> 8 - s.nsse, stk |-> 4 * slots.s]
ParOf(pars, s, ca, retptr) ==
  ParCode(pars, s, ca, RegsOf(pars, ca, IF retptr THEN 1 ELSE 0), SlotsOf(pars, ca), retptr)
ParFrom(pars, s, retptr) == ParOf(pars, s, s.ca, retptr)
SelPar(pars, ret, vararg) == ParFrom(pars, ArgsClass(pars, RetPtr(ret)), RetPtr(ret))

(* selvastart() fills the four fields of a va_list; selvaarg() takes from  *)
(* the saved registers while their offset allows, then from the stack.     *)
SelVaStart(p) ==
  Const(Kw, NewTmp(0), 8 * p.gp) \o Store(Kw, NewTmp(0), ApTmp, 0)
  \o Const(Kw, NewTmp(1), 48 + 16 * p.fp) \o Store(Kw, NewTmp(1), ApTmp, 4)
  \o Add(NewTmp(2), RBP, p.stk) \o Store(Kl, NewTmp(2), ApTmp, 8)
  \o Add(NewTmp(3), RBP, -176) \o Store(Kl, NewTmp(3), ApTmp, 16)
VaArg(st, k) ==
  LET isint == KBASE(k) = 0
      nrat == IF isint THEN 0 ELSE 4
      s == Run(st, Load(Kw, NewTmp(0), ApTmp, nrat))
      nr == NumOf(Val(s, NewTmp(0)))
      breg == Load(Kl, NewTmp(1), ApTmp, 16) \o Add(NewTmp(2), NewTmp(1), nr)
              \o Add(NewTmp(3), NewTmp(0), IF isint THEN 8 ELSE 16)
              \o Store(Kw, NewTmp(3), ApTmp, nrat)
      bstk == Load(Kl, NewTmp(2), ApTmp, 8) \o Add(NewTmp(3), NewTmp(2), 8)
              \o Store(Kl, NewTmp(3), ApTmp, 8)
  IN  Run(s, (IF nr < (IF isint THEN 48 ELSE 176) THEN breg ELSE bstk)
             \o Load(k, VaTmp, NewTmp(2), 0))

(* The prologue, emit.c: the return address and rbp, then for a variadic   *)
(* function 176 bytes of argument registers.                               *)
SlotAddr(fp, s) == fp + 4 * s
Prologue(st, vararg) ==
  LET fp == st.sp - 16
      st1 == [SetV(st, RBP, Num(fp)) EXCEPT !.sp = fp - 256, !.slot = [s \in 1 .. 60 |-> SlotAddr(fp, s)]]
  IN  IF ~vararg THEN st1
      ELSE Run(st1, FlattenSeq([n \in 1 .. 6 |-> Store(Kl, rsave[n], RBP, -176 + 8 * (n - 1))])
                    \o FlattenSeq([n \in 1 .. 8 |-> Store(Kl, XMM0 + n - 1, RBP, -128 + 16 * (n - 1))]))
=============================================================================
