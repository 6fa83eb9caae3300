------------------------------ MODULE M68kAbi -------------------------------
(***************************************************************************)
(* m68k/abi.c: calls, parameters and returns for the 68000, where every    *)
(* argument is pushed, and the part of m68k/emit.c above the frame         *)
(* pointer.  Variadic calls fail an assertion in selcall(), so va_arg has  *)
(* nothing to read and is left out.                                        *)
(***************************************************************************)
EXTENDS AbiTypes

D0 == 1
D5 == 6
D7 == 16
A0 == 8
SP == 15

(* typclass() as argsclass() calls it, without floating point: words in    *)
(* data registers, or a pointer.                                           *)
NoClass == [ptr |-> FALSE, stk |-> FALSE, typ |-> NewTyp(0), reg |-> <<>>]
TypClass(t, gp) ==
  LET ptr == t.isdark \/ t.size > 16 \/ t.size = 0
      n == IF ptr THEN 1 ELSE RoundUp(t.size, 8) \div 8
  IN  [NoClass EXCEPT !.ptr = ptr, !.typ = t, !.reg = [j \in 1 .. n |-> D0 + gp + j - 1]]

(* argsclass(): a scalar is on the stack.                                  *)
ClassAggregate(s, t) ==
  LET c == TypClass(t, s.gp)
      n == Len(c.reg)
  IN  IF n <= s.ngp THEN [s EXCEPT !.ngp = @ - n, !.gp = @ + n, !.ca = Append(@, c)]
      ELSE [s EXCEPT !.ngp = 0, !.ca = Append(@, [c EXCEPT !.stk = TRUE])]
ArgsClass(args, retptr) ==
  FoldLeft(LAMBDA s, a :
    CASE a.op = "arg" -> [s EXCEPT !.ca = Append(@, [NoClass EXCEPT !.stk = TRUE])]
      [] a.op = "argc" -> ClassAggregate(s, a.typ)
      [] a.op = "arge" -> [s EXCEPT !.env = TRUE, !.ca = Append(@, [NoClass EXCEPT !.reg = <<D5>>])]
      [] a.op = "argv" -> [s EXCEPT !.ca = Append(@, NoClass)],
    [gp |-> IF retptr THEN 1 ELSE 0, ngp |-> IF retptr THEN 7 ELSE 8, env |-> FALSE, ca |-> <<>>],
    args)

RetRegs(n) == {D0 + j : j \in 0 .. n - 1}
ArgRegs(s) == {D0 + n : n \in 0 .. s.gp - 1} \cup {r \in {D7} : s.env}
RetPtr(ret) == ret.op = "argc" /\ TypClass(ret.typ, 0).ptr
RetCount(ret) == IF ret.op = "argc" THEN Len(TypClass(ret.typ, 0).reg) ELSE 1

(* sttmps(), ldregs() and stkblob().                                       *)
StTmps(tmps, mem) == Emitted([n \in DOMAIN tmps |-> Store(Kl, tmps[n], mem, 8 * (n - 1))])
LdRegs(c, mem) == Emitted([n \in DOMAIN c.reg |-> Load(Kl, c.reg[n], mem, 8 * (n - 1))])
StkBlob(to, t) == Alloc(to, IF t.align > 2 THEN t.align - 2 ELSE 0, RoundUp(t.size, 8))

SelRet(ret, arg) ==
  IF ret.op # "argc" THEN [regs |-> RetRegs(1), code |-> Copy(ret.k, D0, arg)]
  ELSE IF RetPtr(ret) THEN [regs |-> {}, code |-> Blit(RetTmp, 0, arg, 0, ret.typ.size)]
  ELSE [regs |-> RetRegs(RetCount(ret)), code |-> LdRegs(TypClass(ret.typ, 0), arg)]

(* selcall(): the arguments are pushed from the last to the first; it      *)
(* asserts that there are some, and that all are on the stack.             *)
PushArg(a, c, i) == IF c.ptr THEN Push(BlobTmp(i))
                    ELSE IF a.op = "arg" THEN Push(ArgTmp(i)) ELSE <<>>
TakeResult(ret, parts) ==
  IF ret.op # "argc" THEN Copy(ret.k, ResTmp, D0)
  ELSE IF RetPtr(ret) THEN Copy(Kw, R, D0)
  ELSE Emitted([j \in DOMAIN parts |-> Copy(Kl, parts[j], D0 + j - 1)]) \o StTmps(parts, ResTmp)
CallCode(args, ret, s, ca, stk) ==
  [ok |-> stk > 0 /\ \A i \in DOMAIN args : ca[i].stk,
   start |-> FlattenSeq([i \in DOMAIN args |-> IF ca[i].ptr THEN StkBlob(BlobTmp(i), ca[i].typ) ELSE <<>>])
             \o (IF ret.op = "argc" THEN StkBlob(ResTmp, ret.typ) ELSE <<>>),
   before |-> Emitted([i \in DOMAIN args |-> PushArg(args[i], ca[i], i)])
              \o (IF RetPtr(ret) THEN Copy(Kl, A0, ResTmp) ELSE <<>>),
   after |-> TakeResult(ret, [j \in 1 .. RetCount(ret) |-> NewTmp(j)]) \o Salloc(R, -stk),
   args |-> ArgRegs(s), rets |-> RetRegs(RetCount(ret))]
CallOf(args, ret, s) ==
  CallCode(args, ret, s, s.ca, 4 * Cardinality({i \in DOMAIN args : s.ca[i].stk}))
SelCall(args, ret) == CallOf(args, ret, ArgsClass(args, RetPtr(ret)))

(* selpar(): the n-th stack parameter is SLOT(-n), from 0 on; fn->reg does *)
(* not keep A0, which selpar() adds before it is set.                      *)
ParSlot(n) == SLOT(-(n + 1))
LoadPar(a, c, i, n) ==
  IF a.op = "argc" /\ ~c.ptr
  THEN Emitted([j \in DOMAIN c.reg |-> Copy(Kl, PartTmp(i, j), c.reg[j])])
  ELSE IF c.stk THEN Load(Kw, ParTmp(i), ParSlot(n), 0)
  ELSE Copy(a.k, ParTmp(i), c.reg[1])
StorePar(a, c, i) ==
  IF a.op # "argc" \/ c.ptr THEN <<>>
  ELSE StkBlob(ParTmp(i), c.typ) \o StTmps([j \in DOMAIN c.reg |-> PartTmp(i, j)], ParTmp(i))
Pushed(ca, i) == Cardinality({j \in 1 .. i - 1 : ca[j].stk})
ParCode(pars, retptr, s, ca, s0) ==
  [ok |-> TRUE,
   code |-> Emitted([i \in DOMAIN pars |-> LoadPar(pars[i], ca[i], i, s0 + Pushed(ca, i))])
            \o Emitted([i \in DOMAIN pars |-> StorePar(pars[i], ca[i], i)])
            \o (IF retptr THEN Copy(Kl, RetTmp, A0) ELSE <<>>),
   reg |-> ArgRegs(s)]
ParOf(pars, retptr, s, s0) == ParCode(pars, retptr, s, s.ca, s0)
SelPar(pars, ret, vararg) ==
  ParOf(pars, RetPtr(ret), ArgsClass(pars, RetPtr(ret)), IF vararg THEN 8 ELSE 0)

(* The return address and the caller's frame pointer are below the         *)
(* arguments; slot() finds SLOT(-n), n > 0, 4 * n bytes above the first of *)
(* them, and SLOT(0) there too when the function has no locals.            *)
SlotAddr(fp, n) == fp + 8 + 4 * n
Prologue(st, vararg) ==
  LET fp == st.sp - 8
  IN  [st EXCEPT !.sp = fp - 64, !.slot = [n \in 1 .. 20 |-> SlotAddr(fp, n - 1)]]
=============================================================================
