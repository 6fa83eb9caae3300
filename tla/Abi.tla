-------------------------------- MODULE Abi ---------------------------------
(***************************************************************************)
(* A call from one function to another, both lowered by the ABI pass of    *)
(* the same target, executed from the caller's arguments to its result.    *)
(* A register that the pass does not declare, in the call, the return or   *)
(* the set of the function's registers, does not survive the step: the     *)
(* register allocator is free to use it.                                   *)
(***************************************************************************)
EXTENDS AbiTypes

CONSTANTS Targets, Signatures(_)

ASSUME TargetsAssumption == Targets \subseteq {"rv64", "amd64", "arm64", "m68k"}

Rv64 == INSTANCE Rv64Abi
Sysv == INSTANCE SysvAbi
Arm64 == INSTANCE Arm64Abi
M68k == INSTANCE M68kAbi

VARIABLES target, sig, low, pc, st, got, taken
vars == <<target, sig, low, pc, st, got, taken>>

(* The members of the Target that the pass of each defines.                *)
SelCall(args, ret) ==
  CASE target = "rv64" -> Rv64!SelCall(args, ret) [] target = "amd64" -> Sysv!SelCall(args, ret)
    [] target = "arm64" -> Arm64!SelCall(args, ret) [] target = "m68k" -> M68k!SelCall(args, ret)
SelPar(pars, ret, vararg) ==
  CASE target = "rv64" -> Rv64!SelPar(pars, ret, vararg)
    [] target = "amd64" -> Sysv!SelPar(pars, ret, vararg)
    [] target = "arm64" -> Arm64!SelPar(pars, ret, vararg)
    [] target = "m68k" -> M68k!SelPar(pars, ret, vararg)
SelRet(ret, arg) ==
  CASE target = "rv64" -> Rv64!SelRet(ret, arg) [] target = "amd64" -> Sysv!SelRet(ret, arg)
    [] target = "arm64" -> Arm64!SelRet(ret, arg) [] target = "m68k" -> M68k!SelRet(ret, arg)
SelVaStart(p) ==
  CASE target = "rv64" -> Rv64!SelVaStart(p) [] target = "amd64" -> Sysv!SelVaStart(p)
    [] target = "arm64" -> Arm64!SelVaStart(p)
SelVaArg(s, k) ==
  CASE target = "rv64" -> Rv64!VaArg(s, k) [] target = "amd64" -> Sysv!VaArg(s, k)
    [] target = "arm64" -> Arm64!VaArg(s, k)
Prologue(s, vararg) ==
  CASE target = "rv64" -> Rv64!Prologue(s, vararg) [] target = "amd64" -> Sysv!Prologue(s, vararg)
    [] target = "arm64" -> Arm64!Prologue(s, vararg) [] target = "m68k" -> M68k!Prologue(s, vararg)
(* T.rglob, and the stack pointer's number where code names it.            *)
Glob == CASE target = "rv64" -> {} [] target = "amd64" -> {Sysv!RBP}
          [] target = "arm64" -> {} [] target = "m68k" -> {}
SpReg == CASE target = "rv64" -> Rv64!SP [] target = "amd64" -> 16
           [] target = "arm64" -> Arm64!SP [] target = "m68k" -> M68k!SP

-----------------------------------------------------------------------------
(* The program around the pass: where the values are before the call.      *)
Sp0 == 6400
ArgData(i) == 20000 + 64 * i
RetData == 30000
ApData == 31000
DataByte(i, k) == 100 * i + k + 1
Data(i) == [k \in 0 .. 7 |-> DataByte(i, k)]
RetNum == 50
RetArg == NewTmp(20)

Aggs == {i \in DOMAIN sig.args : sig.args[i].op = "argc"}
Machine0 ==
  [v |-> [r \in {ArgTmp(i) : i \in DOMAIN sig.args} |->
            IF r - Tmp0 \in Aggs THEN Num(ArgData(r - Tmp0)) ELSE Data(r - Tmp0)],
   m |-> [a \in UNION {{ArgData(i) + k : k \in 0 .. sig.args[i].typ.size - 1} : i \in Aggs} |->
            DataByte((a - 20000) \div 64, (a - 20000) % 64)],
   sp |-> Sp0, top |-> 10000, slot |-> <<>>, spreg |-> SpReg,
   sallocsign |-> IF target = "m68k" THEN 1 ELSE -1]

Keep(s, regs) ==
  [s EXCEPT !.v = [r \in {x \in DOMAIN s.v : x >= Tmp0 \/ x \in regs \cup Glob} |-> s.v[r]]]
Restore(s, old) == [s EXCEPT !.sp = old.sp, !.slot = old.slot]

(* The parameters are the arguments before the dots.                       *)
Dotted == {i \in DOMAIN sig.args : sig.args[i].op = "argv"}
Named == IF Dotted = {} THEN sig.args
         ELSE SubSeq(sig.args, 1, (CHOOSE i \in Dotted : TRUE) - 1)
Variadic == IF Dotted = {} THEN <<>>
            ELSE SubSeq(sig.args, Len(Named) + 2, Len(sig.args))

(* What the pass made of the call, the entry and the return; the program   *)
(* then runs it.                                                           *)
Lowered == [call |-> SelCall(sig.args, sig.ret),
            par |-> SelPar(Named, sig.ret, Dotted # {}),
            ret |-> SelRet(sig.ret, RetArg)]

Init == /\ target \in Targets
        /\ sig \in Signatures(target)
        /\ low = Lowered
        /\ pc = "caller" /\ st = Machine0 /\ got = <<>> /\ taken = Machine0

(* selcall() up to the call.                                               *)
Call == /\ pc = "caller"
        /\ st' = Run(Run(st, low.call.start), low.call.before)
        /\ pc' = "callee"
        /\ UNCHANGED <<target, sig, low, got, taken>>

(* The callee's prologue and selpar().                                     *)
Enter == /\ pc = "callee"
         /\ taken' = st
         /\ st' = Run(Keep(Prologue(Keep(st, low.call.args), Dotted # {}), low.par.reg),
                      low.par.code)
         /\ pc' = IF Dotted = {} THEN "body" ELSE "dots"
         /\ UNCHANGED <<target, sig, low, got>>

VaStart == /\ pc = "dots"
           /\ st' = Run(SetV(st, ApTmp, Num(ApData)), SelVaStart(low.par))
           /\ pc' = "body"
           /\ UNCHANGED <<target, sig, low, got, taken>>

VaArg == /\ pc = "body" /\ Len(got) < Len(Variadic)
         /\ st' = SelVaArg(st, Variadic[Len(got) + 1].k)
         /\ got' = Append(got, Val(st', VaTmp))
         /\ UNCHANGED <<target, sig, low, pc, taken>>

(* selret(), with the result in a temporary or at an address, and the      *)
(* epilogue.                                                               *)
Returning(s) ==
  IF sig.ret.op = "argc"
  THEN WriteMem(SetV(s, RetArg, Num(RetData)), RetData,
                [k \in 0 .. 63 |-> DataByte(RetNum, k)], sig.ret.typ.size)
  ELSE SetV(s, RetArg, Data(RetNum))
Return == /\ pc = "body" /\ Len(got) = Len(Variadic)
          /\ st' = Restore(Keep(Run(Returning(st), low.ret.code), low.ret.regs), taken)
          /\ pc' = "back"
          /\ UNCHANGED <<target, sig, low, got, taken>>

(* What selcall() puts behind the call.                                    *)
Back == /\ pc = "back"
        /\ st' = Run(Keep(st, low.call.rets), low.call.after)
        /\ pc' = "done"
        /\ UNCHANGED <<target, sig, low, got, taken>>

Next == Call \/ Enter \/ VaStart \/ VaArg \/ Return \/ Back
Spec == Init /\ [][Next]_vars

-----------------------------------------------------------------------------
SameScalar(v, k, i) == \A b \in 0 .. Width(k) - 1 : v[b] = DataByte(i, b)
SameMembers(a, ty, i) == \A b \in MemberBytes(ty, 0) : Byte(st, a + b) = DataByte(i, b)

(* No assertion of the pass fails, and every parameter has the value of    *)
(* its argument when the function starts: a scalar all its bytes, an       *)
(* aggregate all its members, in memory of its own and aligned as the type *)
(* asks for (selcall() against selpar()).                                  *)
ArgsArrive ==
  /\ low.call.ok /\ low.par.ok
  /\ pc \in {"dots", "body"} /\ got = <<>> => \A i \in DOMAIN Named :
       LET v == Val(st, ParTmp(i))
       IN  IF Named[i].op # "argc" THEN SameScalar(v, Named[i].k, i)
           ELSE /\ IsNum(v) /\ NumOf(v) # ArgData(i)
                /\ NumOf(v) % 2^(Named[i].typ.align) = 0
                /\ SameMembers(NumOf(v), Named[i].typ, i)

(* va_start and va_arg give the arguments behind the dots in order, from   *)
(* registers and from the stack (selvastart() and selvaarg() against       *)
(* selcall() and the prologue).                                            *)
VarargsArrive ==
  \A j \in DOMAIN got : SameScalar(got[j], Variadic[j].k, Len(Named) + 1 + j)

(* The result of the function is the result of the call (selret() against  *)
(* selcall()).                                                             *)
ResultArrives ==
  pc = "done" =>
    LET v == Val(st, ResTmp)
    IN  IF sig.ret.op = "argc" THEN IsNum(v) /\ SameMembers(NumOf(v), sig.ret.typ, RetNum)
        ELSE SameScalar(v, sig.ret.k, RetNum)

(* The registers that spill() asserts live at the entry of a function are  *)
(* those selpar() reads; the caller has written each of them; and those a  *)
(* return declares are written by it and read behind the call at most.     *)
RegsDeclared ==
  /\ LiveIn(low.par.code) \ Glob = low.par.reg
  /\ pc = "callee" => low.par.reg \subseteq low.call.args /\ low.call.args \subseteq DOMAIN st.v
  /\ LiveIn(low.call.after) \subseteq low.call.rets
  /\ pc = "back" => low.ret.regs \subseteq DOMAIN st.v /\ low.ret.regs \subseteq low.call.rets

(* After a call the stack pointer is where it was before its arguments     *)
(* were pushed (selcall()'s last Osalloc).                                 *)
CallPops == pc = "done" => st.sp = Sp0

(* The stack pointer is a multiple of 16 at every call, and the call       *)
(* leaves it as it was (the size of the area in selcall()).                *)
StackKept ==
  /\ pc = "callee" /\ target # "m68k" => st.sp % 16 = 0
  /\ target # "m68k" => CallPops
=============================================================================
