------------------------------ MODULE AbiTypes ------------------------------
(***************************************************************************)
(* What the four calling conventions share: aggregate types as parse.c     *)
(* lays them out, the instructions an ABI pass emits, and a machine that   *)
(* executes them.                                                          *)
(*                                                                         *)
(* A value is eight bytes in memory order.  A byte is a number: 0 is       *)
(* undefined, 100*i + k + 1 is byte k of the i-th argument or aggregate,   *)
(* and Base + 8*n + k is byte k of the number (or address) n.  A reference *)
(* is a number as well: 0 is R, 1..63 a register, 64.. a temporary, and    *)
(* a negative number a SLOT.                                               *)
(***************************************************************************)
EXTENDS Integers, Sequences, SequencesExt, FiniteSets

NField == 32
FieldSize == [b |-> 1, h |-> 2, w |-> 4, l |-> 8, s |-> 4, d |-> 8]
FieldAlign == [b |-> 0, h |-> 1, w |-> 2, l |-> 3, s |-> 2, d |-> 3]

RoundUp(n, a) == ((n + a - 1) \div a) * a

(* One member specifier of a body: the letter of a base type or a type     *)
(* already read, and a count.                                              *)
Member(letter, n) == [type |-> letter, count |-> n]
Nested(ty, n) == [type |-> "FTyp", count |-> n, typ |-> ty]

(* parsefields(): one member after the other at its natural alignment,     *)
(* padding where that leaves a hole.                                       *)
Field(m) == IF m.type = "FTyp" THEN [type |-> "FTyp", len |-> m.typ.size, typ |-> m.typ]
            ELSE [type |-> m.type, len |-> FieldSize[m.type]]
Padding(pad) == IF pad > 0 THEN <<[type |-> "FPad", len |-> pad]>> ELSE <<>>
FirstFields(all) == SubSeq(all, 1, IF Len(all) > NField THEN NField ELSE Len(all))
Placed(b, m, field, a, pad) ==
  [fields |-> FirstFields(b.fields \o Padding(pad) \o [k \in 1 .. m.count |-> field]),
   size |-> b.size + pad + m.count * field.len,
   align |-> IF a > b.align THEN a ELSE b.align]
AlignOf(m) == IF m.type = "FTyp" THEN m.typ.align ELSE FieldAlign[m.type]
AddMember(b, m) ==
  Placed(b, m, Field(m), AlignOf(m), RoundUp(b.size, 2^AlignOf(m)) - b.size)

(* parsefields() for one body of a type: the fields, and the type grown to *)
(* the size and alignment the body needs.                                  *)
WithBody(ty, b) ==
  [ty EXCEPT !.fields = Append(@, b.fields), !.align = b.align,
             !.size = RoundUp(IF b.size < @ THEN @ ELSE b.size, 2^b.align)]
ParseFields(ty, members) ==
  WithBody(ty, FoldLeft(AddMember, [fields |-> <<>>, size |-> 0, align |-> ty.align], members))

(* parsetyp(): align is the exponent given with align, or -1; a union has  *)
(* one body for each of its members, and an opaque type none.              *)
NewTyp(align) == [isdark |-> FALSE, isunion |-> FALSE, align |-> align, size |-> 0,
                  fields |-> <<>>]
ParseStruct(align, members) == ParseFields(NewTyp(align), members)
ParseUnion(align, bodies) ==
  FoldLeft(ParseFields, [NewTyp(align) EXCEPT !.isunion = TRUE], bodies)
ParseDark(align, size) == [NewTyp(align) EXCEPT !.isdark = TRUE, !.size = size]

(* The bytes of a type that belong to a member rather than to padding; an  *)
(* opaque type is all members.                                             *)
RECURSIVE MemberBytes(_, _)
MemberBytes(ty, at) ==
  IF ty.isdark THEN at .. at + ty.size - 1
  ELSE UNION {FoldLeft(LAMBDA s, f :
           [off |-> s.off + f.len,
            set |-> s.set \cup CASE f.type = "FPad" -> {}
                                 [] f.type = "FTyp" -> MemberBytes(f.typ, s.off)
                                 [] OTHER -> s.off .. s.off + f.len - 1],
           [off |-> at, set |-> {}], ty.fields[n]).set : n \in DOMAIN ty.fields}

-----------------------------------------------------------------------------
(* Classes, and the instructions a pass emits.  The address of a load or a *)
(* store is a base and the constant that an Oadd before it adds.           *)
Kx == -1
Kw == 0
Kl == 1
Ks == 2
Kd == 3
KWIDE(k) == k \in {Kl, Kd}
KBASE(k) == IF k \in {Ks, Kd} THEN 1 ELSE 0
Width(k) == IF k = Kx \/ KWIDE(k) THEN 8 ELSE 4

R == 0
Tmp0 == 64
SLOT(s) == s

Copy(k, to, arg) == <<[op |-> "copy", k |-> k, to |-> to, arg |-> arg]>>
Const(k, to, n) == <<[op |-> "const", k |-> k, to |-> to, n |-> n]>>
Add(to, arg, n) == <<[op |-> "add", to |-> to, arg |-> arg, n |-> n]>>
Load(k, to, base, off) == <<[op |-> "load", k |-> k, to |-> to, arg |-> base, off |-> off]>>
Store(k, arg, base, off) == <<[op |-> "store", k |-> k, arg |-> arg, base |-> base, off |-> off]>>
Blit(dst, doff, src, boff, n) ==
  <<[op |-> "blit", base |-> dst, doff |-> doff, arg |-> src, boff |-> boff, n |-> n]>>
Alloc(to, al, n) == <<[op |-> "alloc", to |-> to, al |-> al, n |-> n]>>
Salloc(to, n) == <<[op |-> "salloc", to |-> to, n |-> n]>>
Addr(to, slot) == <<[op |-> "addr", to |-> to, arg |-> slot]>>
Push(arg) == <<[op |-> "push", arg |-> arg]>>

(* emit() fills a block from its end: what a loop over i0 .. i1 emits runs *)
(* in the opposite order.                                                  *)
Emitted(code) == FlattenSeq(Reverse(code))

(* The arguments of a call, or the parameters of a function, as parserefl()*)
(* appends them: a base class, an aggregate, the environment, or the dots. *)
Scalar(k) == [op |-> "arg", k |-> k]
Aggregate(ty) == [op |-> "argc", k |-> Kl, typ |-> ty]
Env == [op |-> "arge", k |-> Kl]
Dots == [op |-> "argv", k |-> Kw]

(* The temporaries of the caller and of the callee: the i-th argument and  *)
(* its copy, the i-th parameter, and those a pass makes for argument i.    *)
ArgTmp(i) == Tmp0 + i
BlobTmp(i) == Tmp0 + 20 + i
ParTmp(i) == Tmp0 + 40 + i
PartTmp(i, n) == Tmp0 + 60 + 10 * i + n
ResTmp == Tmp0 + 300
RetTmp == Tmp0 + 301
ApTmp == Tmp0 + 302
VaTmp == Tmp0 + 303
NewTmp(n) == Tmp0 + 310 + n

-----------------------------------------------------------------------------
(* The machine: registers and temporaries v, memory m, the stack pointer,  *)
(* the address the next alloc gets, and where SLOTs are.                   *)
Base == 1000000
Bytes(s, n) == [k \in 0 .. 7 |-> IF k < n THEN s[k] ELSE 0]
Undef == [k \in 0 .. 7 |-> 0]
Num(n) == [k \in 0 .. 7 |-> Base + 8 * n + k]
NumOf(v) == (v[0] - Base) \div 8
IsNum(v) == v[0] >= Base

Val(st, r) == IF r \in DOMAIN st.v THEN st.v[r] ELSE Undef
Byte(st, a) == IF a \in DOMAIN st.m THEN st.m[a] ELSE 0
Over(f, g) == [x \in DOMAIN f \cup DOMAIN g |-> IF x \in DOMAIN g THEN g[x] ELSE f[x]]
SetV(st, r, v) == IF r = R THEN st ELSE [st EXCEPT !.v = Over(@, [x \in {r} |-> v])]
WriteMem(st, a, f, n) == [st EXCEPT !.m = Over(@, [x \in a .. a + n - 1 |-> f[x - a]])]
AddrOf(st, r) == IF r < 0 THEN st.slot[-r] ELSE IF r = st.spreg THEN st.sp ELSE NumOf(Val(st, r))
Room(st, al, n) == RoundUp(st.top, 2^(al + 2)) + RoundUp(n, 4)

Exec(st, i) ==
  CASE i.op = "copy" -> SetV(st, i.to, Bytes(Val(st, i.arg), Width(i.k)))
    [] i.op = "const" -> SetV(st, i.to, Bytes(Num(i.n), Width(i.k)))
    [] i.op = "add" -> SetV(st, i.to, Num(AddrOf(st, i.arg) + i.n))
    [] i.op = "load" ->
         SetV(st, i.to, Bytes([k \in 0 .. 7 |-> Byte(st, AddrOf(st, i.arg) + i.off + k)],
                              Width(i.k)))
    [] i.op = "store" -> WriteMem(st, AddrOf(st, i.base) + i.off, Val(st, i.arg), Width(i.k))
    [] i.op = "blit" ->
         WriteMem(st, AddrOf(st, i.base) + i.doff,
                  [k \in 0 .. i.n - 1 |-> Byte(st, AddrOf(st, i.arg) + i.boff + k)], i.n)
    [] i.op = "alloc" -> [SetV(st, i.to, Num(RoundUp(st.top, 2^(i.al + 2))))
                            EXCEPT !.top = Room(st, i.al, i.n)]
    [] i.op = "salloc" -> LET s1 == [st EXCEPT !.sp = @ + st.sallocsign * i.n]
                          IN  SetV(s1, i.to, Num(s1.sp))
    [] i.op = "addr" -> SetV(st, i.to, Num(AddrOf(st, i.arg)))
    [] i.op = "push" -> LET s1 == [st EXCEPT !.sp = @ - 4]
                        IN  WriteMem(s1, s1.sp, Val(st, i.arg), 4)

Run(st, code) == FoldLeft(Exec, st, code)

(* The registers a straight piece of code reads before it writes them.     *)
ReadsOf(i) == ({IF "arg" \in DOMAIN i THEN i.arg ELSE R}
               \cup {IF "base" \in DOMAIN i THEN i.base ELSE R}) \cap 1 .. Tmp0 - 1
WritesOf(i) == {IF "to" \in DOMAIN i THEN i.to ELSE R}
LiveIn(code) == FoldRight(LAMBDA i, s : (s \ WritesOf(i)) \cup ReadsOf(i), code, {})
=============================================================================
