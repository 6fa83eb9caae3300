------------------------------- MODULE IlRun -------------------------------
(***************************************************************************)
(* The meaning of the intermediate language (doc/il.txt), as far as the    *)
(* middle end can change it: temporaries and memory, byte by byte.  A byte *)
(* is a number below 256, a symbol that stands for an unknown one, the     *)
(* fill that extends the sign of one, a byte of an address, or Junk, which *)
(* nothing defines: memory nobody wrote, the upper half of a word in a     *)
(* temporary.                                                              *)
(***************************************************************************)
EXTENDS Il

Junk == -1
Zero == [k \in 1..8 |-> 0]
Undefined == [k \in 1..8 |-> Junk]
Symbol(n, o) == [k \in 1..8 |-> 1000 * (n + 1) + 10 * o + k]
Sign(x) == IF x = Junk \/ x > 1000000 THEN x
           ELSE IF x < 128 THEN 0 ELSE IF x < 256 THEN 255 ELSE 1000000 + x
Addr(o, off) == [k \in 1..8 |-> 10000 + 1000 * o + 10 * off + k]
IsAddr(v) == v[1] \in 10000..999999 /\ \A k \in 1..8 : v[k] = v[1] + k - 1
ObjOf(v) == (v[1] - 10000) \div 1000
OffOf(v) == ((v[1] - 10000) % 1000) \div 10

(* Symbols are objects too, above every temporary.                         *)
Global(label) == 90 + label

ConVal(r) ==
  CASE r = R -> Zero
    [] IsNum(r) -> [Zero EXCEPT ![1] = Num(r)]
    [] IsSym(r) -> Addr(Global(Label(r)), SymOff(r))
    [] IsMask(r) -> [k \in 1..8 |-> IF k - 1 \in MaskOf(r) THEN 255 ELSE 0]
Val(env, r) == IF IsTmp(r) THEN env[r] ELSE ConVal(r)

(* A word or a single leaves the upper half of the temporary to chance.    *)
AsClass(k, v) == [i \in 1..8 |-> IF i > 4 /\ ~IsWide(k) THEN Junk ELSE v[i]]

Extended(op, v) ==
  [i \in 1..8 |-> IF i <= ExtSize[op] THEN v[i]
                  ELSE IF op \in Signed THEN Sign(v[ExtSize[op]]) ELSE 0]

(* Shifts move whole bytes; a word shifts in zeros at its own top.         *)
Shifted(op, k, v, n) ==
  LET w == IF IsWide(k) THEN 8 ELSE 4
  IN [i \in 1..8 |-> LET j == IF op = "shl" THEN i - n ELSE i + n
                     IN IF j \in 1..w THEN v[j] ELSE 0]

And(x, y) == IF x = 0 \/ y = 0 THEN 0 ELSE IF y = 255 THEN x ELSE IF x = 255 THEN y ELSE Junk
Or(x, y) == IF x = 0 THEN y ELSE IF y = 0 THEN x ELSE Junk

Sum(v, w) ==
  CASE w = Zero -> v
    [] v = Zero -> w
    [] IsAddr(v) /\ w = [Zero EXCEPT ![1] = w[1]] /\ w[1] \in 0..15 -> Addr(ObjOf(v), OffOf(v) + w[1])
    [] OTHER -> Undefined

Computed(s, v, w) ==
  AsClass(s.cls,
    CASE s.op \in {"copy", "cast"} -> v
      [] s.op = "add" -> Sum(v, w)
      [] s.op = "and" -> [i \in 1..8 |-> And(v[i], w[i])]
      [] s.op = "or" -> [i \in 1..8 |-> Or(v[i], w[i])]
      [] s.op \in {"shl", "shr"} -> Shifted(s.op, s.cls, v, w[1] \div 8)
      [] s.op \in Exts -> Extended(s.op, v))

-----------------------------------------------------------------------------
(* A machine: temporaries, memory, the objects others may reach, the       *)
(* arguments given so far, the calls made, what they saw, and whether an   *)
(* address was used that is none.                                          *)
Start(p, mem) ==
  [env |-> [t \in 1..p.nt |-> Undefined], mem |-> mem, vis |-> DOMAIN mem,
   args |-> <<>>, calls |-> 0, seen |-> <<>>, bad |-> FALSE]

(* What can be reached from addresses held in visible memory.              *)
Held(mem, o) == {ObjOf(v) : v \in {w \in {[k \in 1..8 |-> mem[o][f + k]] :
                                            f \in 0..(Len(mem[o]) - 8)} : IsAddr(w)}}
Reached(mem, from) ==
  LET reach[S \in SUBSET Nat] ==
        LET T == S \cup UNION {Held(mem, o) : o \in S \cap DOMAIN mem}
        IN IF T = S THEN S ELSE reach[T]
  IN reach[from]

InRange(m, v, sz) == IsAddr(v) /\ ObjOf(v) \in DOMAIN m.mem /\ OffOf(v) + sz <= Len(m.mem[ObjOf(v)])

Loaded(s, m, v) ==
  LET raw == [k \in 1..8 |-> IF k <= LoadSz(s) THEN m.mem[ObjOf(v)][OffOf(v) + k] ELSE 0]
  IN AsClass(s.cls, IF s.op = "load" THEN raw ELSE Extended(ExtOf[s.op], raw))
Stored(s, m, v) ==
  LET f == OffOf(v)
      w == Val(m.env, s.arg[1])
  IN [m.mem EXCEPT ![ObjOf(v)] = [k \in DOMAIN @ |-> IF k - f \in 1..StoreSz(s) THEN w[k - f] ELSE @[k]]]

(* A call sees its arguments and what is visible, and writes all of it.    *)
Called(s, m) ==
  LET vis == Reached(m.mem, m.vis \cup {ObjOf(v) : v \in {w \in Range(m.args) : IsAddr(w)}})
                \cap DOMAIN m.mem
      n == m.calls + 1
  IN [m EXCEPT !.env = IF s.to = R THEN @ ELSE [@ EXCEPT ![s.to] = AsClass(s.cls, Symbol(n, 0))],
               !.mem = [o \in DOMAIN @ |-> IF o \in vis THEN [k \in 1..Len(m.mem[o]) |-> Symbol(n, o)[k]] ELSE @[o]],
               !.vis = vis, !.args = <<>>, !.calls = n,
               !.seen = Append(@, m.args \o [j \in 1..Cardinality(vis) |-> m.mem[SetToSortSeq(vis, <)[j]]])]

Stepped(m, s) ==
  LET v == Val(m.env, s.arg[1])
      a == IF s.op \in Stores THEN Val(m.env, s.arg[2]) ELSE v
  IN IF m.bad \/ s.op = "nop" THEN m
     ELSE IF s.op \in Loads THEN
       IF ~InRange(m, a, LoadSz(s)) THEN [m EXCEPT !.bad = TRUE]
       ELSE [m EXCEPT !.env[s.to] = Loaded(s, m, a)]
     ELSE IF s.op \in Stores THEN
       IF ~InRange(m, a, StoreSz(s)) THEN [m EXCEPT !.bad = TRUE]
       ELSE [m EXCEPT !.mem = Stored(s, m, a)]
     ELSE IF s.op = "alloc" THEN
       [m EXCEPT !.env[s.to] = Addr(s.to, 0),
                 !.mem = [o \in {s.to} |-> [k \in 1..Num(s.arg[1]) |-> Junk]] @@ @]
     ELSE IF s.op = "arg" THEN [m EXCEPT !.args = Append(@, AsClass(s.cls, v))]
     ELSE IF s.op = "call" THEN Called(s, m)
     ELSE IF s.op = "par" THEN
       [m EXCEPT !.env[s.to] = IF IsSym(s.arg[1]) THEN v ELSE AsClass(s.cls, Symbol(0, s.to))]
     ELSE [m EXCEPT !.env[s.to] = Computed(s, v, Val(m.env, s.arg[2]))]

(* The phis of a block all at once, then its instructions.                 *)
PhiVal(m, f, from) ==
  LET js == {j \in DOMAIN f.arg : f.blk[j] = from}
  IN IF js = {} THEN Undefined ELSE AsClass(f.cls, Val(m.env, f.arg[CHOOSE j \in js : TRUE]))
RunBlk(p, m, b, from) ==
  LET phis == p.blk[b].phi
      entered == [m EXCEPT !.env = [t \in DOMAIN @ |->
                    IF \E j \in DOMAIN phis : phis[j].to = t
                    THEN PhiVal(m, phis[CHOOSE j \in DOMAIN phis : phis[j].to = t], from) ELSE @[t]]]
  IN FoldLeft(Stepped, [entered EXCEPT !.seen = <<>>], p.blk[b].ins)

(* Bytes the original leaves undefined may be anything.                    *)
Agree(v, w) == Len(v) = Len(w) /\ \A k \in DOMAIN v : v[k] = Junk \/ v[k] = w[k]
=============================================================================
