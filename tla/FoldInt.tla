------------------------------- MODULE FoldInt -------------------------------
(***************************************************************************)
(* opfold() and foldint() (fold.c): what the compiler computes, in 64 bits,*)
(* for an integer operation on constants.  A constant is [label, i]: a     *)
(* number when the label is 0, else that many bytes behind a symbol; a     *)
(* constant of class w may hold anything above its low word.  LongBits     *)
(* stands for the 64 bits of Con.bits, a word is half of it, half of that  *)
(* is a halfword, and half of that a byte.                                 *)
(***************************************************************************)
EXTENDS Integers, Sequences, Bitwise

CONSTANTS
  LongBits,   \* bits of a long: 8, or more
  Operands,   \* the patterns operands hold, below 2^LongBits
  Placements  \* where two symbols may be: pairs of addresses

VARIABLES
  expr,  \* the operation: [op, k, l, r]
  res    \* what opfold() made of it

None == [op |-> "none"]
Bot == [label |-> -1, i |-> 0]
(* The compiler itself divides by zero, or overflows dividing: undefined in *)
(* C, and a trap where qbe runs on amd64.                                  *)
Trap == [label |-> -2, i |-> 0]

Bits(k) == IF k = "l" THEN LongBits ELSE LongBits \div 2
ExtBits(op) ==
  CASE op \in {"extsb", "extub"} -> LongBits \div 8
    [] op \in {"extsh", "extuh"} -> LongBits \div 4
    [] op \in {"extsw", "extuw"} -> LongBits \div 2
U(n, x) == x % 2 ^ n
S(n, x) == IF U(n, x) < 2 ^ (n - 1) THEN U(n, x) ELSE U(n, x) - 2 ^ n
Sign(x) == IF x < 0 THEN -1 ELSE 1
Mag(x) == IF x < 0 THEN -x ELSE x
(* C divides towards zero.                                                 *)
Quot(x, y) == Sign(x) * Sign(y) * (Mag(x) \div Mag(y))
Rem(x, y) == x - y * Quot(x, y)
Undefined(op, n, x, y) ==
  \/ U(n, y) = 0
  \/ op \in {"div", "rem"} /\ S(n, x) = -(2 ^ (n - 1)) /\ S(n, y) = -1

Binary == {"add", "sub", "mul", "and", "or", "xor", "div", "rem", "udiv", "urem", "sar", "shr", "shl"}
Exts == {"extsb", "extub", "extsh", "extuh", "extsw", "extuw"}
Cmps == {"eq", "ne", "sge", "sgt", "sle", "slt", "uge", "ugt", "ule", "ult"}
Dividing == {"div", "rem", "udiv", "urem"}

-----------------------------------------------------------------------------
(* czero(), the test before a division, and the cast foldint() makes when  *)
(* the class is a word.                                                    *)
(* Bug: the whole constant is tested.                                      *)
CZeroAll(c, k) == c.label = 0 /\ c.i = 0
CZero(c, k) == c.label = 0 /\ U(Bits(k), c.i) = 0
Sized(k, x) == S(Bits(k), x)
USized(k, x) == U(Bits(k), x)

(* The class of the result is not used to extend it: x is 64 bits.         *)
Computed(op, k, l, r) ==
  LET by == r % Bits(k)      \* r.u & (31|w<<5)
  IN CASE op = "add" -> l + r
       [] op = "sub" -> l - r
       [] op = "neg" -> -l
       [] op = "mul" -> l * r
       [] op = "div" -> Quot(Sized(k, l), Sized(k, r))
       [] op = "rem" -> Rem(Sized(k, l), Sized(k, r))
       [] op = "udiv" -> USized(k, l) \div USized(k, r)
       [] op = "urem" -> USized(k, l) % USized(k, r)
       [] op = "and" -> l & r
       [] op = "or" -> l | r
       [] op = "xor" -> l ^^ r
       [] op = "sar" -> Sized(k, l) \div 2 ^ by
       [] op = "shr" -> USized(k, l) \div 2 ^ by
       [] op = "shl" -> l * 2 ^ by
       [] op \in {"extsb", "extsh", "extsw"} -> S(ExtBits(op), l)
       [] op \in {"extub", "extuh", "extuw"} -> U(ExtBits(op), l)

(* Comparisons of words are comparisons of what sign extension makes them. *)
Compared(op, l, r) ==
  LET s == S(LongBits, l) t == S(LongBits, r)
  IN CASE op = "eq" -> l = r [] op = "ne" -> l # r
       [] op = "sge" -> s >= t [] op = "sgt" -> s > t [] op = "sle" -> s <= t [] op = "slt" -> s < t
       [] op = "uge" -> l >= r [] op = "ugt" -> l > r [] op = "ule" -> l <= r [] op = "ult" -> l < r
Extended(of, x) == IF of = "w" THEN U(LongBits, S(LongBits \div 2, x)) ELSE x

(* What becomes of addresses: the label of the result, or none.            *)
Labelled(op, l, r) ==
  CASE op = "add" -> IF l.label # 0 /\ r.label # 0 THEN -1 ELSE l.label + r.label
    [] op = "sub" -> IF r.label = 0 THEN l.label ELSE IF l.label = r.label THEN 0 ELSE -1
    [] OTHER -> IF l.label # 0 \/ r.label # 0 THEN -1 ELSE 0

FoldInt(e) ==
  LET label == Labelled(e.op, e.l, e.r)
      pair == <<Extended(e.of, e.l.i), Extended(e.of, e.r.i)>>
  IN IF label = -1 THEN Bot
     ELSE IF e.op \in Dividing /\ Undefined(e.op, Bits(e.k), e.l.i, e.r.i) THEN Trap
     ELSE [label |-> label,
           i |-> IF e.op \in Cmps THEN IF Compared(e.op, pair[1], pair[2]) THEN 1 ELSE 0
                 ELSE U(LongBits, Computed(e.op, e.k, e.l.i, e.r.i))]
OpFold(e) == IF e.op \in Dividing /\ CZero(e.r, e.k) THEN Bot ELSE FoldInt(e)

-----------------------------------------------------------------------------
(* The operations: of is the class a comparison compares.                  *)
Numbers == {[label |-> 0, i |-> x] : x \in Operands}
Addresses == {[label |-> s, i |-> x] : s \in {1, 2}, x \in {0, 3}}
Zero == [label |-> 0, i |-> 0]
Op(op, k, of, l, r) == [op |-> op, k |-> k, of |-> of, l |-> l, r |-> r]
Exprs ==
  {Op(o, k, k, l, r) : o \in Binary, k \in {"w", "l"}, l, r \in Numbers}
  \cup {Op(o, k, of, l, r) : o \in Cmps, k \in {"w", "l"}, of \in {"w", "l"}, l, r \in Numbers}
  \cup {Op(o, k, k, l, Zero) : o \in {"neg"} \cup Exts, k \in {"w", "l"}, l \in Numbers}
  \cup {Op(o, "l", "l", l, r) : o \in Binary \cup Cmps, l \in Addresses, r \in Addresses \cup Numbers}
  \cup {Op(o, "l", "l", l, r) : o \in Binary \cup Cmps, l \in Numbers, r \in Addresses}

Init == expr = None /\ res = Bot
Fold == expr = None /\ expr' \in Exprs /\ res' = OpFold(expr')

-----------------------------------------------------------------------------
(* What doc/il.txt says of z, the low n bits of the result, for the        *)
(* operands x and y.                                                       *)
At(c, place) == U(LongBits, (IF c.label = 0 THEN 0 ELSE place[c.label]) + c.i)
Bit(x, j) == (x \div 2 ^ j) % 2
IsQuot(q, x, y) == LET d == x - q * y
                   IN Mag(d) < Mag(y) /\ (d = 0 \/ (d < 0) = (x < 0))
IsRem(d, x, y) == \E q \in -2 ^ LongBits..2 ^ LongBits : d = x - q * y /\ IsQuot(q, x, y)
Means(e, z, x, y) ==
  LET n == Bits(e.k)
      o == Bits(e.of)
      u == U(n, x) v == U(n, y) s == S(n, x) t == S(n, y)
      by == U(n, y) % n
  IN CASE e.op = "add" -> z = (u + v) % 2 ^ n
       [] e.op = "sub" -> (z + v) % 2 ^ n = u
       [] e.op = "neg" -> (z + u) % 2 ^ n = 0
       [] e.op = "mul" -> z = (s * t) % 2 ^ n
       [] e.op = "div" -> IsQuot(S(n, z), s, t)
       [] e.op = "rem" -> IsRem(S(n, z), s, t)
       [] e.op = "udiv" -> IsQuot(z, u, v)
       [] e.op = "urem" -> IsRem(z, u, v)
       [] e.op = "and" -> \A j \in 0..n - 1 : Bit(z, j) = Bit(u, j) * Bit(v, j)
       [] e.op = "or" -> \A j \in 0..n - 1 : Bit(z, j) = Bit(u, j) + Bit(v, j) - Bit(u, j) * Bit(v, j)
       [] e.op = "xor" -> \A j \in 0..n - 1 : Bit(z, j) = (Bit(u, j) + Bit(v, j)) % 2
       [] e.op \in {"sar", "shr"} ->
            \A j \in 0..n - 1 : Bit(z, j) = IF j + by < n THEN Bit(u, j + by)
                                            ELSE IF e.op = "sar" THEN Bit(u, n - 1) ELSE 0
       [] e.op = "shl" -> \A j \in 0..n - 1 : Bit(z, j) = IF j < by THEN 0 ELSE Bit(u, j - by)
       [] e.op \in Exts ->
            LET m == IF ExtBits(e.op) > n THEN n ELSE ExtBits(e.op)
            IN \A j \in 0..n - 1 : Bit(z, j) = IF j < m THEN Bit(u, j)
                                 ELSE IF e.op \in {"extsb", "extsh", "extsw"} THEN Bit(u, m - 1) ELSE 0
       [] e.op \in Cmps ->
            LET Holds == CASE e.op = "eq" -> U(o, x) = U(o, y) [] e.op = "ne" -> U(o, x) # U(o, y)
                           [] e.op = "sge" -> S(o, x) >= S(o, y) [] e.op = "sgt" -> S(o, x) > S(o, y)
                           [] e.op = "sle" -> S(o, x) <= S(o, y) [] e.op = "slt" -> S(o, x) < S(o, y)
                           [] e.op = "uge" -> U(o, x) >= U(o, y) [] e.op = "ugt" -> U(o, x) > U(o, y)
                           [] e.op = "ule" -> U(o, x) <= U(o, y) [] e.op = "ult" -> U(o, x) < U(o, y)
            IN z = IF Holds THEN 1 ELSE 0

(* A folded operation gives what the instruction would have given where    *)
(* the program runs, whatever the operands hold above their low word and   *)
(* wherever the symbols are; numbers are always folded unless they divide  *)
(* by zero; and folding never divides by zero, whatever czero() (fold.c:22)*)
(* was told: only the quotient that does not fit traps in the compiler.    *)
FoldOK ==
  expr # None =>
    LET n == Bits(expr.k)
    IN CASE res = Trap -> /\ expr.op \in {"div", "rem"}
                          /\ Mag(S(n, expr.l.i)) = 2 ^ (n - 1) * Mag(S(n, expr.r.i))
         [] res = Bot -> \/ expr.l.label # 0 \/ expr.r.label # 0
                         \/ expr.op \in Dividing /\ U(n, expr.r.i) = 0
         [] OTHER -> \A place \in Placements :
                       Means(expr, U(n, At(res, place)), At(expr.l, place), At(expr.r, place))
=============================================================================
