------------------------------- MODULE MCAbi --------------------------------
(* Signatures for Abi: every short list of arguments behind enough others  *)
(* to use the registers up, with results of every kind.                    *)
EXTENDS Abi

W == Scalar(Kw)
L == Scalar(Kl)
S == Scalar(Ks)
D == Scalar(Kd)
T(ms) == ParseStruct(-1, ms)
One == T(<<Member("b", 3)>>)
TwoInt == T(<<Member("l", 1), Member("w", 1)>>)
TwoFloat == T(<<Member("s", 2)>>)
ThreeFloat == T(<<Member("s", 3)>>)
TwoDouble == T(<<Member("d", 2)>>)
Mixed == T(<<Member("b", 1), Member("d", 1)>>)
MixedIn == T(<<Member("s", 1), Member("h", 1)>>)
Big == T(<<Member("l", 2), Member("b", 1)>>)
Wide == ParseStruct(4, <<Member("l", 4)>>)
Either == ParseUnion(-1, <<<<Member("d", 1)>>, <<Member("w", 1), Member("b", 1)>>>>)
Outer == T(<<Member("h", 1), Nested(MixedIn, 1)>>)
Before == T(<<Nested(T(<<Member("s", 1)>>), 1), Member("s", 1)>>)
Opaque == ParseDark(3, 24)
Empty == T(<<Member("w", 0)>>)

Types == {One, TwoInt, TwoFloat, ThreeFloat, TwoDouble, Mixed, MixedIn, Big, Either, Outer, Opaque}
Few == {One, TwoInt, TwoFloat, ThreeFloat, TwoDouble, Mixed, MixedIn, Big, Either, Opaque}
Times(a, n) == [i \in 1 .. n |-> a]
Fill(n, m) == Times(L, n) \o Times(D, m)

Args1 == {W, L, S, D} \cup {Aggregate(t) : t \in Few}
Lists == {<<>>} \cup {<<a>> : a \in Args1 \cup {Aggregate(t) : t \in Types}} \cup {<<a, b>> : a, b \in Args1}
Fills(n, m) == {<<>>, Fill(n - 1, 0), Fill(n, 0), Fill(n - 2, m - 1), Fill(0, m), Fill(n, m)}
Results == {L, D} \cup {Aggregate(t) : t \in Types}

Sig(args, ret) == [args |-> args, ret |-> ret]
Plain(n, m) == {Sig(f \o l, W) : f \in Fills(n, m), l \in Lists}
Returning1(n) == {Sig(f \o <<a>>, r) : f \in {<<>>, Fill(n - 1, 0)}, a \in {L, Aggregate(TwoInt)}, r \in Results}
WithEnv(n) == {Sig(<<Env>> \o f \o <<a>>, W) : f \in {<<>>, Fill(n, 0)}, a \in {L, Aggregate(TwoInt)}}
Ends == {<<L, D, L>>, <<D, D, L>>, <<L, L, D>>}
Dotty(n, m) == {Sig(f \o l \o <<Dots>> \o v, W) : f \in {<<L>>, Fill(n, 1), Fill(2, m)}, v \in Ends,
                 l \in {<<>>, <<Aggregate(TwoInt)>>, <<Aggregate(TwoFloat)>>}}
Brim(n) == {Sig(Fill(n - 1, 0) \o <<Aggregate(TwoInt), Dots>> \o v, W) : v \in Ends}
Sigs(n, m) == Plain(n, m) \cup Returning1(n) \cup WithEnv(n) \cup Dotty(n, m)
M68kSigs == {Sig(f, r) : f \in {<<W>>, <<W, W>>, <<W, W, W>>}, r \in {W}}
WideSigs == {Sig(f \o <<a>> \o <<b, c>>, r) : f \in {<<>>, Fill(6, 0)}, r \in {L, Aggregate(Wide)},
             a, b, c \in {L, Aggregate(Wide), Aggregate(Big)}}
BrimD(m) == {Sig(Fill(0, m - 1) \o <<Aggregate(Mixed), Dots>> \o v, W) : v \in Ends}
NestedSigs(t) == {Sig(<<Aggregate(u)>>, W) : u \in {Outer, Before}}
ClosedSigs(t) == Brim(8)
IntRegs(t) == IF t = "amd64" THEN 6 ELSE 8
AllSigs(t) == IF t = "m68k" THEN M68kSigs
              ELSE Sigs(IntRegs(t), 8)
                   \cup (IF t = "arm64" THEN {} ELSE Brim(IntRegs(t)) \cup BrimD(8))
                   \cup (IF t = "amd64" THEN WideSigs ELSE {})
=============================================================================
