------------------------------ MODULE LoadOpt ------------------------------
(***************************************************************************)
(* Alias analysis (alias.c) and load elimination (load.c).  def() looks    *)
(* backwards for what a load would return, block after block, and logs the *)
(* instructions and phis that put it together; when it cannot tell, it     *)
(* takes everything it logged back.  Bytes are counted, not bits: a mask   *)
(* is a set of bytes.  Every Blk.loop is still 0 here, fillloop() runs     *)
(* after instruction selection, so a location is never LLoad and load() is *)
(* never reached: giving up means returning R.                             *)
(***************************************************************************)
EXTENDS Il

-----------------------------------------------------------------------------
(* An alias is [type, base, off]; slots that escape are kept in a set,     *)
(* which is what Alias.slot->type tells.                                   *)
Bot == [type |-> "bot", base |-> R, off |-> 0]
ConAlias(r) ==
  IF IsSym(r) THEN [type |-> "sym", base |-> Label(r), off |-> SymOff(r)]
  ELSE [type |-> "con", base |-> R, off |-> Num(r)]
AliasOf(al, r) == IF IsTmp(r) THEN al[r] ELSE ConAlias(r)

Escaped(al, r) == IF IsTmp(r) /\ al[r].type = "stk" THEN {al[r].base} ELSE {}
Offset(a, d) == [a EXCEPT !.off = @ + d]

InsAlias(al, s) ==
  LET a0 == AliasOf(al, s.arg[1])
      a1 == AliasOf(al, s.arg[2])
      own == [type |-> IF s.op = "alloc" THEN "stk" ELSE "unk", base |-> s.to, off |-> 0]
  IN CASE s.op = "copy" -> a0
       [] s.op = "add" /\ a0.type = "con" -> Offset(a1, a0.off)
       [] s.op = "add" /\ a0.type # "con" /\ a1.type = "con" -> Offset(a0, a1.off)
       [] OTHER -> own

EscOf(al, s) ==
  (IF s.op \in Loads THEN {} ELSE Escaped(al, s.arg[1]))
    \cup (IF s.op \in Stores THEN {} ELSE Escaped(al, s.arg[2]))

(* fillalias(): x is the aliases and the slots that escape.                *)
AliasPhi(x, f) ==
  [al |-> [x.al EXCEPT ![f.to] = [type |-> "unk", base |-> f.to, off |-> 0]],
   esc |-> x.esc \cup UNION {Escaped(x.al, r) : r \in Range(f.arg)}]
AliasIns(x, s) ==
  LET al == IF s.to = R THEN x.al ELSE [x.al EXCEPT ![s.to] = InsAlias(x.al, s)]
  IN [al |-> al,
      esc |-> IF s.to = R \/ al[s.to].type = "unk" THEN x.esc \cup EscOf(al, s) ELSE x.esc]
AliasBlk(x, b) ==
  LET y == FoldLeft(AliasIns, FoldLeft(AliasPhi, x, b.phi), b.ins)
  IN [y EXCEPT !.esc = @ \cup Escaped(y.al, b.jmp)]
FillAlias(p) == FoldLeft(AliasBlk, [al |-> [t \in 1..p.nt |-> Bot], esc |-> {}], p.blk)

(* alias(): how sz bytes at r and n bytes at q overlap.                    *)
Escapes(x, r) == ~IsTmp(r) \/ x.al[r].type # "stk" \/ x.al[r].base \in x.esc
IsLocal(x, a) == a.type = "stk" /\ a.base \notin x.esc
AliasTest(x, r, sz, q, n) ==
  LET a == AliasOf(x.al, r)
      b == AliasOf(x.al, q)
      over == a.off < b.off + n /\ b.off < a.off + sz
      Kind == a.type
  IN IF Kind = b.type /\ (a.base = b.base \/ Kind = "con") THEN (IF over THEN "must" ELSE "no")
     ELSE IF Kind = b.type /\ Kind = "sym" THEN "may"
     ELSE IF (Kind = "unk" /\ ~IsLocal(x, b)) \/ (b.type = "unk" /\ ~IsLocal(x, a)) THEN "may"
     ELSE "no"
Delta(x, r, q) == AliasOf(x.al, r).off - AliasOf(x.al, q).off

-----------------------------------------------------------------------------
(* def() hands along the log, the temporaries and their classes, and the   *)
(* number of the next insertion; rs is a reference and such a state.       *)
(* An insertion is [phi, num, bid, off, ins] or, for a phi, has the slice  *)
(* it is for and its arguments.                                            *)
Spots == [blk : Nat, off : Nat]
Entries == [phi : {FALSE}, num : Nat, bid : Nat, off : Nat, ins : Instrs]
  \cup [phi : {TRUE}, bid : Nat, ref : Int, sz : Nat, to : Nat, cls : Classes, arg : Seq(Int), blk : Seq(Nat)]
States == [log : Seq(Entries), nt : Nat, cls : Seq(Classes), num : Nat]
At(b, off) == [blk |-> b, off |-> off]
NewTmp(st, k) == [st EXCEPT !.nt = @ + 1, !.cls = Append(@, k)]

Logged(st, ins, l) ==
  [st EXCEPT !.num = @ + 1,
             !.log = Append(@, [phi |-> FALSE, num |-> st.num, bid |-> l.blk, off |-> l.off, ins |-> ins])]
IIns(rs, k, op, a1, l) ==
  [r |-> rs.st.nt + 1,
   st |-> Logged(NewTmp(rs.st, k), Ins(op, k, rs.st.nt + 1, rs.r, a1), l)]

ClassOf(rs, k) == IF IsTmp(rs.r) THEN rs.st.cls[rs.r] ELSE k
CastIf(c, rs, k, l) == IF c THEN IIns(rs, k, "cast", R, l) ELSE rs
Widened(rs, k, k0, l) ==
  CastIf(k = "d", IIns(CastIf(k0 = "s", rs, "w", l), "l", "extuw", R, l), "d", l)
Cast(rs, k, l) ==
  LET k0 == ClassOf(rs, k)
  IN IF k0 = k \/ (k = "w" /\ k0 = "l") THEN rs
     ELSE IF ~IsWide(k0) /\ IsWide(k) THEN Widened(rs, k, k0, l)
     ELSE CastIf(k0 # "d" \/ k # "w", CastIf(k0 = "d" /\ k # "l", rs, "l", l), k, l)

Mask(rs, k, m, l) == IIns(Cast(rs, k, l), k, "and", MaskCon(m), l)

KillSl(x, r, sl) == IsTmp(sl.ref) /\ x.al[sl.ref].type \in {"stk", "unk"} /\ x.al[sl.ref].base = r

(* Taking everything back; the insertion number goes on.                   *)
(* Bug: what was logged stays there.                                      *)
FailKept(old, st) == [r |-> R, st |-> st]
Fail(old, st) == [r |-> R, st |-> [old EXCEPT !.num = st.num]]

(* The value of an access at an offset d from the slice, under the mask.   *)
Shift(rs, sl, d, cls, l) ==
  LET op == IF d < 0 THEN "shl" ELSE "shr"
      k == IF d > 0 /\ d + sl.sz > 4 THEN "l" ELSE cls
  IN IF d = 0 THEN rs ELSE IIns(Cast(rs, k, l), k, op, Con(8 * (IF d < 0 THEN -d ELSE d)), l)

(* The search goes on through def[msk, b, i, l, st], def() for the slice:  *)
(* the bytes wanted, the block and the position to start from, where what  *)
(* is inserted goes, and the state.                                        *)

(* The phi for slice sl at b, then its arguments, one for each predecessor.*)
PhiArg(p, sl, at, def, rs, bp) ==
  LET n == Len(p.blk[bp].ins)
      a == def[Bytes(0, sl.sz), bp, n, At(bp, n), rs.st]
  IN IF rs.r = R THEN rs
     ELSE IF a.r = R THEN a
     ELSE [rs EXCEPT !.st =
            [a.st EXCEPT !.log[at].arg = Append(@, a.r), !.log[at].blk = Append(@, bp)]]
PhiArgs(p, sl, b, at, def, rs) ==
  FoldLeft(LAMBDA q, bp : PhiArg(p, sl, at, def, q, bp), rs, Preds(p, b))

SliceCls(sl) == IF sl.sz > 4 THEN "l" ELSE "w"
Masked(rs, sl, msk, l) ==
  IF msk # Bytes(0, sl.sz) THEN Mask(rs, SliceCls(sl), msk, l) ELSE Cast(rs, sl.cls, l)
PhiOr(rs, sl, msk, l, old) ==
  IF rs.r = R THEN Fail(old, rs.st) ELSE Masked(rs, sl, msk, l)
ByPhi(p, sl, msk, b, l, st, def) ==
  LET st1 == NewTmp(st, sl.cls)
      entry == [phi |-> TRUE, bid |-> b, ref |-> sl.ref, sz |-> sl.sz,
                to |-> st1.nt, cls |-> sl.cls, arg |-> <<>>, blk |-> <<>>]
  IN PhiOr(PhiArgs(p, sl, b, Len(st.log) + 1, def,
                   [r |-> st1.nt, st |-> [st1 EXCEPT !.log = Append(@, entry)]]), sl, msk, l, st)

(* At the top of a block: a phi logged before, one predecessor, or many.   *)
PhiHits(sl, b, st) ==
  {j \in DOMAIN st.log : LET e == st.log[j]
                         IN e.phi /\ e.bid = b /\ e.ref = sl.ref /\ e.sz = sl.sz}
FromPreds(p, x, sl, msk, b, l, st, def, preds, hits) ==
  IF hits # {} THEN Masked([r |-> st.log[Min(hits)].to, st |-> st], sl, msk, l)
  ELSE IF (\E f \in Range(p.blk[b].phi) : KillSl(x, f.to, sl)) \/ preds = <<>> THEN Fail(st, st)
  ELSE IF Len(preds) = 1 THEN def[msk, preds[1], Len(p.blk[preds[1]].ins), l, st]
  ELSE ByPhi(p, sl, msk, b, l, st, def)

(* An access that overlaps: what it gives, or-ed with the rest.            *)
(* Bug: only bytes already found are masked, not those beside a narrow     *)
(* access.                                                                 *)
CutFound(rs, sl, msk, m1, sz, d, l) ==
  IF ~(m1 \subseteq msk) THEN Mask(rs, SliceCls(sl), m1 \cap msk, l) ELSE rs
Cut(rs, sl, msk, m1, sz, d, l) ==
  IF ~(m1 \subseteq msk) \/ (IF d < 0 THEN -d ELSE d) + sz < sl.sz
  THEN Mask(rs, SliceCls(sl), m1 \cap msk, l) ELSE rs
OrRest(cut, rest, sl, l, old) ==
  IF rest.r = R THEN Fail(old, rest.st)
  ELSE IIns([r |-> cut.r, st |-> rest.st], SliceCls(sl), "or", rest.r, l)
Whole(rs, sl, msk, l) ==
  IF rs.r = R \/ msk # Bytes(0, sl.sz) THEN rs ELSE Cast(rs, sl.cls, l)
Rest(sl, msk, b, i, l, st, def, m1, cut) ==
  IF msk \subseteq m1 THEN cut
  ELSE OrRest(cut, def[msk \ m1, b, i - 1, l, cut.st], sl, l, st)
FromAccess(sl, msk, b, i, l, st, def, m1, src, sz, d) ==
  Whole(Rest(sl, msk, b, i, l, st, def, m1,
             Cut(Shift([r |-> src, st |-> st], sl, d, SliceCls(sl), l), sl, msk, m1, sz, d, l)),
        sl, msk, l)

(* The instructions of b before position i, from the last one up.          *)
Covered(sl, d, sz) == {k - d : k \in 0..sz - 1} \cap Bytes(0, sl.sz)
DefAt(x, sl, msk, b, i, l, st, def, s, kind, sz, d) ==
  IF KillSl(x, s.to, sl) \/ (s.op = "call" /\ Escapes(x, sl.ref)) THEN Fail(st, st)
  ELSE IF kind = "must" /\ Covered(sl, d, sz) \cap msk # {}
  THEN FromAccess(sl, msk, b, i, l, st, def, Covered(sl, d, sz),
                  IF s.op \in Loads THEN s.to ELSE s.arg[1], sz, d)
  ELSE IF kind = "may" /\ s.op \in Stores THEN Fail(st, st)
  ELSE def[msk, b, i - 1, l, st]
AccessSz(s) == IF s.op \in Loads THEN LoadSz(s) ELSE StoreSz(s)
AccessAt(s) == IF s.op \in Loads THEN s.arg[1] ELSE s.arg[2]
DefIns(x, sl, msk, b, i, l, st, def, s) ==
  IF s.op \in Loads \cup Stores
  THEN DefAt(x, sl, msk, b, i, l, st, def, s, AliasTest(x, sl.ref, sl.sz, AccessAt(s), AccessSz(s)),
             AccessSz(s), Delta(x, sl.ref, AccessAt(s)))
  ELSE DefAt(x, sl, msk, b, i, l, st, def, s, "no", 0, 0)
Def(p, x, sl) ==
  LET def[msk \in SUBSET (0..7), b \in Nat, i \in Nat, l \in Spots, st \in States] ==
        IF i = 0 THEN FromPreds(p, x, sl, msk, b, l, st, def, Preds(p, b), PhiHits(sl, b, st))
        ELSE DefIns(x, sl, msk, b, i, l, st, def, p.blk[b].ins[i])
  IN def

-----------------------------------------------------------------------------
(* loadopt(): every load in turn, then the log is sorted and worked in.    *)
LoadsOf(p) == FlattenSeq([b \in Ids(p) |->
  FlattenSeq([j \in DOMAIN p.blk[b].ins |-> IF p.blk[b].ins[j].op \in Loads THEN << <<b, j>> >> ELSE <<>>])])
StartState(p) == [log |-> <<>>, nt |-> p.nt, cls |-> ClsOf(p), num |-> 0]

Search(p, x, st, b, j) ==
  LET s == p.blk[b].ins[j]
      sl == [ref |-> s.arg[1], sz |-> LoadSz(s), cls |-> s.cls]
  IN Def(p, x, sl)[Bytes(0, sl.sz), b, j - 1, At(b, j - 1), st]
Searched(p, b, j, r) == [p EXCEPT !.blk[b].ins[j].arg[2] = r]

Replaced(s) ==
  IF s.op \notin Loads \/ s.arg[2] = R THEN s
  ELSE Ins(IF s.op = "load" \/ (s.op \in {"loadsw", "loaduw"} /\ s.cls # "l") THEN "copy" ELSE ExtOf[s.op],
           s.cls, s.to, s.arg[2], R)

(* icmp() puts the phis of a block first, and orders its instructions by   *)
(* their place and then by the number of the insertion.                    *)
Before(e, f) == e.off < f.off \/ (e.off = f.off /\ e.num < f.num)
InsertedAt(log, b, off) ==
  LET S == {e \in Range(log) : ~e.phi /\ e.bid = b /\ e.off = off}
      sorted == SetToSortSeq(S, Before)
  IN [j \in DOMAIN sorted |-> sorted[j].ins]
NewPhis(log, b) ==
  LET found == SelectSeq(log, LAMBDA e : e.phi /\ e.bid = b)
  IN Reverse([j \in DOMAIN found |->
       [to |-> found[j].to, cls |-> found[j].cls, arg |-> found[j].arg, blk |-> found[j].blk]])
Inserted(p, st) ==
  [p EXCEPT !.nt = st.nt, !.blk = [b \in DOMAIN @ |->
    [@[b] EXCEPT !.phi = NewPhis(st.log, b) \o @,
                 !.ins = FlattenSeq([j \in 1..Len(@) + 1 |->
                   InsertedAt(st.log, b, j - 1) \o
                     (IF j <= Len(@) THEN <<Replaced(@[j])>> ELSE <<>>)])]]]
=============================================================================
