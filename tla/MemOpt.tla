------------------------------- MODULE MemOpt -------------------------------
(***************************************************************************)
(* memopt() (mem.c): slots of the start block that are only loaded and     *)
(* stored, with one size and one class of stores, become temporaries.      *)
(***************************************************************************)
EXTENDS Il

IsUseOf(s, t, sz, k) ==
  \/ s.op \in Loads /\ LoadSz(s) = sz
  \/ /\ s.op \in Stores /\ s.arg[2] = t /\ s.arg[1] # t
     /\ StoreSz(s) = sz /\ StoreCls[s.op] = k
Uniform(p, t) ==
  /\ Cardinality(Defs(p, t)) = 1
  /\ \E sz \in {1, 2, 4, 8}, k \in {"w", "l", "s", "d"} :
       \A u \in Uses(p, t) : u.type = "ins" /\ IsUseOf(InsAt(p, u), t, sz, k)

SlotOps(p, t) == {InsAt(p, u) : u \in Uses(p, t)}
NeverStored(p, t) ==
  /\ \E s \in SlotOps(p, t) : s.op \in Loads
  /\ ~\E s \in SlotOps(p, t) : s.op \in Stores
SlotCls(p, t) == StoreCls[(CHOOSE s \in SlotOps(p, t) : s.op \in Stores).op]

(* A store becomes a copy to the temporary, a load a copy, a cast or an    *)
(* extension of it.                                                        *)
AsCopy(s, k) ==
  IF s.op \in Stores THEN Ins("copy", k, s.arg[2], s.arg[1], R)
  ELSE IF s.op = "load" \/ (s.op \in {"loadsw", "loaduw"} /\ k # "l")
  THEN [s EXCEPT !.op = IF IsFloat(k) # IsFloat(s.cls) THEN "cast" ELSE "copy"]
  ELSE [s EXCEPT !.op = ExtOf[s.op]]

Promoted(p, t) ==
  LET Changed(s) == IF s.op = "alloc" /\ s.to = t THEN Nop
                    ELSE IF t \in Range(s.arg) THEN AsCopy(s, SlotCls(p, t)) ELSE s
  IN [p EXCEPT !.blk = [b \in Ids(p) |-> [p.blk[b] EXCEPT !.ins = [j \in DOMAIN @ |-> Changed(@[j])]]]]

StartSlots(p) == {s.to : s \in {x \in Range(p.blk[1].ins) : x.op = "alloc"}}
ReadUnset(p) == \E t \in StartSlots(p) : Uniform(p, t) /\ NeverStored(p, t)
TrySlot(p, s) == IF s.op = "alloc" /\ Uniform(p, s.to) THEN Promoted(p, s.to) ELSE p
MemOpt(p) ==
  LET upto[j \in 0..Len(p.blk[1].ins)] ==
        IF j = 0 THEN p ELSE TrySlot(upto[j - 1], p.blk[1].ins[j])
  IN upto[Len(p.blk[1].ins)]
=============================================================================
