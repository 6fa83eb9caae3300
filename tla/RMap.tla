-------------------------------- MODULE RMap --------------------------------
(***************************************************************************)
(* The register map of rega.c (struct RMap and the functions on it) as     *)
(* operators on one record:                                                *)
(*   map    the pairs m->t[i], m->r[i] for i < m->n, in order              *)
(*   b      m->b, the temporaries mapped and the registers taken           *)
(*   w      m->w, per register the temporary waiting for it (0: none)      *)
(*   visit  tmp[].visit, the register a temporary had last (0: none)       *)
(*   hint   tmp[].hint of each phi class: register and loop depth          *)
(*   ok     FALSE once die("no more regs") was called                      *)
(* A register in use for itself (an argument of a call, a globally live    *)
(* one) is mapped to itself.  0 stands for the code's -1.                  *)
(***************************************************************************)
EXTENDS Integers, Sequences

CONSTANTS
  Temps,     \* the temporaries (t >= Tmp0)
  NGpr,      \* T.ngpr: registers 1..NGpr are of base class 0,
  NFpr,      \* T.nfpr: the NFpr next ones of base class 1
  KBase,     \* base class of each temporary
  Phicls,    \* phicls(): a representative of the temporary's phi class
  Avoid,     \* tmp[].hint.m of a phi class: registers better left alone
  MaxLoop    \* INT_MAX, the loop depth no block has

Regs == 1..(NGpr + NFpr)

ASSUME RMapAssumption ==
  /\ NGpr \in Nat /\ NFpr \in Nat /\ MaxLoop \in Nat
  /\ Temps \cap (0..(NGpr + NFpr)) = {}
  /\ KBase \in [Temps -> {0, 1}]
  /\ Phicls \in [Temps -> Temps]
  /\ \A t \in Temps : KBase[Phicls[t]] = KBase[t]
  /\ Avoid \in [Temps -> SUBSET Regs]

(* r0 <= r < r1 in ralloctry.                                              *)
ClassRegs(t) == IF KBase[t] = 0 THEN 1..NGpr ELSE (NGpr + 1)..(NGpr + NFpr)

RBase(r) == IF r <= NGpr THEN 0 ELSE 1

RMapType ==
  [map : Seq([t : Temps \cup Regs, r : Regs]),
   b : SUBSET (Temps \cup Regs),
   w : [Regs -> Temps \cup {0}],
   visit : [Temps -> Regs \cup {0}],
   hint : [Temps -> [r : Regs \cup {0}, w : 0..MaxLoop]],
   ok : BOOLEAN]

EmptyRMap ==
  [map |-> <<>>, b |-> {},
   w |-> [r \in Regs |-> 0],
   visit |-> [t \in Temps |-> 0],
   hint |-> [t \in Temps |-> [r |-> 0, w |-> MaxLoop]],
   ok |-> TRUE]

-----------------------------------------------------------------------------
Has(m, x) == x \in m.b
Idx(m, x) == {i \in DOMAIN m.map : m.map[i].t = x}

(* rfind: the register of x, 0 if it has none.                             *)
RFind(m, x) ==
  IF Idx(m, x) = {} THEN 0
  ELSE m.map[CHOOSE i \in Idx(m, x) : \A j \in Idx(m, x) : i <= j].r

(* The assertions of radd.                                                 *)
RAddOK(m, x, r) ==
  /\ x \in Temps \/ x = r
  /\ r \in Regs
  /\ ~Has(m, x) /\ ~Has(m, r)
  /\ Len(m.map) <= NGpr + NFpr

RAdd(m, x, r) ==
  [m EXCEPT !.b = @ \cup {x, r},
            !.map = Append(@, [t |-> x, r |-> r])]

(* rfree(m, x) needs the mapping its search stops at.                      *)
RFreeOK(m, x) == Has(m, x) => Idx(m, x) # {}

RFreeRegLeft(m, x) ==
  IF ~Has(m, x) THEN m
  ELSE LET i == CHOOSE i \in Idx(m, x) : \A j \in Idx(m, x) : i <= j
       IN [m EXCEPT !.b = @ \ {x},
                    !.map = SubSeq(@, 1, i - 1) \o SubSeq(@, i + 1, Len(@))]

RFree(m, x) ==
  IF ~Has(m, x) THEN m
  ELSE LET i == CHOOSE i \in Idx(m, x) : \A j \in Idx(m, x) : i <= j
       IN [m EXCEPT !.b = @ \ {x, m.map[i].r},
                    !.map = SubSeq(@, 1, i - 1) \o SubSeq(@, i + 1, Len(@))]

(* sethint at loop depth l: an outer loop's hint does not replace one.     *)
SetHint(m, t, r, l) ==
  LET h == m.hint[Phicls[t]]
  IN IF h.r = 0 \/ h.w > l
     THEN [m EXCEPT !.hint[Phicls[t]] = [r |-> r, w |-> l], !.visit[t] = 0]
     ELSE m

(* The register ralloctry would like best, 0 if that one is taken.         *)
Wanted(m, t) ==
  LET r == IF m.visit[t] = 0 \/ Has(m, m.visit[t])
           THEN m.hint[Phicls[t]].r ELSE m.visit[t]
  IN IF r = 0 \/ Has(m, r) THEN 0 ELSE r

MinOf(S) == CHOOSE r \in S : \A q \in S : r <= q

(* The first free register, preferably not one to avoid; 0: none.          *)
FirstFreeGoodOnly(m, t) ==
  LET good == {r \in ClassRegs(t) : ~Has(m, r)} \ Avoid[Phicls[t]]
  IN IF good # {} THEN MinOf(good) ELSE 0
FirstFree(m, t) ==
  LET free == {r \in ClassRegs(t) : ~Has(m, r)}
      good == free \ Avoid[Phicls[t]]
  IN IF good # {} THEN MinOf(good) ELSE IF free # {} THEN MinOf(free) ELSE 0

(* The end of ralloctry (label Found): map t to r and note the hint.       *)
Found(m, t, r, l) ==
  LET m1 == SetHint(RAdd(m, t, r), t, r, l)
      m2 == [m1 EXCEPT !.visit[t] = r]
      h == m2.hint[Phicls[t]].r
  IN IF h # 0 /\ h # r THEN [m2 EXCEPT !.w[h] = t] ELSE m2

(* ralloctry(m, x, try).                                                   *)
RAllocTry(m, x, try, l) ==
  IF Has(m, x) \/ x \notin Temps THEN m
  ELSE IF Wanted(m, x) # 0 THEN Found(m, x, Wanted(m, x), l)
  ELSE IF try THEN m
  ELSE IF FirstFree(m, x) # 0 THEN Found(m, x, FirstFree(m, x), l)
  ELSE [m EXCEPT !.ok = FALSE]

RAlloc(m, x, l) == RAllocTry(m, x, FALSE, l)

(* move(r, to, m); to = 0 stands for R.                                    *)
MoveTarget(r, to) == IF to = 0 THEN r ELSE to
Holder(m, r) == m.map[CHOOSE i \in DOMAIN m.map : m.map[i].r = r].t

(* Give r's holder another register: r is kept taken meanwhile.            *)
Evict(m, r, l) ==
  IF ~Has(m, r) THEN m
  ELSE LET x == Holder(m, r)
           m1 == [RFree(m, x) EXCEPT !.b = @ \cup {r}]
       IN [RAlloc(m1, x, l) EXCEPT !.b = @ \ {r}]

RMove(m, r, to, l) ==
  LET m1 == Evict(IF to = 0 THEN m ELSE RFree(m, to), r, l)
  IN IF m1.ok THEN RAdd(m1, MoveTarget(r, to), r) ELSE m1
=============================================================================
