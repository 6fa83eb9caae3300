------------------------------- MODULE RegMap -------------------------------
(***************************************************************************)
(* One register map (rega.c's cur) under the operations doblk, dopm and    *)
(* rega's second phase apply to it while they walk the blocks backwards,   *)
(* in any order those callers may produce.  The hints and the last         *)
(* registers of the temporaries outlive a block; the map itself does not.  *)
(***************************************************************************)
EXTENDS RMap

VARIABLES
  m,    \* cur, with tmp[].visit and tmp[].hint
  loop  \* the loop depth of the block at work

vars == <<m, loop>>

Init ==
  /\ m = EmptyRMap
  /\ loop = MaxLoop

(* rega takes up the next block; carve() put the deepest loops first.      *)
NewBlock(l) ==
  /\ m.ok
  /\ l < MaxLoop /\ l <= loop
  /\ loop' = l
  /\ m' = [EmptyRMap EXCEPT !.visit = m.visit, !.hint = m.hint]

InBlock == m.ok /\ loop # MaxLoop

(* A temporary is used, or is live at the end of the block.                *)
Use(t) ==
  /\ InBlock
  /\ m' = RAlloc(m, t, loop)
  /\ loop' = loop

(* First round for the temporaries live at the end of the block.           *)
Try(t) ==
  /\ InBlock
  /\ m' = RAllocTry(m, t, TRUE, loop)
  /\ loop' = loop

(* A register live for itself: at the end of the block, or read by copies. *)
AddReg(r) ==
  /\ InBlock
  /\ ~Has(m, r)
  /\ m' = RAdd(m, r, r)
  /\ loop' = loop

(* The definition of a temporary or of a register used for itself.         *)
Free(x) ==
  /\ InBlock
  /\ Has(m, x) /\ RFreeOK(m, x)
  /\ m' = RFree(m, x)
  /\ loop' = loop

(* dopm: register r is copied to a temporary, or clobbered by a call.      *)
Move(r, to) ==
  /\ InBlock
  /\ to \in Temps => KBase[to] = RBase(r)
  /\ m' = RMove(m, r, to, loop)
  /\ loop' = loop

(* doblk: t is copied to register r, which it would like to be in.         *)
Hint(t, r) ==
  /\ InBlock
  /\ KBase[t] = RBase(r)
  /\ m' = SetHint(m, t, r, loop)
  /\ loop' = loop

(* doblk: register rf was freed and a temporary hinted to it waits.        *)
Waiter(rf) == m.w[rf]
RetargetFrom(rf) == RFree(m, Waiter(rf))
RetargetKeepVisit(rf) ==
  [RAlloc(RetargetFrom(rf), Waiter(rf), loop) EXCEPT !.w[rf] = 0]
Retargeted(rf) ==
  [RAlloc([RetargetFrom(rf) EXCEPT !.visit[Waiter(rf)] = 0], Waiter(rf), loop)
     EXCEPT !.w[rf] = 0]

Retarget(rf) ==
  /\ InBlock
  /\ Waiter(rf) # 0
  /\ ~Has(m, rf)
  /\ m.hint[Phicls[Waiter(rf)]].r = rf
  /\ Has(m, Waiter(rf))
  /\ m' = Retargeted(rf)
  /\ loop' = loop

Died == ~m.ok /\ UNCHANGED vars

Next ==
  \/ \E l \in 0..MaxLoop : NewBlock(l)
  \/ \E t \in Temps : Use(t) \/ Try(t)
  \/ \E r \in Regs : AddReg(r) \/ Retarget(r)
  \/ \E x \in Temps \cup Regs : Free(x)
  \/ \E r \in Regs, to \in Temps \cup {0} : Move(r, to)
  \/ \E t \in Temps, r \in Regs : Hint(t, r)
  \/ Died

Spec == Init /\ [][Next]_vars

-----------------------------------------------------------------------------
(* The map and the depth have their types.                                 *)
TypeOK == m \in RMapType /\ loop \in 0..MaxLoop

(* Hints and last registers are of the temporary's class, so that taking   *)
(* one never breaks MapInv, however stale it is.                           *)
HintInv ==
  \A t \in Temps : /\ m.visit[t] \in ClassRegs(t) \cup {0}
                   /\ m.hint[t].r \in ClassRegs(t) \cup {0}

(* The map is a partial injection from temporaries and registers to        *)
(* registers of the right class, b is exactly what it mentions, and a      *)
(* register is only ever mapped to itself: what radd's and rfree's         *)
(* assertions (rega.c:88-94, 169, 176) rely on.                            *)
MapInv ==
  TypeOK /\ HintInv /\ (m.ok =>
    /\ \A i, j \in DOMAIN m.map :
         i # j => m.map[i].t # m.map[j].t /\ m.map[i].r # m.map[j].r
    /\ m.b = {m.map[i].t : i \in DOMAIN m.map} \cup {m.map[i].r : i \in DOMAIN m.map}
    /\ \A i \in DOMAIN m.map :
         IF m.map[i].t \in Temps THEN m.map[i].r \in ClassRegs(m.map[i].t)
         ELSE m.map[i].t = m.map[i].r)

(* After move(r, to) the register is its target's and nobody else's, and   *)
(* only the former holder of r and the target changed places               *)
(* (rega.c:263-282); and a waiting temporary that is released to follow    *)
(* its hint does get the freed register (the assertion of rega.c:432).     *)
Moved(r, to) ==
  /\ RFind(m', MoveTarget(r, to)) = r
  /\ \A x \in Temps \ {to} :
       IF RFind(m, x) \in {0, r} THEN RFind(m', x) # r
       ELSE RFind(m', x) = RFind(m, x)
Lands ==
  [][ /\ \A r \in Regs, to \in Temps \cup {0} : Move(r, to) /\ m'.ok => Moved(r, to)
      /\ \A rf \in Regs : Retarget(rf) => RFind(m', Waiter(rf)) = rf ]_vars

(* "no more regs" is said only when every register of the class is taken,  *)
(* the one a move is about to take included: registers to avoid are a      *)
(* preference.                                                             *)
DieOnlyFull ==
  [][ ~m'.ok =>
        \/ \E t \in Temps : ClassRegs(t) \subseteq m.b
        \/ \E r \in Regs, to \in Temps \cup {0} :
             /\ Move(r, to)
             /\ \E t \in Temps : ClassRegs(t) \subseteq (IF to = 0 THEN m ELSE RFree(m, to)).b
    ]_vars
=============================================================================
