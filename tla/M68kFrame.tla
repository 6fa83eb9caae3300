----------------------------- MODULE M68kFrame -----------------------------
(***************************************************************************)
(* Where the m68k back end puts the frame Frame.tla computes: the address, *)
(* relative to the frame pointer, of a slot read or written directly       *)
(* (slot()), of a slot whose address is taken (Oaddr), of a parameter on   *)
(* the stack (selpar) and of a callee-save register (m68k_emitfn).         *)
(***************************************************************************)
EXTENDS Frame

CONSTANTS
  NRClob,     \* callee-save registers, m68k_rclob
  MaxParams   \* bound: parameters of a function that is not variadic

ASSUME M68kFrameAssumption == NRClob \in Nat /\ MaxParams \in Nat

(* An object that starts at slot s; a negative s is a word of the caller's *)
SlotAddr(s) == IF s < 0 THEN 8 - 4 * s ELSE 8 - 4 * (fnslot - s)

(* Oaddr adds the negated slot() to the frame pointer.                     *)
Oaddr(s) == -SlotAddr(s)

(* selpar loads the k-th parameter, from 0, from SLOT(-k).                 *)
ParamAddr(k) == SlotAddr(-k)

(* x & ~2                                                                  *)
Clear2(x) == IF (x \div 2) % 2 = 1 THEN x - 2 ELSE x

(* The operand of link, with k callee-save registers in use, and the words *)
(* they are saved in, from sp = fp - frame up.                             *)
FrameSizeSlots(k) == Clear2(Clear2(4 * fnslot + 2) + 2)
FrameSize(k) == Clear2(Clear2(4 * fnslot + 2) + 4 * k + 2)
SavedBytes(k) == -FrameSize(k) .. -FrameSize(k) + 4 * k - 1

SlotBytes ==
  UNION {SlotAddr(s) .. SlotAddr(s) + 3 : s \in 0..(fnslot - 1)}

-----------------------------------------------------------------------------
(* No word a callee-save register is saved in belongs to a local or to a   *)
(* spilled temporary, whatever the frame's size and the registers used     *)
(* (emit.c:141, 493-511).                                                  *)
SavedApart ==
  pc = "done" =>
    \A k \in 0..NRClob : SavedBytes(k) \cap SlotBytes = {}

(* The layout of emit.c:444-469: the saved fp and the return address, 8    *)
(* bytes, are at fp, the spill slots and the locals below them, and so are *)
(* the addresses Oaddr computes for locals; what the caller passed on the  *)
(* stack is above.                                                         *)
AsDrawn ==
  pc = "done" =>
    /\ \A i \in LocalsIn : \A s \in LocalRange(i) : SlotAddr(s) + 4 <= 0
    /\ \A i \in LocalsIn : LocalSlots(i) > 0 => Oaddr(lslot[i]) < 0
    /\ \A t \in Spilled : \A s \in TempRange(t) : SlotAddr(s) + 4 <= 0
    /\ \A k \in 0..(MaxParams - 1) : ParamAddr(k) >= 8
=============================================================================
