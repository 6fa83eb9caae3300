------------------------------- MODULE Frame -------------------------------
(***************************************************************************)
(* The stack frame of a function, from instruction selection to the end of *)
(* the spiller.  Isel gives a slot to every constant-size alloc of the     *)
(* start block ("fast locals", m68k/isel.c; amd64, arm64 and rv64 hold the *)
(* same loop), the spiller packs spilled temporaries behind them on demand *)
(* (slot(), spill.c) and rounds the frame.  A slot is 4 bytes; slots are   *)
(* later addressed from the TOP of the frame, at distance fnslot - s from  *)
(* the frame pointer (e.g. amd64/emit.c:145), so alignment is a property   *)
(* of that distance, known only when the last pass has run.                *)
(***************************************************************************)
EXTENDS Integers, Sequences

CONSTANTS
  Temps,        \* the temporaries the spiller may be asked to spill
  WideTemps,    \* those of a wide class (KWIDE: Kl or Kd)
  Sizes,        \* the constant sizes an alloc instruction may have
  StartBlocks,  \* the sequences of allocs a start block may hold
  IntMax        \* INT_MAX

(* An alloc instruction: its alignment (4, 8 or 16 bytes), whether its     *)
(* size is not a constant, and the constant.                               *)
Alloc == [al : 0..2, dyn : BOOLEAN, sz : Sizes]

ASSUME FrameAssumption ==
  /\ WideTemps \subseteq Temps
  /\ Sizes \subseteq Int
  /\ StartBlocks \subseteq Seq(Alloc)
  /\ IntMax \in Nat

VARIABLES
  allocs,  \* the allocs of the start block: alignment, size known?, size
  pc,      \* the pass at work: "isel", "spill", "done", or "died" (err, die)
  al, ip,  \* isel's two loop counters
  fnslot,  \* fn->slot, the slots of the frame so far
  lslot,   \* tmp[].slot of the allocs' results, -1 when none
  locs,    \* spill.c locs: fn->slot as the spiller found it
  slot4,   \* spill.c: next slot of 4 bytes
  slot8,   \* spill.c: next slot of 8 bytes
  tslot    \* tmp[].slot of the temporaries, -1 when not spilled

vars == <<allocs, pc, al, ip, fnslot, lslot, locs, slot4, slot8, tslot>>

-----------------------------------------------------------------------------
(* Slots one alignment unit of Oalloc4, Oalloc8 and Oalloc16 is made of.   *)
Unit(a) == IF a = 0 THEN 1 ELSE IF a = 1 THEN 2 ELSE 4

(* sz = (sz + n-1) & -n; sz /= 4, with n the unit in bytes.                *)
Rounded(a, sz) == Unit(a) * ((sz + 4 * Unit(a) - 1) \div (4 * Unit(a)))

LocalSlots(i) == Rounded(allocs[i].al, allocs[i].sz)
TempSlots(t) == IF t \in WideTemps THEN 2 ELSE 1

Init ==
  /\ allocs \in StartBlocks
  /\ pc = "isel"
  /\ al = 0 /\ ip = 1
  /\ fnslot = 0
  /\ lslot = [i \in DOMAIN allocs |-> -1]
  /\ locs = 0 /\ slot4 = 0 /\ slot8 = 0
  /\ tslot = [t \in Temps |-> -1]

-----------------------------------------------------------------------------
(* Isel's loop over the start block, once per alignment.                   *)

NextAlignment ==
  /\ ip' = 1
  /\ IF al < 2
     THEN al' = al + 1 /\ UNCHANGED <<pc, locs>>
     ELSE al' = al /\ pc' = "spill" /\ locs' = fnslot
  /\ UNCHANGED <<allocs, fnslot, lslot, slot4, slot8, tslot>>

(* The inner loop ran off the block.                                       *)
IselEnd ==
  /\ pc = "isel" /\ ip > Len(allocs)
  /\ NextAlignment

(* An instruction that is not an alloc of this alignment.                  *)
IselSkip ==
  /\ pc = "isel" /\ ip <= Len(allocs)
  /\ allocs[ip].al # al
  /\ ip' = ip + 1
  /\ UNCHANGED <<allocs, pc, al, fnslot, lslot, locs, slot4, slot8, tslot>>

(* The first alloc whose size is not a constant ends the inner loop.       *)
IselBreak ==
  /\ pc = "isel" /\ ip <= Len(allocs)
  /\ allocs[ip].al = al
  /\ allocs[ip].dyn
  /\ NextAlignment

BadSize(sz) == sz < 0 \/ sz >= IntMax - 15

TooLargeUnchecked(i) == FALSE
TooLarge(i) == LocalSlots(i) > IntMax - fnslot

IselDie ==
  /\ pc = "isel" /\ ip <= Len(allocs)
  /\ allocs[ip].al = al
  /\ ~allocs[ip].dyn
  /\ \/ BadSize(allocs[ip].sz)
     \/ TooLarge(ip)
  /\ pc' = "died"
  /\ UNCHANGED <<allocs, al, ip, fnslot, lslot, locs, slot4, slot8, tslot>>

IselAssign ==
  /\ pc = "isel" /\ ip <= Len(allocs)
  /\ allocs[ip].al = al
  /\ ~allocs[ip].dyn
  /\ ~BadSize(allocs[ip].sz)
  /\ ~TooLarge(ip)
  /\ lslot' = [lslot EXCEPT ![ip] = fnslot]
  /\ fnslot' = fnslot + LocalSlots(ip)
  /\ ip' = ip + 1
  /\ UNCHANGED <<allocs, pc, al, locs, slot4, slot8, tslot>>

-----------------------------------------------------------------------------
(* The spiller: slot(t), called in any order and any number of times.      *)

(* A slot was given already.                                               *)
SlotKnown(t) ==
  /\ pc = "spill"
  /\ tslot[t] # -1
  /\ UNCHANGED vars

SlotWideKeepHole(t) ==
  /\ pc = "spill"
  /\ tslot[t] = -1
  /\ t \in WideTemps
  /\ slot4' = slot4
  /\ slot8' = slot8 + 2
  /\ tslot' = [tslot EXCEPT ![t] = locs + slot8]
  /\ UNCHANGED <<allocs, pc, al, ip, fnslot, lslot, locs>>

SlotWideAgain(t) ==
  /\ pc = "spill"
  /\ t \in WideTemps
  /\ slot4' = IF slot4 = slot8 THEN slot4 + 2 ELSE slot4
  /\ slot8' = slot8 + 2
  /\ tslot' = [tslot EXCEPT ![t] = locs + slot8]
  /\ UNCHANGED <<allocs, pc, al, ip, fnslot, lslot, locs>>

SlotWide(t) ==
  /\ pc = "spill"
  /\ tslot[t] = -1
  /\ t \in WideTemps
  /\ slot4' = IF slot4 = slot8 THEN slot4 + 2 ELSE slot4
  /\ slot8' = slot8 + 2
  /\ tslot' = [tslot EXCEPT ![t] = locs + slot8]
  /\ UNCHANGED <<allocs, pc, al, ip, fnslot, lslot, locs>>

SlotNarrowForgetHole(t) ==
  /\ pc = "spill"
  /\ tslot[t] = -1
  /\ t \notin WideTemps
  /\ IF slot4 = slot8
     THEN slot4' = slot4 + 1 /\ slot8' = slot8 + 2
     ELSE slot4' = slot4 + 1 /\ slot8' = slot8
  /\ tslot' = [tslot EXCEPT ![t] = locs + slot4]
  /\ UNCHANGED <<allocs, pc, al, ip, fnslot, lslot, locs>>

SlotNarrow(t) ==
  /\ pc = "spill"
  /\ tslot[t] = -1
  /\ t \notin WideTemps
  /\ IF slot4 = slot8
     THEN slot4' = slot4 + 1 /\ slot8' = slot8 + 2
     ELSE slot4' = slot8 /\ slot8' = slot8
  /\ tslot' = [tslot EXCEPT ![t] = locs + slot4]
  /\ UNCHANGED <<allocs, pc, al, ip, fnslot, lslot, locs>>

(* slot8 += slot8 & 3; fn->slot += slot8.                                  *)
FinishUnrounded ==
  /\ pc = "spill"
  /\ pc' = "done"
  /\ slot8' = slot8
  /\ fnslot' = fnslot + slot8'
  /\ UNCHANGED <<allocs, al, ip, lslot, locs, slot4, tslot>>

Finish ==
  /\ pc = "spill"
  /\ pc' = "done"
  /\ slot8' = slot8 + (slot8 % 4)
  /\ fnslot' = fnslot + slot8'
  /\ UNCHANGED <<allocs, al, ip, lslot, locs, slot4, tslot>>

Stopped == pc \in {"done", "died"} /\ UNCHANGED vars

Slot(t) == SlotKnown(t) \/ SlotWide(t) \/ SlotNarrow(t)

Next ==
  \/ IselEnd \/ IselSkip \/ IselBreak \/ IselDie \/ IselAssign
  \/ \E t \in Temps : Slot(t)
  \/ Finish
  \/ Stopped

Spec == Init /\ [][Next]_vars

-----------------------------------------------------------------------------
LocalsIn == {i \in DOMAIN allocs : lslot[i] # -1}
Spilled == {t \in Temps : tslot[t] # -1}

LocalRange(i) == lslot[i] .. lslot[i] + LocalSlots(i) - 1
TempRange(t) == tslot[t] .. tslot[t] + TempSlots(t) - 1

(* Every variable has its type.                                            *)
TypeOK ==
  /\ allocs \in Seq(Alloc)
  /\ pc \in {"isel", "spill", "done", "died"}
  /\ al \in 0..2
  /\ ip \in Nat \ {0}
  /\ fnslot \in Nat
  /\ lslot \in [DOMAIN allocs -> Nat \cup {-1}]
  /\ locs \in Nat
  /\ slot4 \in Nat
  /\ slot8 \in Nat
  /\ tslot \in [Temps -> Nat \cup {-1}]

(* No two of the objects given a place in the frame (fast locals and       *)
(* spilled temporaries) share a slot, whatever the order of the calls of   *)
(* slot().                                                                 *)
NoOverlap ==
  /\ \A i, j \in LocalsIn : i # j => LocalRange(i) \cap LocalRange(j) = {}
  /\ \A t, u \in Spilled : t # u => TempRange(t) \cap TempRange(u) = {}
  /\ \A i \in LocalsIn, t \in Spilled : LocalRange(i) \cap TempRange(t) = {}

(* The packing rule stated at spill.c:133-138: slot4 <= slot8, and the     *)
(* spill area has at most one hole, the slot slot4 points to.              *)
OneHole ==
  pc = "spill" =>
    /\ slot4 <= slot8
    /\ LET used == UNION {TempRange(t) : t \in Spilled}
       IN (locs .. locs + slot8 - 1) \ used
            = IF slot4 = slot8 THEN {} ELSE {locs + slot4}

(* When the frame is complete every object lies inside it and its distance *)
(* to the top of the frame is a multiple of its alignment: 8 bytes for     *)
(* Oalloc8 and wide spills, 16 for Oalloc16 (spill.c:524-527 rounds for    *)
(* that purpose).                                                          *)
FrameDone ==
  pc = "done" =>
    /\ \A i \in LocalsIn :
         /\ lslot[i] + LocalSlots(i) <= fnslot
         /\ (fnslot - lslot[i]) % Unit(allocs[i].al) = 0
    /\ \A t \in Spilled :
         /\ tslot[t] + TempSlots(t) <= fnslot
         /\ (fnslot - tslot[t]) % TempSlots(t) = 0

(* fn->slot, an int, never overflows in instruction selection, and neither *)
(* does a slot number it hands out (m68k/isel.c:147; the spiller's own     *)
(* additions are unchecked).                                               *)
IselWithinInt ==
  pc \in {"isel", "died"} =>
    /\ fnslot <= IntMax
    /\ \A i \in LocalsIn : lslot[i] + LocalSlots(i) <= fnslot

(* A place in the frame is given once: code already emitted refers to it.  *)
SlotsStable ==
  [][ /\ \A i \in LocalsIn : lslot'[i] = lslot[i]
      /\ \A t \in Spilled : tslot'[t] = tslot[t] ]_vars
=============================================================================
