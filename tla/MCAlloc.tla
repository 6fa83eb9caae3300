------------------------------ MODULE MCAlloc -------------------------------
(* The register allocator for TLC: spiller and allocator on the functions  *)
(* of MCRega, and beside them, where the function is empty, a register map *)
(* alone under every sequence of its operations.  It has two classes; in   *)
(* the first, two temporaries of one phi class that would rather not have  *)
(* register 1, and two registers, each of which may be in use for itself.  *)
EXTENDS RegMap
CONSTANTS t1, t2, f1, None
MCTemps == {t1, t2, f1}
MCKBase == [t \in MCTemps |-> IF t = f1 THEN 1 ELSE 0]
MCPhicls == [t \in MCTemps |-> IF t = t2 THEN t1 ELSE t]
MCAvoid == [t \in MCTemps |-> IF t = t1 THEN {1} ELSE {}]

VARIABLES
  fn, depth, cost, ins, phi, jmp, in, out, gen, nlive,   \* LowFn.tla
  slots, avoid, n, v, x, code, pc, abort,                \* Spill.tla
  cur, beg, end, regu, todo, edge,                       \* Rega.tla
  holds, at, xi                                          \* RegaExec.tla

FnTemps == 11..20
FnKBase == [t \in FnTemps |-> IF t = 17 THEN 1 ELSE 0]
Functions == INSTANCE MCRega WITH
  loop <- depth, m <- cur, Temps <- FnTemps, KBase <- FnKBase, NGpr <- 4, NFpr <- 1,
  RGlob <- {2}, RSave <- {1, 5}, Programs <- {}
RX == INSTANCE MCRega WITH
  loop <- depth, m <- cur, Temps <- FnTemps, KBase <- FnKBase, NGpr <- 4, NFpr <- 1,
  RGlob <- {2}, RSave <- {1, 5}, Programs <- Functions!MCPrograms \cup {Functions!Empty}

fnstate == <<fn, depth, cost, ins, phi, jmp, in, out, gen, nlive, slots, avoid, n, v, x, code,
             pc, abort, cur, beg, end, regu, todo, edge, holds, at, xi>>
all == <<vars, fnstate>>

MCInit == Init /\ RX!Init
MCNext ==
  IF fn.ins = Functions!Empty.ins THEN Next /\ UNCHANGED fnstate
  ELSE RX!Next /\ UNCHANGED vars
MCSpec == MCInit /\ [][MCNext]_all

(* RegaExec.tla's properties.                                              *)
UsesRight == RX!UsesRight
NoAbort == RX!NoAbort
=============================================================================
