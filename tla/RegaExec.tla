------------------------------ MODULE RegaExec ------------------------------
(***************************************************************************)
(* What the spiller and the allocator must preserve: the function isel     *)
(* left, on names (temporaries and registers), and the one rega left, on   *)
(* locations (registers and slots), are executed side by side along every  *)
(* path.  holds[l] is the set of names whose value is now in location l; a *)
(* constant is the name 0, held by location 0, and a slot is the negative  *)
(* of its temporary.                                                       *)
(***************************************************************************)
EXTENDS Rega

VARIABLES
  holds,
  at,      \* the block executed
  xi       \* the instruction of ins[at]; 0 once the function has returned

xvars == <<holds, at, xi>>
all == <<vars, xvars>>

Locs == Regs \cup {0} \cup {0 - t : t \in Temps}
Loc(ref) ==
  IF ref.k = "slot" THEN 0 - ref.v ELSE IF ref.k = "con" THEN 0 ELSE ref.v

Init ==
  /\ RegaInit
  /\ holds = [l \in Locs |-> IF l \in Regs \cup {0} THEN {l} ELSE {}]
  /\ at = 0 /\ xi = 1

-----------------------------------------------------------------------------
(* Locations take what other locations hold; names the values of others.   *)
Transfer(h, moves) ==
  [l \in Locs |-> IF \E mv \in moves : Loc(mv.dst) = l
                  THEN h[Loc((CHOOSE mv \in moves : Loc(mv.dst) = l).src)] ELSE h[l]]
Rename(h, copies) ==
  [l \in Locs |-> (h[l] \ {c.to : c \in copies}) \cup {c.to : c \in {d \in copies : d.from \in h[l]}}]

NameOf(ref) == IF IsTmp(ref) THEN ref.v ELSE 0
CopyOf(o) == IF o.to = 0 THEN {} ELSE {[to |-> o.to, from |-> NameOf(o.arg[1])]}

(* A new value for name t, in location l if it is anywhere.                *)
Fresh(h, t, l) ==
  [j \in Locs |-> IF j = l /\ l # 0 THEN {t} ELSE h[j] \ ({t} \ {0})]

(* A call leaves its results and loses the other caller-save registers.    *)
Called(h, o) ==
  [l \in Locs |-> IF l \in RSave THEN {l} \cap o.ret ELSE h[l] \ RSave]

Original(i) == fn.ins[at][i.at]

Inserted(h, i) ==
  CASE i.op = "store" -> Transfer(h, {Move(i.arg[1], i.arg[2], i.arg[1].v)})
    [] i.op = "pm" -> Rename(Transfer(h, i.moves), UNION {CopyOf(fn.ins[at][y]) : y \in ToSet(i.at)})
    [] OTHER -> Transfer(h, {Move(i.arg[1], TMP(i.to), i.to)})

Executed(h, i) ==
  LET o == Original(i)
  IN CASE o.op = "call" -> Called(h, o)
       [] o.op = "copy" /\ i.op = "nop" -> Rename(h, CopyOf(o))
       [] o.op = "copy" -> Rename(Transfer(h, {Move(i.arg[1], TMP(i.to), i.to)}), CopyOf(o))
       [] OTHER -> Fresh(h, o.to, IF i.op = "nop" THEN 0 ELSE i.to)

IsInserted(i) == i.op = "pm" \/ i.at = 0

XIns ==
  /\ pc = "done" /\ abort = "" /\ xi \in DOMAIN ins[at]
  /\ holds' = IF IsInserted(ins[at][xi]) THEN Inserted(holds, ins[at][xi])
              ELSE Executed(holds, ins[at][xi])
  /\ xi' = xi + 1
  /\ UNCHANGED <<vars, at>>

(* Along an edge: the new block, and the phis all at once.                 *)
PhiCopies(b, s) == {[to |-> p.to.v, from |-> NameOf(PhiArg(p, b))] : p \in ToSet(fn.phi[s])}
AtJmp == pc = "done" /\ abort = "" /\ xi = Len(ins[at]) + 1
XJmp(s) ==
  /\ AtJmp
  /\ holds' = Rename(Transfer(holds, edge[<<at, s>>]), PhiCopies(at, s))
  /\ at' = s /\ xi' = 1
  /\ UNCHANGED vars

XRet ==
  /\ AtJmp /\ Succs(at) = {}
  /\ xi' = 0
  /\ UNCHANGED <<vars, holds, at>>

Next ==
  \/ (SpillStep /\ UNCHANGED <<rgvars, xvars>>)
  \/ (RegaStep /\ UNCHANGED xvars)
  \/ XIns \/ (\E s \in Succs(at) : XJmp(s)) \/ XRet

Spec == Init /\ [][Next]_all

-----------------------------------------------------------------------------
(* The location the final code names for an operand of the original.       *)
HoldsName(t, l) == t = 0 \/ t \in holds[l]
Reads(o, f) ==
  CASE o.k = "tmp" -> f.k \in {"tmp", "slot"} /\ HoldsName(o.v, Loc(f))
    [] o.k = "mem" -> f.k = "mem" /\ HoldsName(o.v, f.v) /\ HoldsName(o.w, f.w)
    [] OTHER -> f = o

ReadsRight(i) ==
  LET o == Original(i)
  IN /\ \A a \in {1, 2} : Reads(o.arg[a], i.arg[a])
     /\ \A r \in o.use : r \in holds[r]
     /\ Cardinality({a \in {1, 2} : i.arg[a].k \in {"slot", "mem"}}) <= Max({o.mem, NMem(o)})

(* What the caller counts on: the results, and the registers that are not  *)
(* saved and not noted in fn->reg for the prologue to save.                *)
ReturnsRight ==
  \A r \in Regs : r \in fn.ret[at] \/ r \notin RSave \cup regu => r \in holds[r]

(* Whatever was spilled, moved, evicted or left out, on every path every   *)
(* operand is read from a place that holds the value it has in the         *)
(* original, from a slot only where the target allows it; a call finds its *)
(* arguments in their registers, and a return its results and the          *)
(* registers nobody saves (spill.c:346-522, rega.c:509-676).               *)
UsesRight ==
  pc = "done" /\ abort = "" =>
    /\ xi \in DOMAIN ins[at] /\ ~IsInserted(ins[at][xi]) /\ ins[at][xi].op # "nop"
         => ReadsRight(ins[at][xi])
    /\ AtJmp => IF jmp[at] = CALL THEN ReturnsRight ELSE Reads(fn.jmp[at], jmp[at])

(* No two moves of a list for pmgen have one destination, and a move from  *)
(* the destination of another has its base class: what ParMove.tla and     *)
(* pmrec's assertion (rega.c:218) rely on.                                 *)
MoveListOK(moves) ==
  \A v1, v2 \in moves : /\ v1.dst = v2.dst => v1 = v2
                        /\ v1.src = v2.dst => v1.base = v2.base

(* The spiller leaves a register for every temporary that needs one and a  *)
(* slot for every other, registers are never spilled, taken twice or lost, *)
(* and the moves handed to pmgen are an assignment (the assertions and     *)
(* die() of spill.c and rega.c).  The jump is JmpInReg's matter; that      *)
(* radd() finds a register taken is expected when a block without          *)
(* instructions has none to tell its temporaries to keep off those live    *)
(* out of it.                                                              *)
JmpAbort == "reload before the jump"
GlobAbort == "temporary has mapping"
NoAbort ==
  /\ abort \in {"", JmpAbort, GlobAbort}
  /\ pc = "done" =>
       /\ \A e \in DOMAIN edge : MoveListOK(edge[e])
       /\ \A b \in Blocks : \A i \in ToSet(ins[b]) : i.op = "pm" => MoveListOK(i.moves)

(* The argument of a jump ends in a register, as the emitters take for     *)
(* granted (rv64/emit.c:516, m68k/emit.c:551), and so the compiler gets    *)
(* that far.                                                               *)
JmpInReg ==
  /\ abort # JmpAbort
  /\ pc = "done" => \A b \in Blocks : jmp[b].k # "slot"
=============================================================================
