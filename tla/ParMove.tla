------------------------------ MODULE ParMove ------------------------------
(***************************************************************************)
(* Parallel moves (rega.c pmadd, pmrec, pmgen): a set of moves meant to    *)
(* happen at once is turned into a sequence of copies and swaps.  pmrec    *)
(* follows the chain of moves that must give way first, copies on the way  *)
(* back, and breaks a cycle with swaps.  emit() fills its buffer from the  *)
(* end (util.c:228), so an instruction emitted later runs EARLIER; the     *)
(* emitted code is kept as what it does: low[l] and high[l] name the       *)
(* location whose content, at the start of the code emitted so far, ends   *)
(* in the two halves of location l.                                        *)
(***************************************************************************)
EXTENDS Integers, Sequences, FiniteSets

CONSTANTS
  Loc,   \* registers and stack slots of one base class
  Tmp0,  \* size of the array pm[]
  Junk   \* the upper half of a location written by a narrow instruction

ASSUME ParMoveAssumption == Tmp0 \in Nat /\ Junk \notin Loc

VARIABLES
  pm,      \* the moves: source, destination and class
  status,  \* pmgen's status[]
  pc,      \* "add", "gen" (pmgen's loop), "call" and "ret" (of pmrec), "done", "died"
  stack,   \* the moves of the active pmrec calls, innermost last
  c,       \* the value returned, a move of a cycle or 0 (the code's -1)
  k,       \* *k: the wider of the classes of this chain
  low, high

vars == <<pm, status, pc, stack, c, k, low, high>>

Cls == {"Kw", "Kl"}
Move == [src : Loc, dst : Loc, cls : Cls]
Moves == DOMAIN pm
Top == stack[Len(stack)]
Pop == SubSeq(stack, 1, Len(stack) - 1)

Init ==
  /\ pm = <<>> /\ status = <<>>
  /\ pc = "add"
  /\ stack = <<>> /\ c = 0 /\ k = "Kw"
  /\ low = [l \in Loc |-> l]
  /\ high = [l \in Loc |-> l]

-----------------------------------------------------------------------------
(* The two instructions, put in front of the code emitted so far.          *)

(* Where x comes from when copy dst <- src runs first.                     *)
CopyFrom(x, dst, src) == IF x = dst THEN src ELSE x
SwapFrom(x, a, b) == IF x = a THEN b ELSE IF x = b THEN a ELSE x

EmitCopy(m) ==
  /\ low' = [l \in Loc |-> CopyFrom(low[l], m.dst, m.src)]
  /\ high' = [l \in Loc |-> IF high[l] = m.dst
                            THEN IF m.cls = "Kl" THEN m.src ELSE Junk
                            ELSE high[l]]

EmitSwap(cls, m) ==
  /\ low' = [l \in Loc |-> SwapFrom(low[l], m.src, m.dst)]
  /\ high' = [l \in Loc |-> IF high[l] \in {m.src, m.dst} /\ cls = "Kw"
                            THEN Junk
                            ELSE SwapFrom(high[l], m.src, m.dst)]

-----------------------------------------------------------------------------
(* Callers list the moves; two moves never have the same destination       *)
(* (distinct registers and slots of rega.c's register maps and phis).      *)
PmAdd(m) ==
  /\ pc = "add"
  /\ \A i \in Moves : pm[i].dst # m.dst
  /\ IF Len(pm) = Tmp0
     THEN pc' = "died" /\ UNCHANGED <<pm, status>>
     ELSE /\ pm' = Append(pm, m)
          /\ status' = Append(status, "ToMove")
          /\ pc' = pc
  /\ UNCHANGED <<stack, c, k, low, high>>

PmGen ==
  /\ pc = "add"
  /\ pc' = "gen"
  /\ UNCHANGED <<pm, status, stack, c, k, low, high>>

(* pmgen's loop: the first move not yet moved starts a chain.              *)
PmGenCall(i) ==
  /\ pc = "gen"
  /\ status[i] = "ToMove"
  /\ \A h \in 1..(i - 1) : status[h] # "ToMove"
  /\ pc' = "call"
  /\ stack' = <<i>>
  /\ k' = pm[i].cls
  /\ UNCHANGED <<pm, status, c, low, high>>

PmGenEnd ==
  /\ pc = "gen"
  /\ \A i \in Moves : status[i] # "ToMove"
  /\ pc' = "done"
  /\ UNCHANGED <<pm, status, stack, c, k, low, high>>

-----------------------------------------------------------------------------
(* pmrec(status, i, k) with i = Top.                                       *)

ReturnUnmarked(v) ==
  /\ status' = status
  /\ stack' = Pop
  /\ c' = v
  /\ pc' = IF Len(stack) = 1 THEN "gen" ELSE "ret"
  /\ pm' = pm

Return(v) ==
  /\ status' = [status EXCEPT ![Top] = "Moved"]
  /\ stack' = Pop
  /\ c' = v
  /\ pc' = IF Len(stack) = 1 THEN "gen" ELSE "ret"
  /\ pm' = pm

(* j is the move that writes the source of move i.                         *)
Blocks(j, i) ==
  /\ pm[j].dst = pm[i].src
  /\ \A h \in 1..(j - 1) : pm[h].dst # pm[i].src

IsNop(i) == pm[i].src = pm[i].dst

CallNop ==
  /\ pc = "call"
  /\ IsNop(Top)
  /\ Return(0)
  /\ UNCHANGED <<k, low, high>>

(* *k |= cls, where Kw|Kl is Kl.                                            *)
LastClass(i) == pm[i].cls
ChainClass(i) == IF pm[i].cls = "Kl" THEN "Kl" ELSE k

CallFree ==
  /\ pc = "call"
  /\ ~IsNop(Top)
  /\ \A j \in Moves : Blocks(j, Top) => status[j] = "Moved"
  /\ k' = ChainClass(Top)
  /\ EmitCopy(pm[Top])
  /\ Return(0)

CallCycle(j) ==
  /\ pc = "call"
  /\ ~IsNop(Top)
  /\ Blocks(j, Top) /\ status[j] = "Moving"
  /\ k' = ChainClass(Top)
  /\ EmitSwap(k', pm[Top])
  /\ Return(j)

CallChain(j) ==
  /\ pc = "call"
  /\ ~IsNop(Top)
  /\ Blocks(j, Top) /\ status[j] = "ToMove"
  /\ k' = ChainClass(Top)
  /\ status' = [status EXCEPT ![Top] = "Moving"]
  /\ stack' = Append(stack, j)
  /\ UNCHANGED <<pm, pc, c, low, high>>

(* Back in the caller with the value c.                                    *)
RetCycleEndForgotten ==
  /\ pc = "ret"
  /\ c = Top
  /\ Return(c)
  /\ UNCHANGED <<k, low, high>>

RetCycleEnd ==
  /\ pc = "ret"
  /\ c = Top
  /\ Return(0)
  /\ UNCHANGED <<k, low, high>>

RetCycleAsCopy ==
  /\ pc = "ret"
  /\ c # Top /\ c # 0
  /\ EmitCopy(pm[Top])
  /\ Return(c)
  /\ k' = k

RetCycle ==
  /\ pc = "ret"
  /\ c # Top /\ c # 0
  /\ EmitSwap(k, pm[Top])
  /\ Return(c)
  /\ k' = k

RetChain ==
  /\ pc = "ret"
  /\ c = 0
  /\ EmitCopy(pm[Top])
  /\ Return(0)
  /\ k' = k

Stopped == pc \in {"done", "died"} /\ UNCHANGED vars

PmRec ==
  \/ CallNop \/ CallFree
  \/ \E j \in Moves : CallCycle(j) \/ CallChain(j)
  \/ RetCycleEnd \/ RetCycle \/ RetChain

Next ==
  \/ \E m \in Move : PmAdd(m)
  \/ PmGen
  \/ \E i \in Moves : PmGenCall(i)
  \/ PmGenEnd
  \/ PmRec
  \/ Stopped

Spec == Init /\ [][Next]_vars

-----------------------------------------------------------------------------
(* Every variable has its type.                                            *)
TypeOK ==
  /\ pm \in Seq(Move) /\ Len(pm) <= Tmp0
  /\ status \in [1..Len(pm) -> {"ToMove", "Moving", "Moved"}]
  /\ pc \in {"add", "gen", "call", "ret", "done", "died"}
  /\ stack \in Seq(Moves)
  /\ c \in Moves \cup {0}
  /\ k \in Cls
  /\ low \in [Loc -> Loc]
  /\ high \in [Loc -> Loc \cup {Junk}]

MovedTo(l) == {i \in Moves : status[i] = "Moved" /\ pm[i].dst = l}

(* Between two chains the code emitted so far performs exactly the moves   *)
(* marked Moved, all at once, in both halves of a wide one, and leaves     *)
(* every other location alone; in the end all moves are marked.            *)
MovedDone ==
  /\ pc \in {"gen", "done"} =>
       \A l \in Loc :
         /\ MovedTo(l) = {} => low[l] = l /\ high[l] = l
         /\ \A i \in MovedTo(l) :
              /\ low[l] = pm[i].src
              /\ pm[i].cls = "Kl" => high[l] = pm[i].src
  /\ pc = "done" => \A i \in Moves : status[i] = "Moved"

(* pmgen ignores what pmrec returns: the value that names the start of a   *)
(* cycle must have been consumed by the frame of that move.                *)
CycleConsumed ==
  /\ pc = "gen" => c = 0
  /\ pc = "ret" /\ c # 0 => \E p \in DOMAIN stack : stack[p] = c

Finished(f) == IF pc = "done" THEN f ELSE [l \in Loc |-> l]
Assign == INSTANCE ParAssign WITH
  moves <- {pm[i] : i \in Moves},
  phase <- IF pc = "done" THEN "performed"
           ELSE IF pc = "died" THEN "died" ELSE "listing",
  low <- Finished(low),
  high <- Finished(high)

(* pmadd and pmgen implement one simultaneous assignment: what is seen     *)
(* from outside, the list of moves and the code once it is complete, are a *)
(* behaviour of ParAssign.                                                 *)
ImplementsAssign == Assign!Spec

(* Sequentialising ends whatever the moves: each call and each return of   *)
(* pmrec brings a move nearer to Moved, and a new chain only starts from a *)
(* move that is not, so that pmgen's loop and the recursion cannot go on   *)
(* for ever (rega.c:214-246, 258-260).                                     *)
With(st) == {i \in Moves : status[i] = st}
Rank ==
  4 * Cardinality(With("ToMove")) + 2 * Cardinality(With("Moving"))
    + (IF pc = "gen" THEN 1 ELSE 0) - (IF pc = "call" THEN 1 ELSE 0)
Running == pc \in {"gen", "call", "ret"}
Shrinks == [][Running => Rank' >= 0 /\ Rank' < Rank]_vars
=============================================================================
