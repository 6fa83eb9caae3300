--------------------------- MODULE ParMoveProofs ---------------------------
(***************************************************************************)
(* Proofs about ParMove, for every set of locations and every list of      *)
(* moves.  IInv describes the code emitted so far at every step of the     *)
(* recursion, in particular while a cycle is being unwound: low is then    *)
(* right everywhere but at the destination of c, the move the cycle was    *)
(* entered by, which holds what the innermost frame has still to move.     *)
(* Two more results follow from it: the moves implement the simultaneous   *)
(* assignment of ParAssign, and every step makes Rank smaller.             *)
(***************************************************************************)
EXTENDS ParMove, FiniteSetTheorems, TLAPS

IsMoved(i) == status[i] = "Moved"
InCycle == pc = "ret" /\ c # 0

(* Frames whose call is not finished and which wait for an inner one.      *)
Waiting == {stack[p] : p \in 1..(IF pc = "call" THEN Len(stack) - 1 ELSE Len(stack))}

DistinctDst == \A i, j \in Moves : pm[i].dst = pm[j].dst => i = j

PhaseInv ==
  /\ pc = "add" => /\ \A i \in Moves : status[i] = "ToMove"
                   /\ low = [l \in Loc |-> l] /\ high = [l \in Loc |-> l]
  /\ pc \in {"call", "ret"} <=> stack # <<>>
  /\ pc # "ret" => c = 0
  /\ pc = "done" => \A i \in Moves : IsMoved(i)

(* The stack is a chain of distinct moves, each blocked by the next.       *)
StackInv ==
  /\ \A p \in DOMAIN stack : p + 1 \in DOMAIN stack =>
       pm[stack[p + 1]].dst = pm[stack[p]].src
  /\ \A p, q \in DOMAIN stack : stack[p] = stack[q] => p = q
  /\ \A i \in Moves : status[i] = "Moving" <=> i \in Waiting
  /\ \A i \in Waiting : ~IsNop(i)
  /\ pc = "call" => status[Top] = "ToMove"
  /\ \A i \in Waiting : pm[i].cls = "Kl" => k = "Kl"

(* Moves marked Moved are closed: what blocks one of them is Moved too, or *)
(* is the entry of the cycle being unwound.                                *)
Closed ==
  \A i, j \in Moves :
    IsMoved(i) /\ pm[j].dst = pm[i].src =>
      IsMoved(j) \/ (InCycle /\ j = c)

(* Back in a frame, the move it was blocked by is done.                    *)
RetInv ==
  pc = "ret" => \E j \in Moves : IsMoved(j) /\ pm[j].dst = pm[Top].src

(* While a cycle is unwound no finished move reads what a frame of the     *)
(* cycle reads, and c's destination holds the source of the innermost one. *)
CycleInv ==
  InCycle =>
    /\ \E q \in DOMAIN stack :
         /\ stack[q] = c
         /\ \A p \in q..Len(stack), i \in Moves :
              IsMoved(i) => pm[i].src # pm[stack[p]].src
    /\ low[pm[c].dst] = pm[Top].src

LowInv ==
  \A l \in Loc :
    /\ MovedTo(l) = {} /\ ~(InCycle /\ l = pm[c].dst) => low[l] = l
    /\ \A i \in MovedTo(l) : low[l] = pm[i].src

(* The upper half follows the lower one, but where a narrow move ends.     *)
HighInv ==
  \A l \in Loc :
    \/ high[l] = low[l]
    \/ /\ high[l] = Junk
       /\ \/ \E i \in MovedTo(l) : pm[i].cls = "Kw"
          \/ InCycle /\ l = pm[c].dst /\ k = "Kw"

IInv ==
  /\ TypeOK
  /\ DistinctDst
  /\ PhaseInv
  /\ StackInv
  /\ Closed
  /\ RetInv
  /\ CycleInv
  /\ LowInv
  /\ HighInv

-----------------------------------------------------------------------------
(* The initial state satisfies the inductive invariant.                    *)
LEMMA InitIInv == Init => IInv
<1> SUFFICES ASSUME Init PROVE IInv
  OBVIOUS
<1>1. Moves = {} /\ DOMAIN stack = {} /\ Len(pm) = 0
  BY DEF Init, Moves
<1>2. TypeOK
  <2>1. status \in [1..Len(pm) -> {"ToMove", "Moving", "Moved"}]
    BY <1>1 DEF Init
  <2>2. pm \in Seq(Move) /\ stack \in Seq(Moves)
    BY DEF Init
  <2>3. low \in [Loc -> Loc] /\ high \in [Loc -> Loc \cup {Junk}]
    BY DEF Init
  <2>4. Len(pm) <= Tmp0 /\ c \in Moves \cup {0} /\ k \in Cls
    BY <1>1, ParMoveAssumption DEF Init, Cls
  <2> QED
    BY <2>1, <2>2, <2>3, <2>4 DEF Init, TypeOK
<1>3. Waiting = {} /\ \A l \in Loc : MovedTo(l) = {}
  BY <1>1 DEF Waiting, MovedTo, Init
<1>4. LowInv /\ HighInv
  BY <1>3 DEF Init, LowInv, HighInv, InCycle
<1> QED
  BY <1>1, <1>2, <1>3, <1>4 DEF Init, IInv, DistinctDst, PhaseInv, StackInv,
     Closed, RetInv, CycleInv, IsMoved, InCycle

(* A position of a sequence is the last one or is below it.                *)
LEMMA LastOrBelow ==
  ASSUME NEW n \in Nat \ {0}, NEW p \in 1..n
  PROVE  p = n \/ p \in 1..(n - 1)
OBVIOUS

(* With distinct destinations, the move pmrec's search finds is any move   *)
(* that writes the source.                                                 *)
LEMMA BlocksUnique ==
  ASSUME IInv, NEW i \in Moves, NEW j \in Moves
  PROVE  Blocks(j, i) <=> pm[j].dst = pm[i].src
<1>1. 1..(j - 1) \subseteq Moves /\ \A h \in 1..(j - 1) : h # j
  BY DEF IInv, TypeOK, Moves
<1> QED
  BY <1>1 DEF IInv, DistinctDst, Blocks

(* The stack while pmrec is at work.                                       *)
LEMMA StackFacts ==
  ASSUME IInv, pc \in {"call", "ret"}
  PROVE  /\ Len(stack) \in Nat \ {0}
         /\ stack \in Seq(Moves) /\ DOMAIN stack = 1..Len(stack)
         /\ Top \in Moves
         /\ pm[Top] \in Move
         /\ Pop \in Seq(Moves) /\ Len(Pop) = Len(stack) - 1
         /\ DOMAIN Pop = 1..(Len(stack) - 1)
         /\ \A p \in 1..(Len(stack) - 1) : Pop[p] = stack[p]
         /\ pc = "ret" => Top \in Waiting /\ status[Top] = "Moving"
<1>1. stack \in Seq(Moves) /\ stack # <<>> /\ pm \in Seq(Move)
  BY DEF IInv, TypeOK, PhaseInv
<1>2. Len(stack) \in Nat \ {0} /\ DOMAIN stack = 1..Len(stack)
  BY <1>1
<1>3. Top \in Moves /\ pm[Top] \in Move
  BY <1>1, <1>2 DEF Top, Moves
<1>4. /\ Pop \in Seq(Moves) /\ Len(Pop) = Len(stack) - 1
      /\ DOMAIN Pop = 1..(Len(stack) - 1)
      /\ \A p \in 1..(Len(stack) - 1) : Pop[p] = stack[p]
  BY <1>1, <1>2 DEF Pop
<1>5. pc = "ret" => Top \in Waiting
  BY <1>2 DEF Waiting, Top
<1> QED
  BY <1>1, <1>2, <1>3, <1>4, <1>5 DEF IInv, StackInv

-----------------------------------------------------------------------------
(* What a return of pmrec does to the status of the moves.                 *)
LEMMA ReturnStatus ==
  ASSUME IInv, pc \in {"call", "ret"}, NEW v \in Moves \cup {0}, Return(v)
  PROVE  /\ pm' = pm /\ Moves' = Moves /\ c' = v
         /\ Top \in Moves /\ ~IsMoved(Top)
         /\ \A i \in Moves : IsMoved(i)' <=> (IsMoved(i) \/ i = Top)
         /\ \A i \in Moves : status'[i] = "Moving" <=> status[i] = "Moving" /\ i # Top
         /\ \A l \in Loc : MovedTo(l)' = IF l = pm[Top].dst THEN {Top} ELSE MovedTo(l)
         /\ MovedTo(pm[Top].dst) = {}
         /\ InCycle' <=> (v # 0 /\ pc' = "ret")
         /\ status' \in [1..Len(pm) -> {"ToMove", "Moving", "Moved"}]
<1>1. /\ pm' = pm /\ Moves' = Moves /\ c' = v
      /\ status' = [status EXCEPT ![Top] = "Moved"]
      /\ status \in [Moves -> {"ToMove", "Moving", "Moved"}]
      /\ Moves = 1..Len(pm)
  <2>1. pm' = pm /\ c' = v /\ status' = [status EXCEPT ![Top] = "Moved"]
    BY DEF Return
  <2>2. pm \in Seq(Move) /\ status \in [1..Len(pm) -> {"ToMove", "Moving", "Moved"}]
    BY DEF IInv, TypeOK
  <2>3. Moves = 1..Len(pm)
    BY <2>2 DEF Moves
  <2>4. Moves' = Moves
    BY <2>1 DEF Moves
  <2> QED
    BY <2>1, <2>2, <2>3, <2>4
<1>2. Top \in Moves /\ ~IsMoved(Top)
  BY StackFacts DEF IInv, StackInv, IsMoved
<1>3. \A i \in Moves : status'[i] = IF i = Top THEN "Moved" ELSE status[i]
  BY <1>1, <1>2
<1>4. \A i \in Moves : pm[i].dst = pm[Top].dst => i = Top
  BY <1>2 DEF IInv, DistinctDst
<1>5. \A l \in Loc : MovedTo(l)' = IF l = pm[Top].dst THEN {Top} ELSE MovedTo(l)
  BY <1>1, <1>2, <1>3, <1>4 DEF MovedTo
<1>6. MovedTo(pm[Top].dst) = {}
  BY <1>2, <1>4 DEF MovedTo, IsMoved
<1>7. status' \in [1..Len(pm) -> {"ToMove", "Moving", "Moved"}]
  BY <1>1, <1>2
<1>8. InCycle' <=> (v # 0 /\ pc' = "ret")
  BY <1>1 DEF InCycle
<1>9. /\ \A i \in Moves : IsMoved(i)' <=> (IsMoved(i) \/ i = Top)
      /\ \A i \in Moves : status'[i] = "Moving" <=> status[i] = "Moving" /\ i # Top
  BY <1>3 DEF IsMoved
<1> QED
  BY <1>1, <1>2, <1>5, <1>6, <1>7, <1>8, <1>9

(* What a return of pmrec does to the stack.                               *)
LEMMA ReturnStack ==
  ASSUME IInv, pc \in {"call", "ret"}, NEW v \in Moves \cup {0}, Return(v),
         k' \in Cls, k = "Kl" => k' = "Kl", v # 0 => Len(stack) > 1
  PROVE  /\ PhaseInv' /\ StackInv' /\ RetInv' /\ DistinctDst'
         /\ pc' = "ret" => /\ Len(stack) > 1 /\ Top' = stack[Len(stack) - 1]
                           /\ pm[Top].dst = pm[Top'].src
         /\ pc' = IF Len(stack) = 1 THEN "gen" ELSE "ret"
         /\ stack' = Pop
         /\ DOMAIN stack' = 1..(Len(stack) - 1)
<1>1. /\ pc' = IF Len(stack) = 1 THEN "gen" ELSE "ret"
      /\ stack' = Pop /\ pm' = pm /\ c' = v
  BY DEF Return
<1>2. /\ Len(stack) \in Nat \ {0} /\ DOMAIN stack = 1..Len(stack)
      /\ DOMAIN stack' = 1..(Len(stack) - 1) /\ Len(stack') = Len(stack) - 1
      /\ \A p \in 1..(Len(stack) - 1) : stack'[p] = stack[p]
      /\ stack' \in Seq(Moves) /\ Top = stack[Len(stack)]
  BY <1>1, StackFacts DEF Top
<1>3. /\ Moves' = Moves /\ Top \in Moves
      /\ \A i \in Moves : IsMoved(i)' <=> (IsMoved(i) \/ i = Top)
      /\ \A i \in Moves : status'[i] = "Moving" <=> status[i] = "Moving" /\ i # Top
  BY ReturnStatus
<1>4. PhaseInv'
  BY <1>1, <1>2 DEF PhaseInv
<1>5. Waiting' = Waiting \ {Top}
  <2>1. \A p \in 1..(Len(stack) - 1) : stack[p] # Top
    BY <1>2 DEF IInv, StackInv
  <2>2. Waiting' = {stack[p] : p \in 1..(Len(stack) - 1)}
    BY <1>1, <1>2 DEF Waiting
  <2>3. CASE pc = "call"
    BY <2>1, <2>2, <2>3 DEF Waiting
  <2>4. CASE pc = "ret"
    <3>1. Waiting = {stack[p] : p \in 1..Len(stack)}
      BY <2>4 DEF Waiting
    <3>2. Waiting = {stack[p] : p \in 1..(Len(stack) - 1)} \cup {Top}
      BY <3>1, <1>2
    <3> QED
      BY <2>1, <2>2, <3>2
  <2> QED BY <2>3, <2>4
<1>6. StackInv'
  <2>1. \A p \in DOMAIN stack' : p + 1 \in DOMAIN stack' =>
          pm'[stack'[p + 1]].dst = pm'[stack'[p]].src
    BY <1>1, <1>2 DEF IInv, StackInv
  <2>2. \A p, q \in DOMAIN stack' : stack'[p] = stack'[q] => p = q
    BY <1>2 DEF IInv, StackInv
  <2>3. \A i \in Moves' : status'[i] = "Moving" <=> i \in Waiting'
    BY <1>3, <1>5 DEF IInv, StackInv
  <2>4. \A i \in Waiting' : ~IsNop(i)' /\ (pm'[i].cls = "Kl" => k' = "Kl")
    BY <1>1, <1>5 DEF IInv, StackInv, IsNop
  <2> QED
    BY <2>1, <2>2, <2>3, <2>4, <1>1 DEF StackInv
<1>7. pc' = "ret" => /\ Len(stack) > 1 /\ Top' = stack[Len(stack) - 1]
                    /\ pm[Top].dst = pm[Top'].src
  <2> SUFFICES ASSUME pc' = "ret"
               PROVE  /\ Len(stack) > 1 /\ Top' = stack[Len(stack) - 1]
                      /\ pm[Top].dst = pm[Top'].src
    OBVIOUS
  <2>1. Len(stack) > 1
    BY <1>1, <1>2
  <2>2. Top' = stack[Len(stack) - 1]
    BY <2>1, <1>2 DEF Top
  <2>3. pm[stack[(Len(stack) - 1) + 1]].dst = pm[stack[Len(stack) - 1]].src
    BY <2>1, <1>2 DEF IInv, StackInv
  <2> QED
    BY <2>1, <2>2, <2>3, <1>2
<1>8. RetInv'
  BY <1>1, <1>3, <1>7 DEF RetInv
<1>9. DistinctDst'
  BY <1>1, <1>3 DEF IInv, DistinctDst
<1> QED
  BY <1>1, <1>2, <1>4, <1>6, <1>7, <1>8, <1>9

-----------------------------------------------------------------------------
(* A copy in front of code that is right everywhere (no cycle under way):  *)
(* only the destination of the copy read from it.                          *)
LEMMA CopyStep ==
  ASSUME IInv, pc \in {"call", "ret"}, ~InCycle, Return(0), EmitCopy(pm[Top]),
         k' \in Cls, k = "Kl" => k' = "Kl",
         \A j \in Moves : pm[j].dst = pm[Top].src => IsMoved(j)
  PROVE  IInv'
<1> DEFINE d == pm[Top].dst
           s == pm[Top].src
<1>1. /\ pm' = pm /\ Moves' = Moves /\ c' = 0
      /\ Top \in Moves /\ ~IsMoved(Top)
      /\ \A i \in Moves : IsMoved(i)' <=> (IsMoved(i) \/ i = Top)
      /\ \A l \in Loc : MovedTo(l)' = IF l = d THEN {Top} ELSE MovedTo(l)
      /\ MovedTo(d) = {} /\ ~InCycle'
      /\ status' \in [1..Len(pm) -> {"ToMove", "Moving", "Moved"}]
  BY ReturnStatus
<1>2. /\ PhaseInv' /\ StackInv' /\ RetInv' /\ DistinctDst'
      /\ pc' \in {"gen", "ret"} /\ stack' = Pop
  BY ReturnStack
<1>3. d \in Loc /\ s \in Loc /\ pm[Top].cls \in Cls /\ stack' \in Seq(Moves)
  BY <1>2, StackFacts DEF Move
<1>4. /\ low' = [l \in Loc |-> IF low[l] = d THEN s ELSE low[l]]
      /\ high' = [l \in Loc |-> IF high[l] = d
                                THEN IF pm[Top].cls = "Kl" THEN s ELSE Junk
                                ELSE high[l]]
      /\ low \in [Loc -> Loc] /\ high \in [Loc -> Loc \cup {Junk}]
  BY DEF EmitCopy, CopyFrom, IInv, TypeOK
<1>5. TypeOK'
  <2>1. low' \in [Loc -> Loc] /\ high' \in [Loc -> Loc \cup {Junk}]
    BY <1>3, <1>4
  <2> QED
    BY <2>1, <1>1, <1>2, <1>3 DEF IInv, TypeOK
<1>6. Closed'
  BY <1>1 DEF IInv, Closed
(* What is read at d is read by l = d only.                                *)
<1>7. ASSUME NEW l \in Loc
      PROVE  low[l] = d <=> l = d
  <2>1. CASE MovedTo(l) = {}
    <3>1. low[l] = l
      BY <2>1 DEF IInv, LowInv
    <3> QED BY <3>1
  <2>2. ASSUME NEW i \in MovedTo(l) PROVE low[l] # d /\ l # d
    <3>1. i \in Moves /\ IsMoved(i) /\ low[l] = pm[i].src
      BY DEF IInv, LowInv, MovedTo, IsMoved
    <3>2. pm[i].src # d
      BY <3>1, <1>1 DEF IInv, Closed
    <3> QED BY <3>1, <3>2, <1>1
  <2> QED BY <2>1, <2>2
<1>8. LowInv'
  <2> SUFFICES ASSUME NEW l \in Loc
               PROVE  /\ MovedTo(l)' = {} => low'[l] = l
                      /\ \A i \in MovedTo(l)' : low'[l] = pm[i].src
    BY <1>1 DEF LowInv
  <2>1. CASE l = d
    BY <2>1, <1>1, <1>4, <1>7
  <2>2. CASE l # d
    <3>1. low'[l] = low[l] /\ MovedTo(l)' = MovedTo(l)
      BY <2>2, <1>1, <1>4, <1>7
    <3> QED
      BY <3>1 DEF IInv, LowInv
  <2> QED BY <2>1, <2>2
<1>9. HighInv'
  <2> SUFFICES ASSUME NEW l \in Loc
               PROVE  \/ high'[l] = low'[l]
                      \/ high'[l] = Junk /\ \E i \in MovedTo(l)' : pm[i].cls = "Kw"
    BY <1>1 DEF HighInv
  <2>1. \/ high[l] = low[l]
        \/ high[l] = Junk /\ \E i \in MovedTo(l) : pm[i].cls = "Kw"
    BY DEF IInv, HighInv
  <2>2. CASE l = d
    <3>1. high[l] = d /\ low[l] = d
      BY <2>1, <2>2, <1>1, <1>7
    <3> QED
      BY <3>1, <2>2, <1>1, <1>3, <1>4 DEF Cls
  <2>3. CASE l # d
    <3>1. low'[l] = low[l] /\ MovedTo(l)' = MovedTo(l)
      BY <2>3, <1>1, <1>4, <1>7
    <3>2. high'[l] = high[l]
      BY <2>1, <2>3, <1>3, <1>4, <1>7, ParMoveAssumption
    <3> QED
      BY <3>1, <3>2, <2>1
  <2> QED BY <2>2, <2>3
<1> QED
  BY <1>1, <1>2, <1>5, <1>6, <1>8, <1>9 DEF IInv, CycleInv

-----------------------------------------------------------------------------
(* A move to itself is done with no instruction.                           *)
LEMMA NopStep ==
  ASSUME IInv, CallNop
  PROVE  IInv'
<1> DEFINE d == pm[Top].dst
<1>1. pc = "call" /\ pm[Top].src = d /\ Return(0) /\ UNCHANGED <<k, low, high>>
  BY DEF CallNop, IsNop
<1>2. /\ pm' = pm /\ Moves' = Moves /\ c' = 0
      /\ Top \in Moves /\ ~InCycle /\ ~InCycle'
      /\ \A i \in Moves : IsMoved(i)' <=> (IsMoved(i) \/ i = Top)
      /\ \A l \in Loc : MovedTo(l)' = IF l = d THEN {Top} ELSE MovedTo(l)
      /\ MovedTo(d) = {}
      /\ status' \in [1..Len(pm) -> {"ToMove", "Moving", "Moved"}]
  BY <1>1, ReturnStatus DEF InCycle
<1>3. /\ PhaseInv' /\ StackInv' /\ RetInv' /\ DistinctDst'
      /\ pc' \in {"gen", "ret"} /\ stack' \in Seq(Moves)
  BY <1>1, ReturnStack, StackFacts DEF IInv, TypeOK
<1>4. TypeOK'
  BY <1>1, <1>2, <1>3 DEF IInv, TypeOK
<1>5. Closed'
  BY <1>1, <1>2 DEF IInv, Closed, DistinctDst
<1>6. LowInv'
  <2> SUFFICES ASSUME NEW l \in Loc
               PROVE  /\ MovedTo(l)' = {} => low[l] = l
                      /\ \A i \in MovedTo(l)' : low[l] = pm[i].src
    BY <1>1, <1>2 DEF LowInv
  <2>1. MovedTo(l) = {} => low[l] = l
    BY <1>2 DEF IInv, LowInv
  <2> QED
    BY <2>1, <1>1, <1>2 DEF IInv, LowInv
<1>7. HighInv'
  BY <1>1, <1>2 DEF IInv, HighInv
<1> QED
  BY <1>2, <1>3, <1>4, <1>5, <1>6, <1>7 DEF IInv, CycleInv

(* A swap in front of code in which only the entry e of the cycle is still *)
(* wrong: it settles the innermost move and leaves e reading what the      *)
(* frame below has to move.  The swap that finds the cycle (e read by the  *)
(* innermost move) and those that unwind it do the same.                   *)
LEMMA SwapStep ==
  ASSUME IInv, pc \in {"call", "ret"}, NEW e \in Moves, e # Top, ~IsMoved(e),
         Return(e), EmitSwap(k', pm[Top]), k' \in Cls, k = "Kl" => k' = "Kl",
         pm[Top].cls = "Kl" => k' = "Kl", ~IsNop(Top),
         InCycle => e = c /\ k' = k,
         NEW q \in DOMAIN stack, stack[q] = e,
         \A p \in q..Len(stack), i \in Moves :
            IsMoved(i) => pm[i].src # pm[stack[p]].src,
         low[pm[e].dst] = pm[Top].src,
         \A j \in Moves : pm[j].dst = pm[Top].src => IsMoved(j) \/ j = e
  PROVE  IInv'
<1> DEFINE d == pm[Top].dst
           s == pm[Top].src
           g == pm[e].dst
<1>1. /\ pm' = pm /\ Moves' = Moves /\ c' = e
      /\ Top \in Moves /\ ~IsMoved(Top)
      /\ \A i \in Moves : IsMoved(i)' <=> (IsMoved(i) \/ i = Top)
      /\ \A l \in Loc : MovedTo(l)' = IF l = d THEN {Top} ELSE MovedTo(l)
      /\ MovedTo(d) = {}
      /\ status' \in [1..Len(pm) -> {"ToMove", "Moving", "Moved"}]
  BY ReturnStatus
<1>2. /\ Len(stack) \in Nat \ {0} /\ DOMAIN stack = 1..Len(stack)
      /\ \A p \in 1..(Len(stack) - 1) : Pop[p] = stack[p]
      /\ Top = stack[Len(stack)] /\ Pop \in Seq(Moves)
  BY StackFacts DEF Top
<1>3. q \in 1..(Len(stack) - 1) /\ Len(stack) > 1
  BY <1>2
<1>4. e \in Moves /\ e # 0
  BY DEF Moves, IInv, TypeOK
<1>5. /\ PhaseInv' /\ StackInv' /\ RetInv' /\ DistinctDst'
      /\ pc' = "ret" /\ stack' = Pop /\ DOMAIN stack' = 1..(Len(stack) - 1)
      /\ Top' = stack[Len(stack) - 1] /\ d = pm[Top'].src
  BY <1>2, <1>3, <1>4, ReturnStack
<1>6. InCycle'
  BY <1>1, <1>4, <1>5 DEF InCycle
<1>7. d \in Loc /\ s \in Loc /\ g \in Loc /\ d # g /\ d # s
  <2>1. pm[e] \in Move /\ pm[Top] \in Move
    BY <1>1 DEF Moves, IInv, TypeOK
  <2> QED
    BY <2>1, <1>1 DEF Move, IInv, DistinctDst, IsNop
<1>8. /\ low' = [l \in Loc |-> SwapFrom(low[l], s, d)]
      /\ high' = [l \in Loc |-> IF high[l] \in {s, d} /\ k' = "Kw"
                                THEN Junk ELSE SwapFrom(high[l], s, d)]
      /\ low \in [Loc -> Loc] /\ high \in [Loc -> Loc \cup {Junk}]
  BY DEF EmitSwap, IInv, TypeOK
<1>9. TypeOK'
  <2>1. low' \in [Loc -> Loc] /\ high' \in [Loc -> Loc \cup {Junk}]
    BY <1>7, <1>8 DEF SwapFrom
  <2> QED
    BY <2>1, <1>1, <1>2, <1>5 DEF IInv, TypeOK
<1>10. Closed'
  BY <1>1, <1>6 DEF IInv, Closed
<1>11. \E j \in Moves : pm[j].dst = s /\ (IsMoved(j) \/ j = e)
  <2>1. CASE pc = "ret"
    BY <2>1 DEF IInv, RetInv
  <2>2. CASE pc = "call"
    <3>1. ~InCycle
      BY <2>2 DEF InCycle
    <3>2. MovedTo(g) = {}
      BY <1>1 DEF MovedTo, IInv, DistinctDst, IsMoved
    <3>3. low[g] = g
      BY <3>1, <3>2, <1>7 DEF IInv, LowInv
    <3> QED BY <3>3
  <2> QED BY <2>1, <2>2
(* Only d and g read what the swap exchanges.                              *)
<1>12. /\ low[d] = d /\ low[g] = s
       /\ \A l \in Loc \ {d, g} : low[l] # s /\ low[l] # d
  <2>1. low[d] = d
    <3>1. ~(InCycle /\ d = pm[c].dst)
      BY <1>7
    <3> QED BY <3>1, <1>1, <1>7 DEF IInv, LowInv
  <2>2. ASSUME NEW l \in Loc, l # d, l # g, MovedTo(l) = {}
        PROVE  low[l] # s /\ low[l] # d
    <3>1. low[l] = l
      BY <2>2 DEF IInv, LowInv
    <3>2. s # l
      BY <1>11, <2>2 DEF MovedTo, IsMoved
    <3> QED BY <3>1, <3>2, <2>2
  <2>3. ASSUME NEW l \in Loc, NEW i \in MovedTo(l)
        PROVE  low[l] # s /\ low[l] # d
    <3>1. i \in Moves /\ IsMoved(i) /\ low[l] = pm[i].src
      BY DEF IInv, LowInv, MovedTo, IsMoved
    <3>2. pm[i].src # s
      BY <3>1, <1>2, <1>3
    <3>3. pm[i].src # d
      <4>1. ~(InCycle /\ Top = c)
        OBVIOUS
      <4> QED BY <3>1, <4>1, <1>1 DEF IInv, Closed
    <3> QED BY <3>1, <3>2, <3>3
  <2> QED BY <2>1, <2>2, <2>3
<1>13. low'[d] = s /\ low'[g] = d /\ \A l \in Loc \ {d, g} : low'[l] = low[l]
  BY <1>7, <1>8, <1>12 DEF SwapFrom
<1>14. LowInv'
  <2> SUFFICES ASSUME NEW l \in Loc
               PROVE  /\ MovedTo(l)' = {} /\ l # g => low'[l] = l
                      /\ \A i \in MovedTo(l)' : low'[l] = pm[i].src
    BY <1>1, <1>6 DEF LowInv
  <2>1. CASE l = d
    <3>1. MovedTo(l)' = {Top}
      BY <2>1, <1>1
    <3>2. low'[l] = pm[Top].src
      BY <2>1, <1>13
    <3> QED BY <3>1, <3>2
  <2>2. CASE l = g
    <3>1. MovedTo(g) = {}
      BY <1>1 DEF MovedTo, IInv, DistinctDst, IsMoved
    <3> QED BY <3>1, <2>2, <1>1, <1>7
  <2>3. CASE l # d /\ l # g
    BY <2>3, <1>1, <1>13 DEF IInv, LowInv
  <2> QED BY <2>1, <2>2, <2>3
<1>15. HighInv'
  <2> SUFFICES ASSUME NEW l \in Loc
               PROVE  \/ high'[l] = low'[l]
                      \/ /\ high'[l] = Junk
                         /\ \/ \E i \in MovedTo(l)' : pm[i].cls = "Kw"
                            \/ l = g /\ k' = "Kw"
    BY <1>1, <1>6 DEF HighInv
  <2>1. \/ high[l] = low[l]
        \/ /\ high[l] = Junk
           /\ \/ \E i \in MovedTo(l) : pm[i].cls = "Kw"
              \/ l = g /\ k = "Kw" /\ k' = "Kw"
    BY DEF IInv, HighInv
  <2>2. CASE l = d
    <3>1. high[d] = d
      BY <2>1, <2>2, <1>1, <1>7, <1>12
    <3>2. CASE k' = "Kl"
      BY <3>1, <3>2, <2>2, <1>7, <1>8, <1>13 DEF SwapFrom
    <3>3. CASE k' = "Kw"
      <4>1. high'[d] = Junk
        BY <3>1, <3>3, <1>7, <1>8
      <4>2. pm[Top].cls = "Kw"
        <5>1. pm[Top].cls \in Cls
          BY StackFacts DEF Move
        <5> QED BY <5>1, <3>3 DEF Cls
      <4> QED BY <4>1, <4>2, <2>2, <1>1, <1>7
    <3> QED BY <3>2, <3>3 DEF Cls
  <2>3. CASE l = g
    <3>1. MovedTo(g) = {}
      BY <1>1 DEF MovedTo, IInv, DistinctDst, IsMoved
    <3>2. high[g] = s \/ (high[g] = Junk /\ k' = "Kw")
      BY <2>1, <2>3, <3>1, <1>12
    <3>3. CASE k' = "Kl"
      BY <3>2, <3>3, <2>3, <1>7, <1>8, <1>13 DEF SwapFrom
    <3>4. CASE k' = "Kw"
      BY <3>2, <3>4, <2>3, <1>7, <1>8, ParMoveAssumption DEF SwapFrom
    <3> QED BY <3>3, <3>4 DEF Cls
  <2>4. CASE l # d /\ l # g
    <3>1. low'[l] = low[l] /\ MovedTo(l)' = MovedTo(l)
      BY <2>4, <1>1, <1>13
    <3>2. high'[l] = high[l]
      BY <2>1, <2>4, <1>7, <1>8, <1>12, ParMoveAssumption DEF SwapFrom
    <3> QED BY <3>1, <3>2, <2>1, <2>4
  <2> QED BY <2>2, <2>3, <2>4
<1>16. CycleInv'
  <2>1. q \in DOMAIN stack' /\ stack'[q] = e /\ Len(stack') = Len(stack) - 1
    BY <1>2, <1>3, <1>5, StackFacts
  <2>2. ASSUME NEW p \in q..(Len(stack) - 1), NEW i \in Moves, IsMoved(i)'
        PROVE  pm[i].src # pm[stack[p]].src
    <3>1. CASE IsMoved(i)
      BY <3>1, <1>2, <1>3
    <3>2. CASE i = Top
      <4>1. p \in DOMAIN stack /\ p + 1 \in DOMAIN stack /\ p + 1 # q
        BY <1>2, <1>3
      <4>2. pm[stack[p]].src = pm[stack[p + 1]].dst /\ stack[p + 1] \in Moves
        BY <4>1, StackFacts DEF IInv, StackInv
      <4>3. stack[p + 1] # e
        BY <4>1 DEF IInv, StackInv
      <4>4. ~IsMoved(stack[p + 1])
        <5>1. CASE p + 1 = Len(stack)
          BY <5>1, <1>1, <1>2
        <5>2. CASE p + 1 \in 1..(Len(stack) - 1)
          <6>1. stack[p + 1] \in Waiting
            BY <5>2, <1>2 DEF Waiting
          <6> QED
            BY <6>1, <4>2 DEF IInv, StackInv, IsMoved
        <5> QED BY <5>1, <5>2, <4>1, <1>2
      <4> QED
        BY <3>2, <4>2, <4>3, <4>4, <1>11 DEF IInv, DistinctDst
    <3> QED BY <3>1, <3>2, <2>2, <1>1
  <2>3. \A p \in q..(Len(stack) - 1) : stack'[p] = stack[p]
    BY <1>2, <1>3, <1>5
  <2> QED
    BY <2>1, <2>2, <2>3, <1>1, <1>5, <1>13 DEF CycleInv
<1> QED
  BY <1>5, <1>9, <1>10, <1>14, <1>15, <1>16 DEF IInv

-----------------------------------------------------------------------------
(* The frame the cycle was entered by: everything is in place already.     *)
LEMMA CycleEndStep ==
  ASSUME IInv, RetCycleEnd
  PROVE  IInv'
<1>1. pc = "ret" /\ c = Top /\ Return(0) /\ UNCHANGED <<k, low, high>>
  BY DEF RetCycleEnd
<1>2. /\ pm' = pm /\ Moves' = Moves /\ c' = 0
      /\ Top \in Moves /\ ~InCycle'
      /\ \A i \in Moves : IsMoved(i)' <=> (IsMoved(i) \/ i = Top)
      /\ \A l \in Loc : MovedTo(l)' = IF l = pm[Top].dst THEN {Top} ELSE MovedTo(l)
      /\ MovedTo(pm[Top].dst) = {}
      /\ status' \in [1..Len(pm) -> {"ToMove", "Moving", "Moved"}]
  BY <1>1, ReturnStatus
<1>3. /\ PhaseInv' /\ StackInv' /\ RetInv' /\ DistinctDst'
      /\ pc' \in {"gen", "ret"} /\ stack' \in Seq(Moves)
  BY <1>1, ReturnStack, StackFacts DEF IInv, TypeOK
<1>4. TypeOK'
  BY <1>1, <1>2, <1>3 DEF IInv, TypeOK
<1>5. Closed'
  BY <1>1, <1>2 DEF IInv, Closed, RetInv, DistinctDst
<1>6. InCycle
  BY <1>1, <1>2 DEF InCycle, Moves, IInv, TypeOK
<1>7. LowInv'
  <2> SUFFICES ASSUME NEW l \in Loc
               PROVE  /\ MovedTo(l)' = {} => low[l] = l
                      /\ \A i \in MovedTo(l)' : low[l] = pm[i].src
    BY <1>1, <1>2 DEF LowInv
  <2>1. CASE l = pm[Top].dst
    BY <2>1, <1>1, <1>2, <1>6 DEF IInv, CycleInv
  <2>2. CASE l # pm[Top].dst
    BY <2>2, <1>1, <1>2 DEF IInv, LowInv
  <2> QED BY <2>1, <2>2
<1>8. HighInv'
  <2>1. k = "Kw" => pm[Top].cls = "Kw"
    <3>1. pm[Top].cls \in Cls
      BY StackFacts, <1>1 DEF Move
    <3> QED
      BY <3>1, <1>1, StackFacts DEF IInv, StackInv, Cls
  <2> QED
    BY <2>1, <1>1, <1>2 DEF IInv, HighInv
<1> QED
  BY <1>2, <1>3, <1>4, <1>5, <1>7, <1>8 DEF IInv, CycleInv

(* A move of the stack marked Moving was found again: a cycle.             *)
LEMMA CallCycleStep ==
  ASSUME IInv, NEW j \in Moves, CallCycle(j)
  PROVE  IInv'
<1>1. /\ pc = "call" /\ ~IsNop(Top) /\ pm[j].dst = pm[Top].src
      /\ status[j] = "Moving" /\ k' = ChainClass(Top)
      /\ EmitSwap(k', pm[Top]) /\ Return(j) /\ ~InCycle
  BY DEF CallCycle, Blocks, InCycle
<1>2. status[Top] = "ToMove"
  BY <1>1 DEF IInv, StackInv
<1>3. k' \in Cls /\ (k = "Kl" => k' = "Kl") /\ (pm[Top].cls = "Kl" => k' = "Kl")
  BY <1>1 DEF ChainClass, IInv, TypeOK, Cls
<1>4. /\ Len(stack) \in Nat \ {0} /\ DOMAIN stack = 1..Len(stack)
      /\ \A p \in DOMAIN stack : stack[p] \in Moves
      /\ Top = stack[Len(stack)]
  BY <1>1, StackFacts DEF Top
<1>5. PICK q \in 1..(Len(stack) - 1) : stack[q] = j
  <2>1. j \in Waiting
    BY <1>1 DEF IInv, StackInv
  <2> QED
    BY <2>1, <1>1 DEF Waiting
<1>6. q \in DOMAIN stack
  BY <1>4
<1>7. ASSUME NEW p \in q..Len(stack), NEW i \in Moves, IsMoved(i)
      PROVE  pm[i].src # pm[stack[p]].src
  <2>1. CASE p = Len(stack)
    BY <2>1, <1>1, <1>4, <1>7 DEF IInv, Closed, IsMoved
  <2>2. CASE p \in 1..(Len(stack) - 1)
    <3>1. p \in DOMAIN stack /\ p + 1 \in DOMAIN stack
      BY <2>2, <1>4
    <3>2. pm[stack[p]].src = pm[stack[p + 1]].dst
      BY <3>1 DEF IInv, StackInv
    <3>3. status[stack[p + 1]] # "Moved"
      <4>1. CASE p + 1 = Len(stack)
        BY <4>1, <1>2, <1>4
      <4>2. CASE p + 1 \in 1..(Len(stack) - 1)
        <5>1. stack[p + 1] \in Waiting
          BY <4>2, <1>1 DEF Waiting
        <5> QED
          BY <5>1, <3>1, <1>4 DEF IInv, StackInv
      <4> QED BY <4>1, <4>2, <3>1, <1>4
    <3> QED
      <4> DEFINE h == stack[p + 1]
      <4>1. h \in Moves /\ pm[h].dst = pm[stack[p]].src /\ ~IsMoved(h)
        BY <3>1, <3>2, <3>3, <1>4 DEF IsMoved
      <4>2. pm[h].dst = pm[i].src => IsMoved(h)
        BY <4>1, <1>1, <1>7 DEF IInv, Closed
      <4> HIDE DEF h
      <4> QED
        BY <4>1, <4>2
  <2>3. p = Len(stack) \/ p \in 1..(Len(stack) - 1)
    <3>1. Len(stack) \in Nat \ {0}
      BY <1>4
    <3>2. p \in 1..Len(stack)
      BY <3>1
    <3> QED BY <3>1, <3>2, LastOrBelow
  <2> QED BY <2>1, <2>2, <2>3
<1>8. low[pm[j].dst] = pm[Top].src
  <2>1. MovedTo(pm[j].dst) = {}
    BY <1>1 DEF MovedTo, IInv, DistinctDst
  <2>2. pm[j].dst \in Loc
    BY <1>1, StackFacts DEF Move
  <2> QED
    BY <2>1, <2>2, <1>1 DEF IInv, LowInv
<1>9. \A h \in Moves : pm[h].dst = pm[Top].src => h = j
  BY <1>1 DEF IInv, DistinctDst
<1>10. j # Top /\ ~IsMoved(j)
  BY <1>1, <1>2 DEF IsMoved
<1> QED
  BY <1>1, <1>3, <1>5, <1>6, <1>7, <1>8, <1>9, <1>10, SwapStep

(* A frame of the cycle between its entry and its last move.               *)
LEMMA RetCycleStep ==
  ASSUME IInv, RetCycle
  PROVE  IInv'
<1>1. /\ pc = "ret" /\ c # Top /\ c # 0 /\ EmitSwap(k, pm[Top])
      /\ Return(c) /\ k' = k /\ InCycle
  BY DEF RetCycle, InCycle
<1>2. c \in Moves /\ k \in Cls
  BY <1>1 DEF IInv, TypeOK
<1>3. /\ pm[Top].cls = "Kl" => k' = "Kl"
      /\ ~IsNop(Top)
  BY <1>1, StackFacts DEF IInv, StackInv
<1>4. PICK q \in DOMAIN stack :
        /\ stack[q] = c
        /\ \A p \in q..Len(stack), i \in Moves :
             IsMoved(i) => pm[i].src # pm[stack[p]].src
  BY <1>1 DEF IInv, CycleInv
<1>5. ~IsMoved(c)
  <2>1. c \in Waiting
    BY <1>1, <1>4, StackFacts DEF Waiting
  <2> QED
    BY <2>1, <1>2 DEF IInv, StackInv, IsMoved
<1>6. low[pm[c].dst] = pm[Top].src
  BY <1>1 DEF IInv, CycleInv
<1>7. \A j \in Moves : pm[j].dst = pm[Top].src => IsMoved(j) \/ j = c
  <2>1. PICK j \in Moves : IsMoved(j) /\ pm[j].dst = pm[Top].src
    BY <1>1 DEF IInv, RetInv
  <2> QED
    BY <2>1 DEF IInv, DistinctDst
<1> QED
  BY <1>1, <1>2, <1>3, <1>4, <1>5, <1>6, <1>7, SwapStep

-----------------------------------------------------------------------------
(* A move not yet looked at blocks the innermost one: it is called.        *)
LEMMA CallChainStep ==
  ASSUME IInv, NEW j \in Moves, CallChain(j)
  PROVE  IInv'
<1>1. /\ pc = "call" /\ ~IsNop(Top) /\ pm[j].dst = pm[Top].src
      /\ status[j] = "ToMove" /\ k' = ChainClass(Top)
      /\ status' = [status EXCEPT ![Top] = "Moving"]
      /\ stack' = Append(stack, j)
      /\ UNCHANGED <<pm, pc, c, low, high>>
  BY DEF CallChain, Blocks
<1>2. /\ Len(stack) \in Nat \ {0} /\ DOMAIN stack = 1..Len(stack)
      /\ stack \in Seq(Moves) /\ Top = stack[Len(stack)] /\ Top \in Moves
      /\ status[Top] = "ToMove"
  BY <1>1, StackFacts DEF Top, IInv, StackInv
<1>3. /\ Moves' = Moves /\ pm' = pm /\ Moves = 1..Len(pm)
      /\ status \in [Moves -> {"ToMove", "Moving", "Moved"}]
  <2>1. pm \in Seq(Move) /\ status \in [1..Len(pm) -> {"ToMove", "Moving", "Moved"}]
    BY DEF IInv, TypeOK
  <2>2. Moves = 1..Len(pm)
    BY <2>1 DEF Moves
  <2> QED
    BY <2>1, <2>2, <1>1 DEF Moves
<1>4. /\ Len(stack') = Len(stack) + 1 /\ DOMAIN stack' = 1..(Len(stack) + 1)
      /\ stack' \in Seq(Moves) /\ stack'[Len(stack) + 1] = j
      /\ \A p \in 1..Len(stack) : stack'[p] = stack[p]
      /\ Top' = j /\ stack' # <<>>
  BY <1>1, <1>2 DEF Top
<1>5. /\ \A i \in Moves : status'[i] = IF i = Top THEN "Moving" ELSE status[i]
      /\ status' \in [1..Len(pm) -> {"ToMove", "Moving", "Moved"}]
  BY <1>1, <1>2, <1>3
<1>6. /\ \A i \in Moves : IsMoved(i)' <=> IsMoved(i)
      /\ ~InCycle /\ ~InCycle'
      /\ \A l \in Loc : MovedTo(l)' = MovedTo(l)
  BY <1>1, <1>2, <1>3, <1>5 DEF IsMoved, InCycle, MovedTo
<1>7. k' \in Cls /\ (k = "Kl" => k' = "Kl") /\ (pm[Top].cls = "Kl" => k' = "Kl")
  BY <1>1 DEF ChainClass, IInv, TypeOK, Cls
<1>8. TypeOK'
  BY <1>1, <1>3, <1>4, <1>5, <1>7 DEF IInv, TypeOK
<1>9. Waiting' = Waiting \cup {Top}
  <2>1. Waiting' = {stack[p] : p \in 1..Len(stack)}
    BY <1>1, <1>2, <1>4 DEF Waiting
  <2>2. Waiting = {stack[p] : p \in 1..(Len(stack) - 1)}
    BY <1>1 DEF Waiting
  <2> QED
    BY <2>1, <2>2, <1>2
<1>10. \A p \in 1..Len(stack) : stack[p] # j
  <2>1. ASSUME NEW p \in 1..Len(stack), stack[p] = j PROVE FALSE
    <3>1. CASE p = Len(stack)
      BY <3>1, <2>1, <1>1, <1>2 DEF IsNop, IInv, DistinctDst
    <3>2. CASE p \in 1..(Len(stack) - 1)
      <4>1. j \in Waiting
        BY <3>2, <2>1, <1>1 DEF Waiting
      <4> QED
        BY <4>1, <1>1 DEF IInv, StackInv
    <3>3. p = Len(stack) \/ p \in 1..(Len(stack) - 1)
      <4>1. Len(stack) \in Nat \ {0}
        BY <1>2
      <4> QED BY <4>1, LastOrBelow
    <3> QED BY <3>1, <3>2, <3>3
  <2> QED BY <2>1
<1>11. StackInv'
  <2>1. ASSUME NEW p \in DOMAIN stack', p + 1 \in DOMAIN stack'
        PROVE  pm[stack'[p + 1]].dst = pm[stack'[p]].src
    <3>1. CASE p = Len(stack)
      BY <3>1, <1>1, <1>2, <1>4
    <3>2. CASE p \in DOMAIN stack /\ p + 1 \in DOMAIN stack
      BY <3>2, <1>2, <1>4 DEF IInv, StackInv
    <3>3. p = Len(stack) \/ (p \in DOMAIN stack /\ p + 1 \in DOMAIN stack)
      BY <2>1, <1>2, <1>4
    <3> QED BY <3>1, <3>2, <3>3
  <2>2. ASSUME NEW p \in DOMAIN stack', NEW q \in DOMAIN stack', stack'[p] = stack'[q]
        PROVE  p = q
    BY <2>2, <1>2, <1>4, <1>10 DEF IInv, StackInv
  <2>3. \A i \in Moves : status'[i] = "Moving" <=> i \in Waiting'
    BY <1>2, <1>5, <1>9 DEF IInv, StackInv
  <2>4. \A i \in Waiting' : ~IsNop(i)' /\ (pm'[i].cls = "Kl" => k' = "Kl")
    BY <1>1, <1>3, <1>7, <1>9 DEF IInv, StackInv, IsNop
  <2>5. status'[Top'] = "ToMove"
    BY <1>1, <1>2, <1>4, <1>5, <1>10
  <2> QED
    BY <2>1, <2>2, <2>3, <2>4, <2>5, <1>3 DEF StackInv
<1>12. PhaseInv'
  BY <1>1, <1>4 DEF IInv, PhaseInv
<1>13. LowInv' /\ HighInv'
  BY <1>1, <1>6 DEF IInv, LowInv, HighInv
<1>14. Closed' /\ DistinctDst' /\ RetInv' /\ CycleInv'
  BY <1>1, <1>3, <1>6 DEF IInv, Closed, DistinctDst, RetInv, CycleInv
<1> QED
  BY <1>8, <1>11, <1>12, <1>13, <1>14 DEF IInv

-----------------------------------------------------------------------------
(* Listing a move: nothing is emitted yet.                                 *)
LEMMA AddStep ==
  ASSUME IInv, NEW m \in Move, PmAdd(m), Len(pm) # Tmp0
  PROVE  IInv'
<1>1. /\ pc = "add" /\ pc' = "add" /\ pm' = Append(pm, m)
      /\ status' = Append(status, "ToMove")
      /\ \A i \in Moves : pm[i].dst # m.dst
      /\ UNCHANGED <<stack, c, k, low, high>>
  BY DEF PmAdd
<1>2. /\ pm \in Seq(Move) /\ Len(pm) \in Nat /\ Moves = 1..Len(pm)
      /\ Len(pm) <= Tmp0 /\ stack = <<>> /\ c = 0
      /\ status \in [1..Len(pm) -> {"ToMove", "Moving", "Moved"}]
      /\ \A i \in Moves : status[i] = "ToMove"
      /\ low = [l \in Loc |-> l] /\ high = [l \in Loc |-> l]
  <2>1. /\ pm \in Seq(Move) /\ Len(pm) <= Tmp0 /\ stack = <<>> /\ c = 0
        /\ status \in [1..Len(pm) -> {"ToMove", "Moving", "Moved"}]
        /\ \A i \in Moves : status[i] = "ToMove"
        /\ low = [l \in Loc |-> l] /\ high = [l \in Loc |-> l]
    BY <1>1 DEF IInv, TypeOK, PhaseInv
  <2> QED
    BY <2>1 DEF Moves
<1>3. /\ pm' \in Seq(Move) /\ Len(pm') = Len(pm) + 1
      /\ Moves' = 1..(Len(pm) + 1)
      /\ \A i \in Moves : pm'[i] = pm[i]
      /\ pm'[Len(pm) + 1] = m
  <2>1. /\ pm' \in Seq(Move) /\ Len(pm') = Len(pm) + 1
        /\ DOMAIN pm' = 1..(Len(pm) + 1)
        /\ \A i \in 1..Len(pm) : pm'[i] = pm[i]
        /\ pm'[Len(pm) + 1] = m
    BY <1>1, <1>2
  <2> QED
    BY <2>1, <1>2 DEF Moves
<1>4. /\ status' \in [1..Len(pm') -> {"ToMove", "Moving", "Moved"}]
      /\ \A i \in Moves' : status'[i] = "ToMove"
  <2>1. status \in Seq({"ToMove", "Moving", "Moved"}) /\ Len(status) = Len(pm)
    BY <1>2
  <2>2. /\ status' \in Seq({"ToMove", "Moving", "Moved"}) /\ Len(status') = Len(pm) + 1
        /\ \A i \in 1..Len(pm) : status'[i] = status[i]
        /\ status'[Len(pm) + 1] = "ToMove"
    BY <2>1, <1>1
  <2> QED
    BY <2>2, <1>2, <1>3
<1>5. Len(pm') <= Tmp0
  BY <1>2, <1>3, ParMoveAssumption DEF PmAdd
<1>6. TypeOK'
  <2>1. stack' \in Seq(Moves') /\ c' \in Moves' \cup {0}
    BY <1>1, <1>2
  <2> QED
    BY <2>1, <1>1, <1>3, <1>4, <1>5 DEF IInv, TypeOK
<1>7. DistinctDst'
  BY <1>1, <1>2, <1>3 DEF IInv, DistinctDst
<1>8. PhaseInv'
  BY <1>1, <1>2, <1>4 DEF PhaseInv
<1>9. Waiting' = {} /\ DOMAIN stack' = {} /\ ~InCycle'
  BY <1>1, <1>2 DEF Waiting, InCycle
<1>10. StackInv'
  BY <1>1, <1>4, <1>9 DEF StackInv
<1>11. /\ \A i \in Moves' : ~IsMoved(i)'
       /\ \A l \in Loc : MovedTo(l)' = {}
  BY <1>4 DEF IsMoved, MovedTo
<1>12. Closed' /\ RetInv' /\ CycleInv'
  BY <1>1, <1>9, <1>11 DEF Closed, RetInv, CycleInv
<1>13. LowInv' /\ HighInv'
  BY <1>1, <1>2, <1>9, <1>11 DEF LowInv, HighInv
<1> QED
  BY <1>6, <1>7, <1>8, <1>10, <1>12, <1>13 DEF IInv

(* Steps that change pc only, outside pmrec.                               *)
LEMMA PhaseStep ==
  ASSUME IInv, UNCHANGED <<pm, status, stack, c, k, low, high>>,
         pc \in {"add", "gen"}, pc' \in {"gen", "done", "died"},
         pc' = "done" => \A i \in Moves : status[i] # "ToMove"
  PROVE  IInv'
<1>1. stack = <<>> /\ Waiting = {} /\ DOMAIN stack = {}
  BY DEF IInv, PhaseInv, Waiting
<1>2. /\ Moves' = Moves /\ Waiting' = {}
      /\ ~InCycle /\ ~InCycle'
      /\ \A i : IsMoved(i)' <=> IsMoved(i)
      /\ \A i : IsNop(i)' <=> IsNop(i)
      /\ \A l : MovedTo(l)' = MovedTo(l)
  BY <1>1 DEF Moves, Waiting, InCycle, IsMoved, IsNop, MovedTo
<1>3. TypeOK'
  BY <1>2 DEF IInv, TypeOK
<1>4. PhaseInv' /\ RetInv' /\ CycleInv'
  <2>1. ASSUME pc' = "done", NEW i \in Moves PROVE IsMoved(i)
    <3>1. status[i] \in {"ToMove", "Moving", "Moved"}
      BY DEF Moves, IInv, TypeOK
    <3>2. status[i] # "Moving"
      BY <1>1 DEF IInv, StackInv
    <3> QED BY <3>1, <3>2, <2>1 DEF IsMoved
  <2> QED
    BY <2>1, <1>1, <1>2 DEF IInv, PhaseInv, RetInv, CycleInv
<1>5. StackInv'
  BY <1>1, <1>2 DEF IInv, StackInv
<1>6. DistinctDst' /\ Closed' /\ LowInv' /\ HighInv'
  BY <1>2 DEF IInv, DistinctDst, Closed, LowInv, HighInv
<1> QED
  BY <1>3, <1>4, <1>5, <1>6 DEF IInv

(* pmgen calls pmrec on a move not yet looked at.                          *)
LEMMA GenCallStep ==
  ASSUME IInv, NEW i \in Moves, PmGenCall(i)
  PROVE  IInv'
<1>1. /\ pc = "gen" /\ status[i] = "ToMove" /\ pc' = "call" /\ stack' = <<i>>
      /\ k' = pm[i].cls
      /\ UNCHANGED <<pm, status, c, low, high>>
  BY DEF PmGenCall
<1>2. stack = <<>> /\ Waiting = {}
  BY <1>1 DEF IInv, PhaseInv, Waiting
<1>3. /\ Moves' = Moves /\ stack' \in Seq(Moves) /\ Len(stack') = 1
      /\ DOMAIN stack' = 1..1 /\ stack'[1] = i /\ Top' = i /\ stack' # <<>>
  BY <1>1 DEF Moves, Top
<1>4. /\ Waiting' = {} /\ ~InCycle /\ ~InCycle'
      /\ \A h : IsMoved(h)' <=> IsMoved(h)
      /\ \A l : MovedTo(l)' = MovedTo(l)
  BY <1>1, <1>3 DEF Waiting, InCycle, IsMoved, MovedTo, Moves
<1>5. k' \in Cls
  <2>1. pm[i] \in Move
    BY DEF Moves, IInv, TypeOK
  <2> QED BY <2>1, <1>1 DEF Move
<1>6. TypeOK'
  BY <1>1, <1>3, <1>5 DEF IInv, TypeOK
<1>7. PhaseInv' /\ RetInv' /\ CycleInv'
  BY <1>1, <1>3, <1>4 DEF IInv, PhaseInv, RetInv, CycleInv
<1>8. StackInv'
  BY <1>1, <1>2, <1>3, <1>4 DEF IInv, StackInv
<1>9. DistinctDst' /\ Closed' /\ LowInv' /\ HighInv'
  BY <1>1, <1>3, <1>4 DEF IInv, DistinctDst, Closed, LowInv, HighInv
<1> QED
  BY <1>6, <1>7, <1>8, <1>9 DEF IInv

-----------------------------------------------------------------------------
(* Every step keeps the inductive invariant.                               *)
LEMMA NextIInv == IInv /\ [Next]_vars => IInv'
<1> SUFFICES ASSUME IInv, [Next]_vars PROVE IInv'
  OBVIOUS
<1>1. ASSUME NEW m \in Move, PmAdd(m) PROVE IInv'
  <2>1. CASE Len(pm) # Tmp0
    BY <2>1, <1>1, AddStep
  <2>2. CASE Len(pm) = Tmp0
    BY <2>2, <1>1, PhaseStep DEF PmAdd
  <2> QED BY <2>1, <2>2
<1>2. CASE PmGen \/ PmGenEnd
  BY <1>2, PhaseStep DEF PmGen, PmGenEnd
<1>3. ASSUME NEW i \in Moves, PmGenCall(i) PROVE IInv'
  BY <1>3, GenCallStep
<1>4. CASE CallNop
  BY <1>4, NopStep
<1>5. CASE CallFree
  <2>1. pc = "call" /\ Return(0) /\ EmitCopy(pm[Top]) /\ ~InCycle
    BY <1>5 DEF CallFree, InCycle
  <2>2. k' \in Cls /\ (k = "Kl" => k' = "Kl")
    BY <1>5 DEF CallFree, ChainClass, IInv, TypeOK, Cls
  <2>3. Top \in Moves
    BY <2>1, StackFacts
  <2>4. \A j \in Moves : pm[j].dst = pm[Top].src => IsMoved(j)
    BY <1>5, <2>3, BlocksUnique DEF CallFree, IsMoved
  <2> QED
    BY <2>1, <2>2, <2>4, CopyStep
<1>6. ASSUME NEW j \in Moves, CallCycle(j) PROVE IInv'
  BY <1>6, CallCycleStep
<1>7. ASSUME NEW j \in Moves, CallChain(j) PROVE IInv'
  BY <1>7, CallChainStep
<1>8. CASE RetCycleEnd
  BY <1>8, CycleEndStep
<1>9. CASE RetCycle
  BY <1>9, RetCycleStep
<1>10. CASE RetChain
  <2>1. pc = "ret" /\ Return(0) /\ EmitCopy(pm[Top]) /\ ~InCycle /\ k' = k
    BY <1>10 DEF RetChain, InCycle
  <2>2. k' \in Cls
    BY <2>1 DEF IInv, TypeOK
  <2>3. \A j \in Moves : pm[j].dst = pm[Top].src => IsMoved(j)
    BY <2>1 DEF IInv, RetInv, DistinctDst
  <2> QED
    BY <2>1, <2>2, <2>3, CopyStep
<1>11. CASE UNCHANGED vars
  <2>1. UNCHANGED <<pm, status, pc, stack, c, k, low, high>>
    BY <1>11 DEF vars
  <2> QED
    BY <2>1 DEF IInv, TypeOK, DistinctDst, PhaseInv, StackInv, Closed, RetInv,
       CycleInv, LowInv, HighInv, IsMoved, InCycle, Waiting, MovedTo, Moves, Top, IsNop
<1> QED
  BY <1>1, <1>2, <1>3, <1>4, <1>5, <1>6, <1>7, <1>8, <1>9, <1>10, <1>11
  DEF Next, PmRec, Stopped

-----------------------------------------------------------------------------
(* IInv holds in every reachable state of pmgen, for every list of moves.  *)
THEOREM Inductive == Spec => []IInv
BY InitIInv, NextIInv, PTL DEF Spec

(* Every variable of pmadd, pmrec and pmgen keeps its type.                *)
THEOREM TypeCorrect == Spec => []TypeOK
<1>1. IInv => TypeOK
  BY DEF IInv
<1> QED BY <1>1, Inductive, PTL

(* Sequentialised moves do what the parallel ones mean, whatever chains    *)
(* and cycles they form, in both halves of the wide ones (rega.c pmrec).   *)
THEOREM MovesDone == Spec => []MovedDone
<1>1. ASSUME IInv PROVE MovedDone
  <2>1. pc = "done" => \A i \in Moves : status[i] = "Moved"
    BY <1>1 DEF IInv, PhaseInv, IsMoved
  <2>2. ASSUME pc \in {"gen", "done"}, NEW l \in Loc
        PROVE  /\ MovedTo(l) = {} => low[l] = l /\ high[l] = l
               /\ \A i \in MovedTo(l) :
                    /\ low[l] = pm[i].src
                    /\ pm[i].cls = "Kl" => high[l] = pm[i].src
    <3>1. ~InCycle
      BY <2>2 DEF InCycle
    <3>2. /\ MovedTo(l) = {} => low[l] = l
          /\ \A i \in MovedTo(l) : low[l] = pm[i].src
      BY <1>1, <3>1 DEF IInv, LowInv
    <3>3. high[l] = low[l] \/ \E i \in MovedTo(l) : pm[i].cls = "Kw"
      BY <1>1, <3>1 DEF IInv, HighInv
    <3>4. \A i, j \in MovedTo(l) : i = j
      BY <1>1 DEF MovedTo, IInv, DistinctDst
    <3> QED
      BY <3>2, <3>3, <3>4
  <2> QED BY <2>1, <2>2 DEF MovedDone
<1> QED BY <1>1, Inductive, PTL

(* The value pmgen drops never names an unfinished cycle.                  *)
THEOREM CyclesClosed == Spec => []CycleConsumed
<1>1. IInv => CycleConsumed
  BY DEF IInv, PhaseInv, CycleInv, InCycle, CycleConsumed
<1> QED BY <1>1, Inductive, PTL

-----------------------------------------------------------------------------
(* pmadd and pmgen implement the simultaneous assignment of ParAssign: the *)
(* moves it has listed are those of pm.                                    *)
Listed == {pm[i] : i \in Moves}

-----------------------------------------------------------------------------
(* Nothing is listed at first.                                             *)
LEMMA InitRefines == Init => Assign!Init
<1> SUFFICES ASSUME Init PROVE Assign!Init
  OBVIOUS
<1>1. Moves = {}
  BY DEF Init, Moves
<1> QED
  BY <1>1 DEF Init, Assign!Init, Finished

(* pmadd lists a move, or gives up when the array is full.                 *)
LEMMA AddRefines ==
  ASSUME IInv, NEW m \in Move, PmAdd(m)
  PROVE  Assign!Next
<1>1. /\ pc = "add" /\ pm \in Seq(Move) /\ \A i \in Moves : pm[i].dst # m.dst
      /\ m \in Assign!Move /\ Moves = 1..Len(pm) /\ Len(pm) \in Nat
      /\ UNCHANGED <<low, high>>
  BY DEF PmAdd, IInv, TypeOK, Moves, Move, Cls, Assign!Move
<1>2. CASE Len(pm) = Tmp0
  <2>1. pc' = "died" /\ Moves' = Moves /\ pm' = pm
    BY <1>2 DEF PmAdd, Moves
  <2>2. Assign!GiveUp
    BY <1>1, <2>1 DEF Assign!GiveUp, Finished
  <2> QED
    BY <2>2 DEF Assign!Next
<1>3. CASE Len(pm) # Tmp0
  <2>1. pc' = "add" /\ pm' = Append(pm, m)
    BY <1>1, <1>3 DEF PmAdd
  <2>2. /\ Moves' = 1..(Len(pm) + 1)
        /\ \A i \in 1..Len(pm) : pm'[i] = pm[i]
        /\ pm'[Len(pm) + 1] = m
    BY <1>1, <2>1 DEF Moves
  <2>3. Listed' = Listed \cup {m}
    <3>1. Listed' = {pm'[i] : i \in 1..(Len(pm) + 1)} /\ Listed = {pm[i] : i \in 1..Len(pm)}
      BY <1>1, <2>2 DEF Listed
    <3>2. 1..(Len(pm) + 1) = 1..Len(pm) \cup {Len(pm) + 1}
      BY <1>1
    <3> QED
      BY <3>1, <3>2, <2>2
  <2>4. \A n \in Listed : n.dst # m.dst
    BY <1>1 DEF Listed
  <2>5. Assign!List(m)
    BY <1>1, <2>1, <2>3, <2>4 DEF Assign!List, Finished, Listed
  <2> QED
    BY <1>1, <2>5 DEF Assign!Next
<1> QED
  BY <1>2, <1>3

(* The end of pmgen's loop is the assignment: all listed moves are done.   *)
LEMMA EndRefines ==
  ASSUME IInv, MovedDone, PmGenEnd
  PROVE  Assign!Perform
<1>1. /\ pc = "gen" /\ pc' = "done" /\ pm' = pm /\ Moves' = Moves
      /\ low' = low /\ high' = high
      /\ low \in [Loc -> Loc] /\ high \in [Loc -> Loc \cup {Junk}]
  BY DEF PmGenEnd, Moves, IInv, TypeOK
<1>2. \A i \in Moves : status[i] = "Moved"
  <2>1. stack = <<>> /\ Waiting = {}
    BY <1>1 DEF IInv, PhaseInv, Waiting
  <2>2. \A i \in Moves : status[i] \in {"ToMove", "Moving", "Moved"}
    BY DEF Moves, IInv, TypeOK
  <2> QED
    BY <2>1, <2>2 DEF IInv, StackInv, PmGenEnd
<1>3. ASSUME NEW l \in Loc
      PROVE  /\ {m \in Listed : m.dst = l} = {} => low[l] = l /\ high[l] = l
             /\ \A m \in {n \in Listed : n.dst = l} :
                  low[l] = m.src /\ (m.cls = "Kl" => high[l] = m.src)
  <2>1. /\ MovedTo(l) = {} => low[l] = l /\ high[l] = l
        /\ \A i \in MovedTo(l) : low[l] = pm[i].src /\ (pm[i].cls = "Kl" => high[l] = pm[i].src)
    BY <1>1 DEF MovedDone
  <2>2. \A i \in Moves : pm[i].dst = l <=> i \in MovedTo(l)
    BY <1>2 DEF MovedTo
  <2> QED
    BY <2>1, <2>2 DEF Listed, MovedTo
<1>4. Finished(low)' = low /\ Finished(high)' = high
  BY <1>1 DEF Finished
<1> QED
  BY <1>1, <1>3, <1>4 DEF Assign!Perform, Assign!Into, Listed

(* pmrec works inside: nothing of it is seen before pmgen ends.            *)
LEMMA InnerStutters ==
  ASSUME pm' = pm, pc \in {"add", "gen", "call", "ret"}, pc' \in {"gen", "call", "ret"}
  PROVE  UNCHANGED Assign!vars
<1>1. Moves' = Moves
  BY DEF Moves
<1>2. Finished(low)' = Finished(low) /\ Finished(high)' = Finished(high)
  BY DEF Finished
<1> QED
  BY <1>1, <1>2 DEF Assign!vars

(* Every step of ParMove is a step of ParAssign or changes nothing of it.  *)
LEMMA NextRefines ==
  ASSUME IInv, MovedDone, [Next]_vars
  PROVE  [Assign!Next]_(Assign!vars)
<1>1. ASSUME NEW m \in Move, PmAdd(m) PROVE Assign!Next
  BY <1>1, AddRefines
<1>2. CASE PmGen
  BY <1>2, InnerStutters DEF PmGen
<1>3. ASSUME NEW i \in Moves, PmGenCall(i) PROVE UNCHANGED Assign!vars
  BY <1>3, InnerStutters DEF PmGenCall
<1>4. CASE PmGenEnd
  BY <1>4, EndRefines DEF Assign!Next
<1>5. CASE PmRec
  <2>1. pm' = pm /\ pc \in {"call", "ret"} /\ pc' \in {"gen", "call", "ret"}
    BY <1>5 DEF PmRec, CallNop, CallFree, CallCycle, CallChain, RetCycleEnd, RetCycle,
       RetChain, Return
  <2> QED
    BY <2>1, InnerStutters
<1>6. CASE UNCHANGED vars
  <2>1. UNCHANGED <<pm, pc, low, high>>
    BY <1>6 DEF vars
  <2> QED
    BY <2>1 DEF Assign!vars, Moves, Finished
<1> QED
  BY <1>1, <1>2, <1>3, <1>4, <1>5, <1>6 DEF Next, Stopped

(* pmadd and pmgen implement one simultaneous assignment: for every list   *)
(* of moves, what is seen from outside is a behaviour of ParAssign         *)
(* (rega.c pmadd, pmrec, pmgen).                                           *)
THEOREM Refines == Spec => ImplementsAssign
<1>1. Init => Assign!Init
  BY InitRefines
<1>2. IInv /\ MovedDone /\ [Next]_vars => [Assign!Next]_(Assign!vars)
  BY NextRefines
<1> QED
  BY <1>1, <1>2, Inductive, MovesDone, PTL DEF Spec, ImplementsAssign, Assign!Spec

-----------------------------------------------------------------------------
(* The classes of moves that Rank counts, before and after a step.         *)
ToMove == With("ToMove")
Moving == With("Moving")

(* Both classes are finite.                                                *)
LEMMA WithFinite ==
  ASSUME IInv
  PROVE  /\ IsFiniteSet(ToMove) /\ Cardinality(ToMove) \in Nat
         /\ IsFiniteSet(Moving) /\ Cardinality(Moving) \in Nat
<1>1. Moves = 1..Len(pm) /\ Len(pm) \in Nat
  BY DEF IInv, TypeOK, Moves
<1>2. IsFiniteSet(Moves)
  BY <1>1, FS_Interval
<1>3. ToMove \in SUBSET Moves /\ Moving \in SUBSET Moves
  BY DEF ToMove, Moving, With
<1>4. IsFiniteSet(ToMove) /\ IsFiniteSet(Moving)
  BY <1>2, <1>3, FS_Subset
<1> QED
  BY <1>4, FS_CardinalityType

(* How many moves a return of pmrec takes from the two classes.            *)
LEMMA ReturnCounts ==
  ASSUME IInv, pc \in {"call", "ret"}, NEW v \in Moves \cup {0}, Return(v)
  PROVE  /\ Cardinality(ToMove') \in Nat /\ Cardinality(Moving') \in Nat
         /\ IF pc = "call"
            THEN /\ Cardinality(ToMove') = Cardinality(ToMove) - 1
                 /\ Cardinality(Moving') = Cardinality(Moving)
            ELSE /\ Cardinality(ToMove') = Cardinality(ToMove)
                 /\ Cardinality(Moving') = Cardinality(Moving) - 1
<1>1. /\ Moves' = Moves /\ Top \in Moves /\ Moves = 1..Len(pm)
      /\ \A i \in Moves : status'[i] = IF i = Top THEN "Moved" ELSE status[i]
  <2>1. Moves' = Moves /\ Top \in Moves
    BY ReturnStatus
  <2>2. Moves = 1..Len(pm) /\ status \in [1..Len(pm) -> {"ToMove", "Moving", "Moved"}]
    BY DEF IInv, TypeOK, Moves
  <2>3. status' = [status EXCEPT ![Top] = "Moved"]
    BY DEF Return
  <2> QED
    BY <2>1, <2>2, <2>3
<1>2. ToMove' = ToMove \ {Top} /\ Moving' = Moving \ {Top}
  BY <1>1 DEF ToMove, Moving, With
<1>3. IF pc = "call" THEN Top \in ToMove /\ Top \notin Moving
                     ELSE Top \notin ToMove /\ Top \in Moving
  <2>1. pc = "call" => status[Top] = "ToMove"
    BY DEF IInv, StackInv
  <2>2. pc = "ret" => status[Top] = "Moving"
    BY StackFacts
  <2> QED
    BY <2>1, <2>2, <1>1 DEF ToMove, Moving, With
<1>4. /\ Cardinality(ToMove \ {Top}) = IF Top \in ToMove THEN Cardinality(ToMove) - 1
                                                         ELSE Cardinality(ToMove)
      /\ Cardinality(Moving \ {Top}) = IF Top \in Moving THEN Cardinality(Moving) - 1
                                                         ELSE Cardinality(Moving)
  BY WithFinite, FS_RemoveElement
<1>5. Cardinality(ToMove') \in Nat /\ Cardinality(Moving') \in Nat
  <2>1. IsFiniteSet(ToMove \ {Top}) /\ IsFiniteSet(Moving \ {Top})
    BY WithFinite, FS_RemoveElement
  <2> QED
    BY <2>1, <1>2, FS_CardinalityType
<1> QED
  BY <1>2, <1>3, <1>4, <1>5

(* Rank as a sum of numbers.                                               *)
LEMMA RankIs ==
  Rank = 4 * Cardinality(ToMove) + 2 * Cardinality(Moving)
           + (IF pc = "gen" THEN 1 ELSE 0) - (IF pc = "call" THEN 1 ELSE 0)
BY DEF Rank, ToMove, Moving

(* A return of pmrec makes Rank smaller.                                   *)
LEMMA ReturnShrinks ==
  ASSUME IInv, pc \in {"call", "ret"}, NEW v \in Moves \cup {0}, Return(v)
  PROVE  Rank' >= 0 /\ Rank' < Rank
<1> DEFINE t == Cardinality(ToMove)
<1> DEFINE g == Cardinality(Moving)
<1>1. pc' \in {"gen", "ret"}
  BY DEF Return
<1>2. Rank' = 4 * Cardinality(ToMove') + 2 * Cardinality(Moving')
                + (IF pc' = "gen" THEN 1 ELSE 0) - (IF pc' = "call" THEN 1 ELSE 0)
  BY DEF Rank, ToMove, Moving
<1>3. t \in Nat /\ g \in Nat
  BY WithFinite
<1> QED
  BY <1>1, <1>2, <1>3, ReturnCounts, RankIs

(* pmrec's call for the move that blocks the current one: the current move *)
(* is marked Moving, the blocking one is still to be looked at.            *)
LEMMA ChainShrinks ==
  ASSUME IInv, NEW j \in Moves, CallChain(j)
  PROVE  Rank' >= 0 /\ Rank' < Rank
<1>1. /\ pc = "call" /\ pc' = pc /\ status[j] = "ToMove" /\ pm[j].dst = pm[Top].src
      /\ pm[Top].src # pm[Top].dst /\ status' = [status EXCEPT ![Top] = "Moving"]
      /\ Moves' = Moves
  BY DEF CallChain, Blocks, IsNop, Moves
<1>2. /\ Top \in Moves /\ status[Top] = "ToMove" /\ j # Top
      /\ \A i \in Moves : status'[i] = IF i = Top THEN "Moving" ELSE status[i]
  <2>1. Top \in Moves /\ status[Top] = "ToMove" /\ j # Top
    BY <1>1, StackFacts DEF IInv, StackInv
  <2>2. Moves = 1..Len(pm) /\ status \in [1..Len(pm) -> {"ToMove", "Moving", "Moved"}]
    BY DEF IInv, TypeOK, Moves
  <2> QED
    BY <1>1, <2>1, <2>2
<1>3. ToMove' = ToMove \ {Top} /\ Moving' = Moving \cup {Top}
  BY <1>1, <1>2 DEF ToMove, Moving, With
<1>4. Top \in ToMove /\ Top \notin Moving /\ j \in ToMove \ {Top}
  BY <1>1, <1>2 DEF ToMove, Moving, With
<1>5. /\ Cardinality(ToMove') = Cardinality(ToMove) - 1
      /\ Cardinality(Moving') = Cardinality(Moving) + 1
  BY <1>3, <1>4, WithFinite, FS_RemoveElement, FS_AddElement
<1>6. Cardinality(ToMove') \in Nat /\ Cardinality(ToMove') # 0
  <2>1. IsFiniteSet(ToMove')
    BY <1>3, WithFinite, FS_RemoveElement
  <2>2. ToMove' # {}
    BY <1>3, <1>4
  <2> QED
    BY <2>1, <2>2, FS_CardinalityType, FS_EmptySet
<1>7. Rank' = 4 * Cardinality(ToMove') + 2 * Cardinality(Moving')
                + (IF pc' = "gen" THEN 1 ELSE 0) - (IF pc' = "call" THEN 1 ELSE 0)
  BY DEF Rank, ToMove, Moving
<1> QED
  BY <1>1, <1>5, <1>6, <1>7, WithFinite, RankIs

(* A step of pmgen's loop that changes no status.                          *)
LEMMA LoopShrinks ==
  ASSUME IInv, PmGenEnd \/ \E i \in Moves : PmGenCall(i)
  PROVE  Rank' >= 0 /\ Rank' < Rank
<1>1. /\ pc = "gen" /\ ToMove' = ToMove /\ Moving' = Moving
      /\ pc' = "done" \/ (pc' = "call" /\ ToMove # {})
  BY DEF PmGenEnd, PmGenCall, ToMove, Moving, With, Moves
<1>2. Rank' = 4 * Cardinality(ToMove') + 2 * Cardinality(Moving')
                + (IF pc' = "gen" THEN 1 ELSE 0) - (IF pc' = "call" THEN 1 ELSE 0)
  BY DEF Rank, ToMove, Moving
<1>3. pc' = "call" => Cardinality(ToMove) # 0
  BY <1>1, WithFinite, FS_EmptySet
<1> QED
  BY <1>1, <1>2, <1>3, WithFinite, RankIs

(* Sequentialising ends for every list of moves: each call, return and     *)
(* round of pmgen's loop makes the rank smaller (rega.c pmrec, pmgen).     *)
THEOREM RankShrinks == Spec => Shrinks
<1> DEFINE Smaller == Running => Rank' >= 0 /\ Rank' < Rank
<1>1. IInv /\ Next => Smaller \/ UNCHANGED vars
  <2> SUFFICES ASSUME IInv, Next, Running, ~UNCHANGED vars
               PROVE  Rank' >= 0 /\ Rank' < Rank
    OBVIOUS
  <2>1. ASSUME NEW m \in Move, PmAdd(m) PROVE FALSE
    BY <2>1 DEF PmAdd, Running
  <2>2. CASE PmGen
    BY <2>2 DEF PmGen, Running
  <2>3. CASE PmGenEnd \/ \E i \in Moves : PmGenCall(i)
    BY <2>3, LoopShrinks
  <2>4. ASSUME NEW j \in Moves, CallChain(j) PROVE Rank' >= 0 /\ Rank' < Rank
    BY <2>4, ChainShrinks
  <2>5. ASSUME CallNop \/ CallFree \/ RetCycleEnd \/ RetCycle \/ RetChain
               \/ \E j \in Moves : CallCycle(j)
        PROVE  Rank' >= 0 /\ Rank' < Rank
    <3>1. c \in Moves \cup {0}
      BY DEF IInv, TypeOK
    <3>2. pc \in {"call", "ret"} /\ \E v \in Moves \cup {0} : Return(v)
      BY <2>5, <3>1 DEF CallNop, CallFree, CallCycle, RetCycleEnd, RetCycle, RetChain
    <3> QED
      BY <3>2, ReturnShrinks
  <2>6. CASE Stopped
    BY <2>6 DEF Stopped
  <2> QED
    BY <2>1, <2>2, <2>3, <2>4, <2>5, <2>6 DEF Next, PmRec
<1> QED
  BY <1>1, Inductive, PTL DEF Spec, Shrinks
=============================================================================
