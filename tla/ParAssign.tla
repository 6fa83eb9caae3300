----------------------------- MODULE ParAssign -----------------------------
(***************************************************************************)
(* What rega.c's callers expect of pmadd and pmgen: the listed moves all   *)
(* happen at once.  Each location ends with the content its move names,    *)
(* the upper half of a narrow move's destination is anybody's, and the     *)
(* locations no move writes are left alone.                                *)
(***************************************************************************)
EXTENDS Integers

CONSTANTS Loc, Junk

VARIABLES
  moves,     \* the set of moves listed
  phase,     \* "listing", "performed", or "died"
  low, high  \* where the halves of each location's content come from

vars == <<moves, phase, low, high>>

Move == [src : Loc, dst : Loc, cls : {"Kw", "Kl"}]

Init ==
  /\ moves = {}
  /\ phase = "listing"
  /\ low = [l \in Loc |-> l] /\ high = [l \in Loc |-> l]

List(m) ==
  /\ phase = "listing"
  /\ \A n \in moves : n.dst # m.dst
  /\ moves' = moves \cup {m}
  /\ UNCHANGED <<phase, low, high>>

GiveUp ==
  /\ phase = "listing"
  /\ phase' = "died"
  /\ UNCHANGED <<moves, low, high>>

Into(l) == {m \in moves : m.dst = l}

Perform ==
  /\ phase = "listing"
  /\ phase' = "performed"
  /\ moves' = moves
  /\ low' \in [Loc -> Loc] /\ high' \in [Loc -> Loc \cup {Junk}]
  /\ \A l \in Loc :
       /\ Into(l) = {} => low'[l] = l /\ high'[l] = l
       /\ \A m \in Into(l) : /\ low'[l] = m.src
                             /\ m.cls = "Kl" => high'[l] = m.src

Next ==
  \/ \E m \in Move : List(m)
  \/ GiveUp
  \/ Perform

Spec == Init /\ [][Next]_vars
=============================================================================
