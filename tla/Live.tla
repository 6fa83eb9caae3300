-------------------------------- MODULE Live --------------------------------
(***************************************************************************)
(* Liveness analysis (live.c).  filllive sweeps the blocks from the last   *)
(* to the first in reverse postorder, each block from its jump up to its   *)
(* first instruction, and sweeps again until no out set changes; nlv       *)
(* counts the live temporaries of each class on the way and the block      *)
(* keeps the maximum, its register pressure.                               *)
(*                                                                         *)
(* A function is a record: blocks 0..n-1 in reverse postorder, succ[b] the *)
(* successors that are not null, in order, phi[b] a sequence of            *)
(* [to, blk, arg] and ins[b] one of [to, uses, call, ret, arg]: what the   *)
(* instruction writes (None for R), the temporaries of its operands, the   *)
(* base and index of a memory operand included, and for a call the         *)
(* registers T.retregs and T.argregs give.  jmp[b] holds the temporary of  *)
(* the jump's argument, if it has one, and ret[b] the registers of a       *)
(* return whose argument is a call type.  Registers are temporaries.       *)
(***************************************************************************)
EXTENDS Integers, Sequences, SequencesExt, FiniteSets, FiniteSetsExt

CONSTANTS
  Temps,      \* the temporaries, registers included
  Wide,       \* those of class 1
  RGlob,      \* T.rglob: the registers live everywhere
  NRSave,     \* T.nrsave, the caller-save registers of each class
  None,       \* R, no operand
  Programs    \* the functions considered

VARIABLES
  prog,           \* the function
  in, out, gen,   \* Blk.in, Blk.out, Blk.gen
  nlive,          \* Blk.nlive, the pressure of each class
  nlv,            \* filllive's count of live temporaries
  chg,            \* an out set changed in this sweep
  n, i,           \* block at work and the instruction last processed
  lpc

lvars == <<prog, in, out, gen, nlive, nlv, chg, n, i, lpc>>
Blocks == 0..(prog.n - 1)
Classes == {0, 1}

LiveReady ==
  /\ in = [b \in Blocks |-> {}] /\ out = in /\ gen = in
  /\ nlive = [b \in Blocks |-> [k \in Classes |-> 0]]
  /\ nlv = [k \in Classes |-> 0]
  /\ chg = TRUE
  /\ n = prog.n - 1 /\ i = 1
  /\ lpc = "block"

LiveInit == prog \in Programs /\ LiveReady

-----------------------------------------------------------------------------
OfClass(S, k) == {t \in S : (t \in Wide) <=> (k = 1)}
Count(S) == [k \in Classes |-> Cardinality(OfClass(S, k))]
Plus(v, w) == [k \in Classes |-> v[k] + w[k]]
Minus(v, w) == [k \in Classes |-> v[k] - w[k]]
Most(v, w) == [k \in Classes |-> IF v[k] > w[k] THEN v[k] ELSE w[k]]

(* liveon: what is live on the edge from b to s, and the phi arguments it  *)
(* carries, which b generates.                                             *)
PhiTos(s) == {p.to : p \in ToSet(prog.phi[s])}
PhiArgs(b, s) ==
  UNION {{p.arg[x] : x \in {y \in DOMAIN p.arg : p.blk[y] = b}} \cap Temps :
           p \in ToSet(prog.phi[s])}
LiveOnSwapped(b, s) == (in[s] \cup PhiArgs(b, s)) \ PhiTos(s)
LiveOn(b, s) == (in[s] \ PhiTos(s)) \cup PhiArgs(b, s)

(* The jump: a return's registers set the count, they are not added to it  *)
(* (retregs writes nlv, live.c:79); a temporary is one more if it is new.  *)
JmpCount(b, live) ==
  IF prog.ret[b] # None THEN Count(prog.ret[b])
  ELSE Plus(Count(live), Count(prog.jmp[b] \ live))
JmpLive(b, live) ==
  live \cup (IF prog.ret[b] # None THEN prog.ret[b] ELSE prog.jmp[b])

Grown(b) == out[b] \cup UNION {LiveOn(b, s) : s \in ToSet(prog.succ[b])}

BlkEnter ==
  LET b == n
      o == Grown(b) \cup RGlob
  IN /\ lpc = "block"
     /\ out' = [out EXCEPT ![b] = o]
     /\ chg' = (chg \/ Grown(b) # out[b])
     /\ in' = [in EXCEPT ![b] = JmpLive(b, o)]
     /\ gen' = [gen EXCEPT ![b] =
          @ \cup (UNION {PhiArgs(b, s) : s \in ToSet(prog.succ[b])})
            \cup (IF prog.ret[b] = None THEN prog.jmp[b] ELSE {})]
     /\ nlv' = JmpCount(b, o)
     /\ nlive' = [nlive EXCEPT ![b] = nlv']
     /\ i' = Len(prog.ins[b]) + 1
     /\ lpc' = "ins"
     /\ UNCHANGED <<prog, n>>

(* A call kills the registers it returns in and uses those it is passed;   *)
(* in between the caller-save registers count as live.                     *)
CallLive(s, live) == (live \ s.ret) \cup s.arg
CallPeakNoSave(s, v) == Minus(v, Count(s.ret))
CallPeak(s, v) == Plus(Minus(v, Count(s.ret)), NRSave)
CallCount(s, v) == Plus(Minus(v, Count(s.ret)), Count(s.arg))

InsLive(s, live) == (live \ {s.to}) \cup s.uses
InsGen(s) == s.uses \cup ({s.to} \ {None})
InsCount(s, v, live) ==
  Plus(Minus(v, Count({s.to} \cap live)), Count(s.uses \ (live \ {s.to})))

InsStep ==
  LET s == prog.ins[n][i - 1]
      live == IF s.call THEN CallLive(s, in[n]) ELSE in[n]
      v == IF s.call THEN CallCount(s, nlv) ELSE nlv
      peak == IF s.call THEN Most(nlive[n], CallPeak(s, nlv)) ELSE nlive[n]
  IN /\ lpc = "ins" /\ i > 1
     /\ i' = i - 1
     /\ in' = [in EXCEPT ![n] = InsLive(s, live)]
     /\ gen' = [gen EXCEPT ![n] = @ \cup InsGen(s)]
     /\ nlv' = InsCount(s, v, live)
     /\ nlive' = [nlive EXCEPT ![n] = Most(peak, nlv')]
     /\ UNCHANGED <<prog, out, chg, n, lpc>>

BlkLeave ==
  /\ lpc = "ins" /\ i = 1 /\ n > 0
  /\ n' = n - 1
  /\ lpc' = "block"
  /\ UNCHANGED <<prog, in, out, gen, nlive, nlv, chg, i>>

Sweep ==
  /\ lpc = "ins" /\ i = 1 /\ n = 0 /\ chg
  /\ chg' = FALSE
  /\ n' = prog.n - 1
  /\ lpc' = "block"
  /\ UNCHANGED <<prog, in, out, gen, nlive, nlv, i>>

End ==
  /\ lpc = "ins" /\ i = 1 /\ n = 0 /\ ~chg
  /\ lpc' = "done"
  /\ UNCHANGED <<prog, in, out, gen, nlive, nlv, chg, n, i>>

LiveNext == BlkEnter \/ InsStep \/ BlkLeave \/ Sweep \/ End
LiveSpec == LiveInit /\ [][LiveNext]_lvars

-----------------------------------------------------------------------------
(* The sets the analysis should find, by paths: t is live into b when some *)
(* path from the start of b meets a use of t before any definition of it.  *)
(* Of a sequence of instructions, Exposed is what is read from the x-th on *)
(* before it is written, Through what none of those writes.                *)
Defs(s) == ({s.to} \ {None}) \cup (IF s.call THEN s.ret ELSE {})
Reads(s) == s.uses \cup (IF s.call THEN s.arg ELSE {})
Exposed(body, x) ==
  {t \in Temps : \E y \in x..Len(body) :
                   t \in Reads(body[y]) /\ \A z \in x..(y - 1) : t \notin Defs(body[z])}
Through(body, x) == {t \in Temps : \A z \in x..Len(body) : t \notin Defs(body[z])}

LastReads(b) == RGlob \cup (IF prog.ret[b] # None THEN prog.ret[b] ELSE prog.jmp[b])
BlkDefs(b) == UNION {Defs(s) : s \in ToSet(prog.ins[b])}

ReadFirst(b) ==
  Exposed(prog.ins[b], 1) \cup
  (Through(prog.ins[b], 1)
     \cap (LastReads(b) \cup UNION {PhiArgs(b, s) : s \in ToSet(prog.succ[b])}))

Paths ==
  {q \in UNION {[1..m -> Blocks] : m \in 1..prog.n} :
     /\ IsInjective(q)
     /\ \A x \in 1..(Len(q) - 1) : q[x + 1] \in ToSet(prog.succ[q[x]])}

LiveInto(b, paths) ==
  UNION {{t \in ReadFirst(q[Len(q)]) :
            \A x \in 1..(Len(q) - 1) : t \notin BlkDefs(q[x]) \cup PhiTos(q[x + 1])} :
           q \in {r \in paths : r[1] = b}}

(* Live in b before its x-th instruction.                                  *)
Between(b, x) ==
  Exposed(prog.ins[b], x) \cup (Through(prog.ins[b], x) \cap (out[b] \cup LastReads(b)))

(* At a call, the caller-save registers count on top of what lives across. *)
AtCall(b, x) ==
  IF prog.ins[b][x].call
  THEN Plus(Count(Between(b, x + 1) \ prog.ins[b][x].ret), NRSave)
  ELSE [k \in Classes |-> 0]

-----------------------------------------------------------------------------
(* The functions filllive meets.  Before the abi's passes no call has      *)
(* registers; they give a call no result (R) and copy what it is passed    *)
(* and returns, and what a return has, into and out of its registers in    *)
(* the same block (amd64/sysv.c:363-420, arm64/abi.c:375-440).             *)
Mentions(body) == UNION {InsGen(s) : s \in ToSet(body)}

Shaped(p) ==
  /\ p.n \in Nat \ {0}
  /\ LET B == 0..(p.n - 1)
     IN /\ p.ins \in [B -> Seq([to : Temps \cup {None}, uses : SUBSET Temps, call : BOOLEAN,
                                ret : SUBSET Temps, arg : SUBSET Temps])]
        /\ p.succ \in [B -> Seq(B)]
        /\ p.jmp \in [B -> SUBSET Temps]
        /\ p.ret \in [B -> (SUBSET Temps) \cup {None}]

Copied(p) ==
  \A b \in 0..(p.n - 1) :
    /\ \A s \in ToSet(p.ins[b]) :
         s.call => s.to = None /\ s.ret \cup s.arg \subseteq Mentions(p.ins[b])
    /\ p.ret[b] # None => p.ret[b] \subseteq Mentions(p.ins[b])

LiveAssumption ==
  /\ None \notin Temps /\ RGlob \subseteq Temps
  /\ \A p \in Programs : Shaped(p) /\ Copied(p)

(* The copies stand where spill and rega expect them (arm64/abi.c:360-366, *)
(* rv64/abi.c:373-378): what a call returns is read behind it, what it is  *)
(* passed is not, a return's registers are written in their block, no      *)
(* other block reads a register it has not written, the start apart, to    *)
(* which nothing jumps (parse.c:613); and what moves a register of         *)
(* T.rglob adds to it.                                                     *)
CallRegs(p) ==
  LET calls == {s \in UNION {ToSet(p.ins[b]) : b \in 0..(p.n - 1)} : s.call}
  IN UNION {s.ret \cup s.arg : s \in calls}

Fenced(p) ==
  /\ RGlob \cap CallRegs(p) = {}
  /\ \A b \in 0..(p.n - 1) :
       LET body == p.ins[b]
       IN /\ p.ret[b] = None => p.jmp[b] \cap CallRegs(p) = {}
          /\ p.ret[b] # None =>
               /\ p.succ[b] = <<>>
               /\ p.ret[b] \cap (RGlob \cup Through(body, 1)) = {}
               /\ \A s \in ToSet(body) : s.to \in RGlob => s.to \in s.uses
          /\ \A x \in DOMAIN body : body[x].call =>
               LET passed == body[x].arg \ body[x].ret
               IN /\ body[x].ret \subseteq Exposed(body, x + 1)
                  /\ passed \cap Exposed(body, x + 1) = {}
                  /\ p.ret[b] # None => passed \cap p.ret[b] \cap Through(body, x + 1) = {}
          /\ \A s \in ToSet(p.succ[b]) :
               /\ Exposed(p.ins[s], 1) \cap CallRegs(p) = {}
               /\ \A h \in ToSet(p.phi[s]) : \A y \in DOMAIN h.arg : h.arg[y] \notin CallRegs(p)

PressureAssumption ==
  /\ LiveAssumption
  /\ IsFiniteSet(Temps) /\ NRSave \in [Classes -> Nat]
  /\ \A p \in Programs : Fenced(p)

-----------------------------------------------------------------------------
(* Every variable has its type.                                            *)
LiveTypeOK ==
  /\ in \in [Blocks -> SUBSET Temps]
  /\ out \in [Blocks -> SUBSET Temps]
  /\ gen \in [Blocks -> SUBSET Temps]
  /\ nlive \in [Blocks -> [Classes -> Nat]]
  /\ nlv \in [Classes -> Nat]
  /\ chg \in BOOLEAN
  /\ n \in Blocks
  /\ i \in 1..(Len(prog.ins[n]) + 1) \/ lpc = "block"
  /\ lpc \in {"block", "ins", "done"}

(* The count carried through the scan is the number of live temporaries,   *)
(* whatever a step adds, kills or replaces; in a block that returns it     *)
(* leaves the registers of T.rglob out (live.c:72-83, 88-103, 107-118).    *)
Counted ==
  lpc = "ins" =>
    nlv = Minus(Count(in[n]),
                IF prog.ret[n] # None THEN Count(RGlob \cap in[n]) ELSE Count({}))

(* When the sweeps stop, in and out hold exactly what a path to a use      *)
(* justifies: nothing live is missing, nothing dead is kept (57-130).      *)
(* What a block neither writes nor reads, gen, lives through it, on the    *)
(* word of which the spiller keeps such temporaries in registers around a  *)
(* loop (live.c:19-20, 30, 109-111, spill.c:379-387).                      *)
LiveOK ==
  lpc = "done" =>
    LET paths == Paths
        into == [b \in Blocks |-> LiveInto(b, paths)]
    IN /\ in = into
       /\ \A b \in Blocks :
            /\ out[b] = RGlob \cup UNION {(into[s] \ PhiTos(s)) \cup PhiArgs(b, s) :
                                            s \in ToSet(prog.succ[b])}
            /\ in[b] \ gen[b] = out[b] \ gen[b]

(* The pressure of a block that does not return is the largest number of   *)
(* registers live at one point of it, calls included (82-83, 88-103, 122), *)
(* and the count it is taken from never drifts.                            *)
PressureOK ==
  /\ LiveTypeOK /\ Counted
  /\ lpc = "done" =>
       \A b \in Blocks : prog.ret[b] = None =>
         LET points == 1..(Len(prog.ins[b]) + 1)
         IN \A k \in Classes :
              nlive[b][k] = Max({Count(Between(b, x))[k] : x \in points}
                           \cup {AtCall(b, x)[k] : x \in DOMAIN prog.ins[b]})

(* The sweeps end: out sets only grow, so a sweep without change comes     *)
(* (live.c:57, 69, 126-129).                                               *)
LiveEnded == lpc = "done"
=============================================================================
