----------------------------- MODULE JmpThread -----------------------------
(***************************************************************************)
(* Jump threading, the last change to the graph before emission (cfg.c     *)
(* simpljmp, uffind): blocks that only jump on are skipped, with a         *)
(* union-find forest whose root is the block a jump should go to, and all  *)
(* returns share one new block.  Blocks are 1..NJmp in list order, the     *)
(* block ret is NJmp + 1, and 0 is the null pointer.                       *)
(***************************************************************************)
EXTENDS Integers, Sequences

CONSTANT NJmp

VARIABLES
  jmp, to1, to2, \* kind of jump, Blk.s1 and Blk.s2
  empty,         \* nins == 0
  uf,            \* the union-find forest, 0 at a root
  jpc, jx,       \* the loop at work and its block
  found          \* the graph as simpljmp found it

jvars == <<jmp, to1, to2, empty, uf, jpc, jx, found>>

ret == NJmp + 1
JBlk == 1..NJmp
All == 1..ret

Succ == JBlk \ {1}
Jumps ==
  {<<"ret0", 0, 0>>} \cup {<<"jmp", a, 0>> : a \in Succ} \cup {<<"jnz", a, b>> : a, b \in Succ}

(* No block is lost between fillrpo and here, and emptiness only matters   *)
(* where a block ends in jmp or ret0.                                      *)
Reached(S, t1, t2) ==
  LET grow[k \in 0..NJmp] ==
        IF k = 0 THEN S
        ELSE grow[k - 1] \cup ((UNION {{t1[b], t2[b]} : b \in grow[k - 1]}) \ {0})
  IN grow[NJmp]

ThreadReady ==
  /\ uf = [b \in All |-> 0]
  /\ jpc = "join" /\ jx = 1
  /\ found = [jmp |-> jmp, to1 |-> to1, to2 |-> to2]

ThreadInit ==
  /\ \E js \in [JBlk -> Jumps] :
       /\ jmp = [b \in JBlk |-> js[b][1]]
       /\ to1 = [b \in JBlk |-> js[b][2]] /\ to2 = [b \in JBlk |-> js[b][3]]
  /\ Reached({1}, to1, to2) = JBlk
  /\ empty \in [JBlk -> BOOLEAN]
  /\ \A b \in JBlk : jmp[b] = "jnz" => ~empty[b]
  /\ ThreadReady

-----------------------------------------------------------------------------
(* uffind: the root above b, and the forest with the path to it shortened. *)
Root(f, b) ==
  LET up[c \in All] == IF f[c] = 0 THEN c ELSE up[f[c]]
  IN up[b]

Path(f, b) ==
  LET up[c \in All] == IF f[c] = 0 THEN {} ELSE {c} \cup up[f[c]]
  IN up[b]

Shortened(f, b) == [c \in All |-> IF c \in Path(f, b) THEN Root(f, b) ELSE f[c]]

(* First loop: returns jump to ret, and an empty block that jumps joins    *)
(* the tree of its destination unless that is its own.                     *)
Joined(b, d) ==
  LET f == Shortened(uf, d)
  IN IF Root(uf, d) = b THEN f ELSE [f EXCEPT ![b] = Root(uf, d)]

Dest(b) == IF jmp[b] = "ret0" THEN ret ELSE to1[b]

SkippedAny(b, j) == j = "jmp"
Skipped(b, j) == empty[b] /\ j = "jmp"

Join ==
  /\ jpc = "join" /\ jx <= NJmp
  /\ jmp' = [jmp EXCEPT ![jx] = IF @ = "ret0" THEN "jmp" ELSE @]
  /\ IF Skipped(jx, jmp'[jx])
     THEN /\ to1' = [to1 EXCEPT ![jx] = Root(uf, Dest(jx))]
          /\ uf' = Joined(jx, Dest(jx))
     ELSE to1' = [to1 EXCEPT ![jx] = Dest(jx)] /\ uf' = uf
  /\ jx' = jx + 1
  /\ UNCHANGED <<to2, empty, jpc, found>>

JoinEnd ==
  /\ jpc = "join" /\ jx > NJmp
  /\ jpc' = "resolve" /\ jx' = 1
  /\ UNCHANGED <<jmp, to1, to2, empty, uf, found>>

(* Second loop: every destination is replaced by its root; a jnz whose two *)
(* destinations became one is a jmp.                                       *)
ResolvedNext(f, d) == IF d = 0 \/ f[d] = 0 THEN d ELSE f[d]
Resolved(f, d) == IF d = 0 THEN 0 ELSE Root(f, d)

Resolve ==
  /\ jpc = "resolve" /\ jx <= NJmp
  /\ LET f1 == IF to1[jx] = 0 THEN uf ELSE Shortened(uf, to1[jx])
         d1 == Resolved(uf, to1[jx])
         d2 == Resolved(f1, to2[jx])
     IN /\ uf' = IF to2[jx] = 0 THEN f1 ELSE Shortened(f1, to2[jx])
        /\ to1' = [to1 EXCEPT ![jx] = d1]
        /\ to2' = [to2 EXCEPT ![jx] = IF d1 # 0 /\ d1 = d2 THEN 0 ELSE d2]
        /\ jmp' = [jmp EXCEPT ![jx] = IF d1 # 0 /\ d1 = d2 THEN "jmp" ELSE @]
  /\ jx' = jx + 1
  /\ UNCHANGED <<empty, jpc, found>>

ResolveEnd ==
  /\ jpc = "resolve" /\ jx > NJmp
  /\ jpc' = "done"
  /\ UNCHANGED <<jmp, to1, to2, empty, uf, jx, found>>

ThreadEnded == jpc = "done"
ThreadWork == Join \/ JoinEnd \/ Resolve \/ ResolveEnd
ThreadNext == ThreadWork \/ (ThreadEnded /\ UNCHANGED jvars)

ThreadSpec == ThreadInit /\ [][ThreadNext]_jvars

-----------------------------------------------------------------------------
(* Every variable has its type.                                            *)
ThreadTypeOK ==
  /\ jmp \in [JBlk -> {"ret0", "jmp", "jnz"}]
  /\ to1 \in [JBlk -> All \cup {0}] /\ to2 \in [JBlk -> All \cup {0}]
  /\ empty \in [JBlk -> BOOLEAN]
  /\ uf \in [All -> All \cup {0}]
  /\ jpc \in {"join", "resolve", "done"} /\ jx \in 1..NJmp + 1

(* uffind's recursion ends: uf is a forest over the blocks, no block above *)
(* itself, even when empty blocks jump in a circle.                        *)
Forest ==
  /\ ThreadTypeOK
  /\ \A b \in All :
       LET up[k \in 0..ret] == IF k = 0 THEN b
                               ELSE IF up[k - 1] = 0 THEN 0 ELSE uf[up[k - 1]]
       IN up[ret] = 0

(* Where a jump to b ends up once the empty blocks are run through: at a   *)
(* block with something to do, at ret, or, in a circle of empty blocks,    *)
(* nowhere (0).                                                            *)
Idle(b) == b # ret /\ empty[b] /\ found.jmp[b] # "jnz"
Meets(g, b) ==
  LET run[k \in 0..ret] ==
        IF k = 0 THEN b
        ELSE LET c == run[k - 1]
             IN IF ~Idle(c) THEN c ELSE IF g.jmp[c] = "ret0" THEN ret ELSE g.to1[c]
  IN IF Idle(run[ret]) THEN 0 ELSE run[ret]

Now == [jmp |-> jmp, to1 |-> to1, to2 |-> to2]

(* Threading changes no execution: every block leads to the same next      *)
(* block that does something, for each outcome of its jump, and returns    *)
(* where it returned.                                                      *)
SameFlow ==
  jpc = "done" =>
    \A b \in JBlk :
      CASE found.jmp[b] = "ret0" -> to1[b] = ret
        [] found.jmp[b] = "jmp" -> Meets(Now, to1[b]) = Meets(found, found.to1[b])
        [] found.jmp[b] = "jnz" ->
             /\ Meets(Now, to1[b]) = Meets(found, found.to1[b])
             /\ Meets(Now, IF to2[b] = 0 THEN to1[b] ELSE to2[b]) = Meets(found, found.to2[b])

(* No jump is left that goes to a block which only jumps on, unless it     *)
(* does so forever, and no jnz with a single destination is left; and on   *)
(* the way the forest stays one.                                           *)
Threaded ==
  /\ Forest
  /\ jpc = "done" =>
       \A b \in JBlk :
         /\ to1[b] \in All /\ to1[b] # to2[b]
         /\ \A d \in {to1[b], to2[b]} \ {0} : Meets(Now, d) \in {d, 0}
=============================================================================
