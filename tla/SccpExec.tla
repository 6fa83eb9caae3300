------------------------------ MODULE SccpExec ------------------------------
(***************************************************************************)
(* What fold.c must preserve.  Once fold is done the function it found and *)
(* the one it left are executed side by side, with the same values for the *)
(* instructions that do not fold, along every path.                        *)
(***************************************************************************)
EXTENDS Sccp

VARIABLES
  xpc,      \* "enter", "ins", "jmp", "end"
  at, from, \* the block executed, and the one before
  xi,       \* the instruction
  env, env2 \* the temporaries of the two functions

xvars == <<xpc, at, from, xi, env, env2>>
all == <<vars, xvars>>

Undef == -3

XInit ==
  /\ Init
  /\ xpc = "enter" /\ at = 0 /\ from = Gone /\ xi = 1
  /\ env = [t \in Temps |-> Undef]
  /\ env2 = [t \in Temps |-> Undef]

Eval(e, x) == IF x \in Temps THEN e[x] ELSE x

(* The phis of a block, all at once.                                       *)
PhiArg(e, p, a) == IF ArgOf(p, a) = 0 THEN Undef ELSE Eval(e, p.arg[ArgOf(p, a)])
PhisEval(e, ps) ==
  [t \in Temps |-> IF \E j \in DOMAIN ps : ps[j].to = t
                   THEN PhiArg(e, ps[CHOOSE j \in DOMAIN ps : ps[j].to = t], from)
                   ELSE e[t]]

Result(e, s, loaded) ==
  IF s.op = "load" THEN loaded
  ELSE IF \E x \in DOMAIN s.arg : Eval(e, s.arg[x]) = Undef THEN Undef
  ELSE IF s.op = "xor" THEN (Eval(e, s.arg[1]) + Eval(e, s.arg[2])) % 2
  ELSE IF Eval(e, s.arg[2]) = 0 THEN Undef
  ELSE Eval(e, s.arg[1]) \div Eval(e, s.arg[2])

XPhis ==
  /\ pc = "done" /\ xpc = "enter"
  /\ env' = PhisEval(env, prog.phi[at])
  /\ env2' = PhisEval(env2, out.phi[at])
  /\ xpc' = "ins" /\ xi' = 1
  /\ UNCHANGED <<vars, at, from>>

(* A division by zero ends the execution.                                  *)
XIns(loaded) ==
  /\ pc = "done" /\ xpc = "ins" /\ xi <= Len(prog.ins[at])
  /\ LET s == prog.ins[at][xi]
         s2 == out.ins[at][xi]
     IN /\ s.op # "load" => loaded = 0
        /\ env' = [env EXCEPT ![s.to] = Result(env, s, loaded)]
        /\ env2' = IF s2.op = "nop" THEN env2
                   ELSE [env2 EXCEPT ![s2.to] = Result(env2, s2, loaded)]
        /\ xpc' = IF Result(env, s, loaded) = Undef THEN "end" ELSE xpc
  /\ xi' = xi + 1
  /\ UNCHANGED <<vars, at, from>>

Target(p, e) ==
  CASE p.jmp[at] = "ret" -> <<"ret", Eval(e, p.arg[at])>>
    [] p.jmp[at] = "jmp" -> <<"jump", p.s1[at]>>
    [] p.jmp[at] = "jnz" -> <<"jump", IF Eval(e, p.arg[at]) # 0 THEN p.s1[at] ELSE p.s2[at]>>

AtJmp == pc = "done" /\ xpc = "ins" /\ xi > Len(prog.ins[at])

XJmp ==
  /\ AtJmp
  /\ IF prog.jmp[at] = "ret" THEN xpc' = "end" /\ UNCHANGED <<at, from>>
     ELSE xpc' = "enter" /\ from' = at /\ at' = Target(prog, env)[2]
  /\ UNCHANGED <<vars, xi, env, env2>>

Fold == (Search \/ Trim) /\ UNCHANGED xvars
XStopped == (pc = "abort" \/ xpc = "end") /\ UNCHANGED all

XNext == Fold \/ XPhis \/ (\E v \in {0, 1} : XIns(v)) \/ XJmp \/ XStopped

XSpec == XInit /\ [][XNext]_all

(* fold is sequential code: a step it can take is taken.                   *)
XFairSpec == XSpec /\ WF_all(Fold)

-----------------------------------------------------------------------------
(* Execution stays in the blocks and on the edges fold found executable,   *)
(* and a temporary found constant never holds another value.               *)
FactsHold ==
  pc = "done" =>
    /\ visit[at] > 0
    /\ from # Gone => ~DeadEdge(from, at)
    /\ \A t \in Temps : env[t] # Undef /\ val[t] # Bot => env[t] = val[t]

(* The function fold leaves takes the same jumps, returns the same value   *)
(* and computes the same value for every temporary it kept.                *)
SameBehaviour ==
  /\ AtJmp => Target(out, env2) = Target(prog, env)
  /\ pc = "done" /\ xpc # "end" => \A t \in Temps : val[t] = Bot => env2[t] = env[t]
=============================================================================
