# Verification of the QBE back end (m68k fork) in TLA+

QBE reads a program in its intermediate language (IL), one function at a time, and takes
each function through a fixed sequence of passes (`main.c`, `func()`) that end in assembly
text. It is one sequential process: what is hard here is not concurrency but
*algorithms over shared mutable structures* - work lists threaded through the edges they
list, fields reused as marks by several passes, caches of "the register used last", slots
packed on demand - where the result must be right for every input and every order in which
callers may come. The modules here model those algorithms, TLC checks them on all small
inputs, and TLAPS proves the central results for inputs of any size.

## 1. Inventory

| part | source | state | operations | what makes it correct |
|---|---|---|---|---|
| driver | `main.c` | the function at work | the pass order | each pass finds what it requires |
| utilities | `util.c` | pools, vectors, interned strings, `insb[]` | alloc, vgrow, intern, emit, bit sets | no reuse while referenced; code is emitted back to front |
| parser | `parse.c` | tables of temporaries, types, blocks | one function or type per call | layout of types, well-formed graphs |
| control-flow graph | `cfg.c` | `s1 s2 link pred id rpo idom dom fron loop` | fillrpo, fillpreds, filldom, fillfron, loopiter, edgedel, simpljmp | numbering, dominators, frontiers and loops as defined by paths; threading keeps where control goes |
| memory promotion, SSA | `mem.c`, `ssa.c` | uses, phis, renaming stacks | memopt, filluse, phiins, renblk, ssacheck | one definition dominates each use, same values |
| alias, load elimination | `alias.c`, `load.c` | alias records, insertion log | fillalias, escapes, def, loadopt | a load is replaced only by what it would read |
| copy elimination | `copy.c` | copy-of map | phisimpl, copy | merged temporaries are equal |
| constant propagation | `fold.c` | lattice values, dead edges, two work lists | visitphi/ins/jmp, trimming | facts hold in every execution, behaviour is kept |
| liveness | `live.c` | `in out gen nlive` | liveon, filllive | sets as defined by paths, pressure exact |
| spiller | `spill.c` | slots, sets in registers, costs | slot, limit, reloads, spill | enough registers everywhere; slots disjoint and aligned |
| register allocator | `rega.c` | register maps, hints, parallel moves | radd, ralloc, rfree, move, pmgen, doblk, rega | a register has one holder; values survive block borders |
| targets | `m68k amd64 arm64 rv64` | - | abi, isel, emit | calling convention, frame layout |
| data output, tools, minic | `gas.c tools minic` | - | - | - |

The passes interact only through the function: `filllive` needs `fillrpo`, the spiller
needs liveness, loop weights and the slots instruction selection gave out, the allocator
turns the spiller's sets into register maps, `simpljmp` removes what it left empty. The
hard behaviours, each at its line, are the `hazards` of `PROJECT.json`.

## 2. What is modelled

| module | models | kind |
|---|---|---|
| `Il` | functions of the IL, `loadsz storesz`, what `filluse` and the graph say of them | operators |
| `IlRun` | the meaning of the IL: temporaries and memory by bytes, calls that see and write what they can reach | operators (the program's environment) |
| `MemOpt` | `memopt()` | operators |
| `Ssa` | `phiins`, `nnew nfree rendef getstk renblk`, `ssacheck` | operators; the renamer's state is a record |
| `LoadOpt` | `fillalias alias escapes` and `def iins cast mask killsl icmp loadopt` | operators; the insertion log is a record handed along |
| `CopyElim` | `iscopy phisimpl subst copy` | operators |
| `Middle` | `func()` from `memopt` to `copy`: one step per pass, per block renamed, per load searched, per block copied; then both functions executed | state machine composing the six above |
| `Sccp` | `fold()`: both work lists, the propagation, the trimming; `edgedel` | state machine |
| `SccpExec` | the function before and after `fold()`, executed side by side | specification harness |
| `FoldInt` | `opfold`, `foldint`, `czero` at small widths | state machine of one step, with what `doc/il.txt` says of each operation |
| `AbiTypes` | aggregate types as `parsefields` and `parsetyp` lay them out, the arguments `parserefl` makes, `emit`, `blit`; a machine that executes what ABI passes emit | operators |
| `Rv64Abi` `Arm64Abi` `SysvAbi` `M68kAbi` | the ABI pass of each target: classification of aggregates, `argsclass`, `selcall selpar selret`, variadic functions, `retregs argregs`, and what the emitter's prologue does to the frame | operators |
| `Abi` | a caller and a callee lowered by the same pass, executed from the arguments to the result | state machine composing the five above |
| `Cfg` | `fillrpo edgedel fillpreds filldom sdom fillfron loopiter fillloop`, in the order the compiler calls them | state machine, recursion as an explicit stack |
| `JmpThread` | `uffind`, `simpljmp` | state machine |
| `Live` | `liveon bset filllive`, one step per instruction scanned | state machine |
| `Frame` | slots of fast locals (`m68k/isel.c` 134-152) and of spilled temporaries (`spill.c` `slot()`, 524-527) | state machine; any order of `slot()` calls |
| `M68kFrame` | where the m68k emitter puts that frame: `slot()`, `Oaddr`, `selpar`, `m68k_emitfn` | operators over `Frame` |
| `M68kCode` | one block's way to the 68000: the lowering of products, quotients and shifts (`m68k/abi.c`), instruction selection (`m68k/isel.c`), registers as the allocator may give them, the text `m68k/emit.c` writes, branches included; a 68000 that executes it | state machine of one step per pass, with what `doc/il.txt` says |
| `FrameProofs` | theorems about `Frame` and `M68kFrame` | proofs |
| `LowFn` | the function as `isel` leaves it, with what `filllive`, `fillloop` and `fillcost` find for it | operators, initial state |
| `Spill` | `spill()`: `limit limit2 merge reloads store dopm`, backwards over blocks and instructions; extends `LowFn` | state machine |
| `RMap` | the register map: `rfind radd ralloctry rfree sethint move` | operators on a record |
| `RegMap` | that map under the operations of `doblk`, `dopm` and `rega` in any order | state machine |
| `Rega` | `rega()`: hints, `doblk`, `dopm`, shared copies, edges; extends `Spill`, uses `RMap` | state machine |
| `RegaExec` | the function before `spill` and after `rega`, executed side by side | specification harness |
| `ParAssign` | a list of moves performed all at once | abstract specification |
| `ParMove` | `pmadd`, `pmgen` and the recursion `pmrec` (`rega.c` 193-261) | state machine, one step per call or return; implements `ParAssign` |
| `ParMoveProofs` | theorems about `ParMove`, its refinement of `ParAssign` included | proofs |
| `CfgProofs` `RegMapProofs` `LiveProofs` `SccpProofs` `MiddleProofs` | theorems about `Cfg` and `JmpThread`, `RegMap`, `Live`, `Sccp` and `SccpExec`, and `Middle` with `Ssa` | proofs |
| `Recursion` | least elements, induction over numbers as statements about sets, recursive functions over an interval, climbs along a falling rank | lemmas |
| `MC*` | small instances for TLC; `MCGraph` holds `Cfg`, `JmpThread` and `Live`, `MCAlloc` holds `RegMap` and `Rega` (with `MCRega`), `MCFrame` holds `M68kFrame` and `M68kCode`, `MCSccp` holds `SccpExec` and `FoldInt` | |

How state corresponds. Fields keep their source names (`slot4`, `flowrk`, `idom`, `nlv`). `pc`
(`jpc`, `lpc`) says which loop or call is at work; a recursive function (`pmrec`, `rporec`, `loopmark`)
is a variable `stack` of its active calls, `renblk` a list of the blocks of its preorder, and
`def()`, which changes only the log and the counter of temporaries, a recursive function
that hands both along; an intrusive list is modelled as the links
themselves where the links are the hazard (`Sccp`: `work[e]`; `Ssa`: the cells of the renaming
stacks and `namel`), and as a sequence elsewhere.
Pointers are block numbers, 0 (or a named constant) is the null pointer. The code's
`assert`s are kept: in `Sccp` and `Middle` a failing one is the state `abort`, in `Cfg` a guard whose
failure TLC reports as a deadlock, in `RegMap` part of the invariants, in `Spill` and `Rega`
the state `abort`; `die()` and `err()` are the
states `died` (`Frame`, `ParMove`) and `error` (`Middle`) or `ok = FALSE` (`RMap`).

What is abstracted.

* `Sccp`: constants are small numbers, and `opfold` is one operator that
  always folds and one that refuses a zero divisor. `FoldInt` has the operators themselves,
  with 64 bits scaled down to 8, words to 4, halfwords to 2 and bytes to 1.
* `ParMove` keeps the contents of the
  machine's locations as two functions, `low` and `high` halves, from which the emitted code
  is applied *backwards*, because `emit` fills the instruction buffer from its end.
* `Live`'s instructions are the sets they read and write, with the sets T.retregs and T.argregs give
  for calls. `RMap` keeps the register classes, phi classes and registers to avoid as
  constants.
* In `Spill` and `Rega` an operation is its operands, its result and what the target
  says of its registers and memory operands (`memargs`, `argregs`, `retregs`); the values
  themselves are not computed. `limit` sorts with `qsort`, which leaves temporaries of equal
  cost in any order: every order is taken. `RegaExec` follows, for each register and slot, the set
  of names of the original function whose value it holds, so copies, phis and calls that
  clobber registers are exact and every other result is just a new value. The "pm" instruction
  of `Rega` is the simultaneous assignment that `ParMove` shows `pmgen` to emit; `NoAbort` checks
  what `ParMove` assumes of its lists, and `Live` justifies the sets `LowFn` starts from.
* `Middle`: a temporary and each byte of memory hold symbols of unknown bytes, numbers, bytes of
  addresses, or `Junk`, which nothing defines: memory never written, the upper half of a word.
  The original may do what it likes with `Junk`, the result must agree on every other byte.
  Shifts and masks are whole bytes, as `def()` makes them; sums are of an address and a small
  number. A call is given its arguments and everything it can reach by them, by symbols and by
  addresses stored where it can look, and writes all of it: a slot that must have escaped for
  this to happen but is taken for a local shows. An execution follows every path; at a
  return, and whenever the original uses a bad address or undefined memory decides a jump, it ends.
  `Middle` relies on `Cfg` and `Live` for dominators, frontiers and liveness, which
  `Il` and `Ssa` take from their definitions.
* `Abi`: a value is eight named bytes, so a lost, swapped or truncated part shows. A register that
  the pass has not declared, in a call's or return's set of registers, does not survive: the allocator
  may take it. Instructions between the pass and the emitter keep their meaning.
* `M68kCode`: a word has 8 bits, a halfword 4, a byte 2, and memory 256 bytes of 2 bits, big endian. The
  largest immediate shift count is scaled from 8 to 2. A routine call stands for the pushes
  around it, which `M68kAbi` has. `Allocate` gives any registers that keep temporaries alive together
  apart, more than `rega` would choose from; `keep` says which arguments are used
  again. A failing assertion, "no match" and an operand no instruction takes are things the processor does
  not have; "not implemented" refuses the function, which is no mistake.

## 3. The runs

Bounds are constants of the `.cfg` files and sets of the MC modules; nothing else limits the
runs. All of them are exhaustive.

| run | instance | properties |
|---|---|---|
| `frame` | 2 allocs (every alignment, constant or not, six sizes around the roundings) or up to 7 that reach INT_MAX = 40; 2 wide and 3 narrow temporaries in any order; 0-9 saved registers. Then every instruction of class w on temporaries, numbers, a symbol and the address of a local, two data registers and an address register in every allocation, 7 patterns for each argument; every graph of 3 blocks | `NoOverlap` `OneHole` `FrameDone` `IselWithinInt` `SavedApart` `SlotsStable`; `CodeRight` |
| `parmove` | up to 4 moves over 5 locations, both classes, locations symmetric | `MovedDone` `CycleConsumed` `ImplementsAssign` `Shrinks` |
| `alloc` | the register map alone: 3 temporaries, two of them in one phi class that avoids a register; 2 registers of one class, 1 of the other; 2 loop depths. And some 1500 functions of 1 to 5 blocks: loops whose phis exchange values, a loop around a branch and a call, branches with memory operands and two-step results, loops and blocks with more values than registers, loops without instructions; 4 + 1 registers of two classes, one global, two caller-save | `MapInv` `Lands` `DieOnlyFull`; `UsesRight` `NoAbort` |
| `sccp` | diamonds, loops, loops around diamonds and doubled edges with every choice of operands, two block orders; then every integer operation on 22 patterns of 8 bits, and on addresses of two symbols | `NoAbort` `Fixpoint` `FactsHold` `SameBehaviour` `Terminates`; `FoldOK` |
| `graph` | all graphs of 4 blocks; all of 3 with weights 1 and 10, predecessors known or not; all of 4 reachable blocks with every choice of empty ones; loops with exchanging phis, loops with calls, branches into a return for `filllive` | `RpoOK` `DomOK` `FronOK` `LoopOK` `PassesEnd`; `SameFlow` `Threaded`; `LiveOK` `PressureOK` |
| `abi` | some 3000 signatures on four targets: every list of up to two arguments of 4 classes and 10 aggregates, alone and behind enough longs and doubles to leave none, one or two registers; results of every type; `env`; variadic calls | `ArgsArrive` `VarargsArrive` `ResultArrives` `RegsDeclared` `StackKept` |
| `middle` | some 4500 functions: two stores of every size and offset into one slot before every load; pairs of extensions; diamonds, loops, a diamond in a loop, nested loops, a loop entered at two places and a self loop with a menu of 22 things for a block to do; the free list of names empty or not; executions of 6 blocks | `SameBehaviour` `SsaOK` `NamesApart` `NoAbort` |

Where a run holds several machines (`frame`, `alloc`, `graph`, `sccp`), the initial states belong to one
of them and the others stand still, so none hides another's deadlock.

Why the bounds are enough. Four moves over five locations hold every shape of a component of
the move graph that `pmrec` distinguishes: a chain into a cycle, a cycle of two or three, a
shared source, a chain listed from either end. Four blocks hold an irreducible loop, two
nested loops, a diamond, a self loop, an unreachable block with an edge into the graph and a
doubled edge. Two wide and three narrow temporaries open, fill and reopen the hole. In the map of
`alloc` a register in use for itself leaves fewer registers than temporaries, so
evictions, stale hints and "no more regs" all occur; in its functions three free registers against
up to seven values make every spilling decision occur: reloads, stores after definitions and
phis, phis in slots, operands read from slots, and on the allocator's side evictions, shared
copies, hinted registers taken late and values left out because they are dead. Two stores
before a load are what `def()` needs to recurse within a block, with every mask it can form; the
graphs make it insert phis, find phis logged before, give up inside a predecessor and take
several insertions back; six blocks go twice round every loop. In `abi` the fill in
front of the arguments stops exactly at, one and two before the last register of each kind.
Two data registers let the result share the register of the first argument, the second, both or
neither; the address register is the one that most instructions cannot use.
The scaled widths of `FoldInt` keep the ratios of all the widths `foldint` casts to.

Each property is known to bite: `PROJECT.json` lists, for each, a plausible bug in the
modelled code (a definition's mutated form sits beside it) that makes TLC report it.

### Disagreements with what the source says

Five runs end in a violation.

* `m68k_layout`, of the frame drawn at `m68k/emit.c:444-469`: `slot()` starts from 8, so the last
  two words of the frame are addressed at 0(fp) and 4(fp), the saved fp and the return address;
  `Oaddr` adds the negated offset, so the address of a local points above fp;
  the first parameter is loaded from `SLOT(-0)`, which is the first local. And of the code: each of the six
  instructions of the block is wrong. `sub 3, %a` in one register becomes `a - 3` and `xor 3, %a`
  stops at an assertion (`emit.c:191-202`); `extsb` sets a halfword (`emit.c:100`), `loadsh` reads a
  byte (`emit.c:93`); a load from a symbol never reads into its result (`emit.c:427`), one from a fast local
  reads an address nothing set (`isel.c:70`). The branch at the end tests half of its word (`emit.c:551`).
* `jmp_in_reg`: the argument of a jump may be pushed out of the registers (`spill.c:421`); what
  must be reloaded there is written through a null `curi` (`spill.c:427`), and a slot is left as
  argument where the emitters assert a register (`rv64/emit.c:516`). A compiler built from the
  source crashes on loops with more values than registers for rv64 and m68k.
* `abi_nested`: `fpstruct()` (`rv64/abi.c:109`) does not move past a nested structure, so two
  floats of which the first is in a structure of its own are passed from the same bytes.
  `abi` leaves such a type out.
* `abi_va`: when a structure closes the remaining registers, `selvastart()` (`arm64/abi.c:480`) still
  starts with the one the caller skipped. `abi` leaves these signatures out for arm64.
* `middle_mistaken`, one function with three mistakes, all seen in its one final state:
  a promoted word read as a signed long becomes a plain copy (`mem.c:64-69`); a value shifted down
  by `def()` is not masked when it is long enough (`load.c:269`), so bytes the store did not write come
  along; the argument of a phi does not escape when it comes from a block not yet seen
  (`alias.c:119`). `MCMiddle` keeps the functions of `middle` clear of the three: the stored value
  is extended where nothing would mask it (`Unmasked`), no word slot is read as a long word, and only
  the start lets a pointer into a slot reach the phi of a loop.

A compiler built from the source shows all of the above. It also shows what follows, which the modules
describe but no run ends in:

* In a loop block without instructions nothing keeps a temporary off a globally
  live register, and `radd` fails its assertion (`rega.c:92`); m68k, whose global register is
  amid the allocatable ones, shows it. `NoAbort` of `alloc`, whose functions include it, allows this
  abort and that of `jmp_in_reg`, and no other.
* `div` and `rem` of the smallest number by -1, both constant, trap in the compiler
  (`fold.c:372`): `Trap` of `FoldInt`; `FoldOK` says that nothing else does.
* m68k: the stack pointer is moved the wrong way after a call (`m68k/abi.c:355` and
  `m68k/emit.c:111`), which is why `StackKept` leaves m68k out; a call without arguments fails
  `assert(stk)` (`m68k/abi.c:388`); the pointer to an aggregate is taken from a temporary nothing
  sets (`m68k/abi.c:401`), so `abi` passes words only; `selpar` forgets the register it declares
  for the result's address (`m68k/abi.c:426`).
* m68k: `CodeRight` says that the code is right unless `Lacking` or `Mistaken` of `M68kCode` has the
  instruction, and wrong if one of them has. Beyond those of `m68k_layout`: `_selcomptimediv` hands `shr` its
  arguments in the wrong order (`m68k/abi.c:532`), which `convins` puts right when the result
  shares the register of the dividend, and else `%a / 8` is `3 >> a`; a product with 1024 is a
  shift by 10, and `sar` never gets its count into a register; operations are given
  address registers, which `and`, `eor`, shifts and others do not take; the address of a symbol is copied by
  reading the word there; a copy to a spill slot is written by the table's `storew` (`emit.c:72`), which
  dies of the slot, and a reload reads through a stale a0; `alloc` with a size known only when it runs
  moves the stack pointer up and never sets its result; `add.w` to the address of a local in a data
  register loses the carry.
* amd64: `err` refuses a variable argument list together with an environment in a call
  (`amd64/sysv.c:214`), but the parameters of a function never show `argsclass` the `...`, so such a
  function compiles; its environment bit is then read by `selvastart` (`sp = fa >> 12`) as part of the
  stack offset, and the overflow area starts at 17(%rbp) instead of 16(%rbp). `abi` has no such signature.

A remark rather than a disagreement: at a return `filllive` lets `T.retregs` overwrite the
count of live registers (`live.c:79`), so the pressure of a returning block leaves the
globally live registers out; `PressureOK` says exactly that. Only headers of
loops are asked for their pressure, and they do not return.

## 4. Fairness

The compiler is sequential: if a step is possible it is taken. The specifications whose
termination is checked (`Sccp`, `Cfg`, `Live`, `JmpThread`) therefore state weak fairness of all the
passes' steps together (`WF_vars`), and nothing more: no choice is favoured over another. In
the harness of `sccp` only `fold()` is fair, the execution beside it need not go on.
`ParMove` needs no fairness: `Shrinks` says that every step of `pmrec` lowers a rank, a
natural number, so the recursion can only stop by being finished.

## 5. What is proved

For every value of the constants, by TLAPS. `PROJECT.json` lists the theorems; each names the
property of a run it states.

**Frame** (`FrameProofs`). The slots spilled so far fill `locs .. locs+slot8-1`
except for at most one hole; that statement alone is not inductive. `FrameProofs` strengthens it:
locals lie below `fn->slot` in the order they were given, aligned to their unit; `slot4 <= slot8`,
`slot8` is even, and every spilled temporary lies below `slot8`, apart from the hole, wide
ones at even distance. Assumptions: those of `FrameAssumption` (sizes are integers, start blocks are
sequences of allocs, wide temporaries are temporaries) and `M68kFrameAssumption` (`NRClob` is a
number). Results: `TypeCorrect`, `Disjoint` (`NoOverlap`), `Packing` (`OneHole`, the
comment at `spill.c:133-138`) and `Aligned` (`FrameDone`; the rounding of the last pass
works because alignment is counted from the top of the frame). A second invariant, `Reached`,
says that isel's two nested loops have placed only allocs they are past, and gives
`WithinInt` (`IselWithinInt`) and `Stable` (`SlotsStable`). `RegistersApart` (`SavedApart`) needs of
all this only that the size of the frame is a number.

**ParMove** (`ParMoveProofs`). `MovesDone`: between chains the emitted code performs exactly the moves
marked `Moved`, simultaneously. The invariant that carries it describes the recursion: the
moves on the stack form a chain, each writing the source of the one below; while the stack
unwinds, the code emitted so far does the finished moves, and, if a cycle was met, holds
the value the chain's bottom needs in the one place the next swap takes it from.
`CyclesClosed` follows from it: the start of a cycle is reported only to a move on the stack.
`Refines` shows that `ParMove` implements `ParAssign`: initial states map to initial states, the step
that ends `pmgen`'s loop is the assignment, the others add a move, give up or stutter; it uses the
same invariant at the one step that is not a stutter. `RankShrinks`: each call, return and round
lowers `Rank`, because the moves still to do and those on the stack are disjoint finite sets and
each step takes one out. The assumption is that no two moves of a list have one destination, which the
callers guarantee (the registers of one map, distinct slots).

**RegMap** (`RegMapProofs`). `MapInv` is preserved by whole operations but not by the calls they
are made of: `move` and `dopm` free a register, hold it back while they look for another, and add it
again. The proof is therefore about `Sound(rm, held)`, which is `MapInv` of a record with a set of
registers held back; each function of `RMap` gets a lemma that says what it does to a sound record,
and an operation composes these lemmas. `DiesOnlyWhenFull` follows from what `ralloctry`'s lemma says of a failure,
`MovesLand` from `rfind`'s lemmas before and after. `MapFits` counts: the entries of an injective map
inject into the registers.

**JmpThread** (`CfgProofs`), for any number of blocks. That `uffind`'s pointers form a
forest is stated with a rank that falls along every pointer; the first loop joins only
roots, and path compression moves pointers to an ancestor. The invariant adds that a block and the block its
pointer names lead, through jumps of the graph as it was found, to the same block with something to do, and
that a root is such a block or lies on a circle of empty blocks. `JumpsThreaded` (`Threaded`) and
`FlowKept` (`SameFlow`) follow when the last loop has replaced every destination by its root. `Meets` is a
recursive function; that it has the same value at both ends of a pointer is proved along the climb of
which `Recursion` shows that it exists and ends.

**Cfg** (`CfgProofs`), for any graph, reducible or not. One invariant, `IInv`, says at each value of `pc` what the
passes so far have left (`PassesInvariant`). While `rporec` is at work (`CallsOK`, `NumberOK`): the active calls
are a path from the start, what they have yet to visit is all that keeps a called block's successors from
being called, the numbers from `x + 1` up are taken once each, and an edge against them closes a
cycle - because its head is still active, so a path leads from it to the last call. When the first call returns the
called blocks are closed under successors, hence all that can be reached. The sweep keeps this under
the shift by `FirstId`, and deleting the edges of unreached blocks changes neither `Live` nor what
reaches what (`RpoCorrect`: `RpoOK`). `filldom` keeps `Kept`: a dominator found so far has the smaller
number and misses no strict dominator of its block. A strict dominator always has the smaller number
(`DominatorLess`, along the predecessors before a block), so `inter` only climbs from blocks that do not dominate
both, and what it returns is above both and dominated by all that dominates both (`InterIs`). When a round
changes nothing, every block's `idom` is above all its predecessors, and then what is above a block
dominates it (`AncDominates`). Both directions together are `DomCorrect` (`DomOK`), and
`sdom` and `fillfron`'s climbs are then recursions along a tree (`SDomIs`, `AboveIs`), which gives
`FrontiersCorrect` (`FronOK`). Loop weights need a second invariant, `LoopInv`: the blocks marked for a header
and those whose turn is to come are in `MarkSet`, the least set of blocks from the header on that holds the
sources of its back edges and, with a block, its predecessors; nothing of that set is out of reach of the
two; and a block weighs ten for each pass that has marked it. The marks of
earlier passes need no reset because they are smaller numbers. In a reducible graph `MarkSet` is the
union of the header's natural loops (`MarkedInLoop`, `LoopIsMarked`: a block outside the set cannot
reach a back edge around the header, and predecessors before a block the header dominates lead up to
the header). `LoopsWeighed` (`LoopOK`) counts the passes. The assumption is what the parser ensures: no jump leads to the start and a block
without a first successor has no second.

**Live** (`LiveProofs`). The sets are specified by paths and computed by sweeps over equations. `Justified`:
whatever `in` and `out` hold, some path to a use justifies; this is preserved because a path into a
successor, prepended with the block, is a path again, and is cut at a repeated block when it gets
longer than there are blocks. `Solved`: while a block is scanned `in` is what lies between the
instructions seen and the rest, and when a sweep ends without a change the equations hold at
every block. `LiveCorrect` (`LiveOK`): a solution of the equations holds every use a path reaches, by
going down the path from its end. `LiveAssumption` says that functions are well formed and that the
results and arguments of calls are mentioned in the block, as the copies around calls do.
`PressureCorrect` (`PressureOK`) adds `Tallied` - the running count `nlv` is the number of temporaries in
`in`, `nlive` the largest value so far at an instruction - and `Confined`: registers of calls are never live
between blocks. Without the latter the count does drift: `filllive` adds a table value at a call
and subtracts by membership elsewhere. `PressureAssumption` says what the code around calls looks
like: what a call returns is read by copies behind it and what it is passed is written before it in the same
block (`arm64/abi.c:360-366`: "spill & rega expect calls to be followed by copies from regs"), and
nothing jumps to the start block, which alone reads registers it does not write (`parse.c:613`). TLC evaluates
both on all functions of `graph`.

**Sccp** (`SccpProofs`), for any function in SSA form, any order of its blocks and any number of temporaries.
`SccpAssumption` is what `fold` requires and `ssacheck` checks: each block is listed once, a phi has one argument
for each predecessor, the start has none, a temporary has one definition, and this definition dominates every use
(`DefinedBefore`, with dominance stated by sets of blocks closed under edges, so that no path needs to be followed). Without
it neither property holds: a jump on an undefined temporary would see `Top`. `SearchInv`
is what phase 1 keeps:

* `AList`: some list without repetitions is what `flowrk` and the links in the edges spell, and no edge outside it has a
  link. Pushing two edges at once, or popping the first, keeps it, because the edges a jump queues
  are never on the list already (`EdgesOK`). `Linked`, the form TLC evaluates, follows by counting: a list of
  edges is no longer than the edges are many.
* `EdgesOK`: an edge on the list or alive is one its jump may take, and one the jump may take is alive or on the list.
* `Dominated`: what dominates a block the search came to, it came to earlier; so by `Defined` every operand has a value, not `Top`,
  when it is read. This is why no "ssa invariant broken" fires.
* `NotBelow`: no value is lower than the equations make it of its operands. Because values only fall and the
  equations are monotone (`GrowIs`), a later step keeps it. It bounds the result from below.
* `UpToDate`: every statement of a visited block that is not what its operands say is on the list of uses, or is the
  one at work, or comes later in the block at work. It bounds the result from above.

At the end both lists are empty, so `NotBelow` and `UpToDate` meet in the fixed point (`SearchFindsFixpoint`: `Fixpoint`).
`OutOK` is what phase 2 keeps: the function being trimmed is `Consistent` - phis and predecessors are
those of the edges left - and a block not yet trimmed is still like the one found, apart from
phi arguments that came over deleted edges. So `edgedel` finds what it looks for and `renref` meets no `Top`
(`NeverAborts`: `NoAbort`).

That the pass keeps what the function does is proved of `SccpExec`, whatever the loads return and however long the
execution (`ExecInvariant`). `OutTrimmed` says what a block that stays has become: its instructions and its jump with constants
for operands, its phis that are not constant, with an argument for each edge that is left. The
executions of the two functions then keep five facts. `OnPath`: every block executed was visited and every edge taken is
alive. `Ready`: whatever a definition that dominates the place defines has been computed (`AvailableVia`: what
dominates a block dominates its predecessor or is defined there). `Agrees`: a temporary that has a value and
was found constant has that constant - through the fixed point, since an operand's lattice value is its
value or `Bot`. `Matches`: the temporaries kept are equal in the two. `OnEdge`: the edge just taken is one the function
left still has, so that its phis still have the argument for it. `FactsFound` (`FactsHold`) and `BehaviourKept`
(`SameBehaviour`) are read off these. What an operator computes enters by three lemmas: `OpFoldIs` (a folded value
is a number or `Bot`), `InsValIs` (folding is monotone) and `FoldsTo` (folding the operands gives what executing
the instruction gives).

**Middle** (`MiddleProofs`): the renaming of SSA construction, for any function `MiddleAssumption` allows - what the
parser and `fillrpo` hand over: no phis, no temporary above the last, every block but the start with a predecessor before
it - and any free list left by functions compiled before. The stacks are linked cells that `nnew` takes from the free
list and `getstk` gives back while it looks for a name that dominates the block. `NamesApart` says what must not happen,
but of chains followed to their end; it is not inductive. `Stacks` says it link by link: every cell has one owner, a
stack or the free list, a cell and the one above it have the same owner, no two cells are below the same one, and a rank falls
on the way up (`Hang`). A cell taken from one list and put on another needs a new owner and the highest rank
(`Raised`), and that is all that changes. `StacksApart` goes back to chains, by counting: ranks are different numbers below
the number of cells, so a chain ends.

That `rendef` and `getstk` ask only for stacks there are (`StackThere`: `stk[]` is no longer than the function had
temporaries, and the code does not test the index) is about the order of the walk. While `renblk` is at
work, `MidInv` says of the blocks on `todo`: none dominates another (`Separate`), and they and all they dominate mention no number
above `n0`, the last there is when `phiins` has returned (`Waiting`); every number up to `n0` that has a visit has a stack
(`Good`). One step renames the head of the list, changes other blocks only in the arguments of phis (`Step`), and puts the
head's children in front. For these to be again apart from each other and from the rest, dominance, which `Doms` defines by sets of blocks closed under
edges, must be an order: reflexive, transitive, antisymmetric (`DomsOrder`, `DomTransitive`, `DomAntisymmetric`); a child is what
its parent dominates with nothing between, so neither of two children dominates the other (`NextSeparate`). It is here that the shape of the graph enters: each block is reached from the start along blocks
numbered before it (`AllReached`). What comes before the renaming is needed only for its types: `memopt` and `phiins` leave a program
(`Typed`, `Pass`), each through the recursive function that is their loop. `StacksStayApart` and `StacksAreThere` are read off `MidInv`.

**Induction.** The provers cannot instantiate an induction theorem, so `Recursion` states induction
over numbers as facts about sets of numbers: a nonempty set of naturals has a least element, a set
that contains 0 and is closed under successor holds all of them. Proofs by induction build the set of the
numbers for which the claim holds and cite these.

Assumptions are stated as named `ASSUME`s where a module's operators need them and as the hypothesis of the
theorem where only the proof does (`NJmp \in Nat`, `LiveAssumption`, `PressureAssumption`; the runs
evaluate the last).

Only model-checked: what fairness makes end (`Terminates`, `PassesEnd`), which is out of the
prover's reach; of `Middle`, `SameBehaviour` and what it rests on, `SsaOK` and `NoAbort`, since
it executes code of which the meaning is itself computed by recursive functions over bytes, for a bounded number of blocks;
`Abi`, whose modules use recursive operators the prover does not take; `Rega` (`UsesRight`, `NoAbort`), `M68kCode` and `FoldInt`,
which compare bounded executions, or operations on all patterns of a few bits.

## 6. What is not modelled

* Formatting and parsing of text (`gas.c`, the lexer, the construction of blocks
  in `parse.c`), `minic` and the tools; they carry no state worth a model.
* Of `util.c`: pools, vectors, interned strings and bit sets.
* Instruction selection (`isel.c` of amd64, arm64 and rv64) beyond the slots of fast locals, and the tables of
  their emitters.
* Of the m68k: longs, for which the emitter has no instructions, calls through a register (written as
  `jalr`, which the 68000 lacks), and the argument of a branch when it is the address of a local.
* `foldflt()` (`fold.c`) and conversions between floats and integers: they are the arithmetic of the
  machine the compiler runs on.
* `load()` (`load.c:117`): it is reached only with a location of type `LLoad`, and those need a block in a
  deeper loop, while every `Blk.loop` is 0 until `fillloop()` runs after instruction selection.
* Of the middle end: functions that come in with phis, slots allocated anywhere but in the start block,
  arithmetic beyond copies, extensions, sums of an address and a number, and `or` with zero; floats
  only as bytes that are moved and cast.
* Of the calling conventions: aggregates on m68k, and variadic functions there (it has none).

## 7. Plan

1. Proofs: `SsaOK` after renaming, on top of `MidInv`; `UsesRight` and `NoAbort` of `Rega` on top of `RegMap`'s theorems.
2. The slots `isel` gives on amd64, arm64 and rv64 as instances of `Frame`.
3. `Pool` and `Intern` of `util.c`; functions with phis for `Middle`.
