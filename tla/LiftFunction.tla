---------------------------- MODULE LiftFunction ----------------------------
(***************************************************************************)
(* rellume's lifting of a function (rellume/src/lldecoder.cc, function.cc, *)
(* basicblock.cc and .h, callconv.cc and the register file of regfile.cc): *)
(* code is decoded into blocks, every block is lifted with a register file *)
(* of its own, the blocks are joined, the stores to the CPU struct that    *)
(* are not needed are removed and the PHI nodes are filled.  Then the      *)
(* lifted function runs.                                                   *)
(*                                                                         *)
(* The guest has the instruction pointer IP, a flag ZF and a register R    *)
(* with the facets I64 and I32, its value modulo 4 and modulo 2.           *)
(***************************************************************************)
EXTENDS Integers, Sequences, FiniteSets, SequencesExt

CONSTANTS
  MemEnd,     \* code addresses are 0..MemEnd - 1; an instruction has length 1
  Insts,      \* instructions that may stand at an address
  HostRegs,   \* the values of hhvm_is_host_reg: {} without HHVM
  FullFacets, \* the values of cfg->full_facets
  MaxSteps,   \* bound: steps of the lifted function
  Absent, Gen, Undef, None

VARIABLES
  stage,      \* "decode", "add", "branch", "packs", "phis", "run", "done", "failed"
  cfg,        \* [host, full]: the configuration
  code,       \* the code, Absent where nothing has looked yet
  dec,        \* the decoder: [queue, cur, start, insts, blocks, map]
  add,        \* AddInst: position in dec.blocks and in the block
  low,        \* the low blocks, 1 is the entry block
  amap,       \* block_map: address -> [begin, insert], with key -1 for the exit block
  packs,      \* fi.call_conv_packs
  opt,        \* OptimizePacks: [queue, next, map]
  run         \* the lifted function running, see Start

vars == <<stage, cfg, code, dec, add, low, amap, packs, opt, run>>
-----------------------------------------------------------------------------
(* Registers, and the register file of a low block.                        *)

Facets == {<<"IP", "I64">>, <<"ZF", "ZF">>, <<"R", "I64">>, <<"R", "I32">>}

(* CPUStructEntries: the registers of the CPU struct with their facet.     *)
CPUStructEntries == {<<"IP", "I64">>, <<"ZF", "ZF">>, <<"R", "I64">>}

RegisterSetBitIdx(rf) == CASE rf[1] = "IP" -> 0 [] rf[2] = "ZF" -> 3 [] rf[1] = "R" -> 8

(* A value is named by the step of the block that defines it (0 for a PHI) *)
(* and its facet; trunc is set for the I32 of an I64.                      *)
Name(j, rf) == [j |-> j, rf |-> rf, trunc |-> FALSE]

(* BasicBlock's constructor.  Without PHIs the register file is filled by  *)
(* Unpack.                                                                 *)
NewBlock(phis, full) ==
  [rf |-> [rf \in Facets |-> IF phis /\ (full \/ rf # <<"R", "I32">>) THEN Gen ELSE Absent],
   steps |-> <<>>, preds |-> <<>>, succs |-> <<>>, cond |-> FALSE, ended |-> FALSE,
   empty |-> {}, inc |-> <<>>, used |-> {}, erased |-> {}, dirty |-> {}, cleaned |-> {}]

(* GetReg: a facet that waits for its generator becomes a new PHI, one     *)
(* that is missing is derived from the native facet, and it is kept.       *)
Get(b, rf) ==
  LET Demand(c, g) == IF c.rf[g] = Gen THEN [c EXCEPT !.rf[g] = Name(0, g), !.empty = @ \cup {g}] ELSE c
      native == Demand(b, <<"R", "I64">>)
      v == native.rf[<<"R", "I64">>]
  IN IF b.rf[rf] # Absent THEN Demand(b, rf)
     ELSE [native EXCEPT !.rf[rf] = [v EXCEPT !.trunc = TRUE], !.used = @ \cup {v}]

Val(b, rf) == Get(b, rf).rf[rf]

(* SetReg: a value defined by the next step, which marks the register      *)
(* dirty and drops its other facets.                                       *)
Set(b, rf) ==
  [b EXCEPT !.rf = [g \in Facets |-> CASE g = rf -> Name(Len(b.steps) + 1, rf)
                                       [] g # rf /\ g[1] = rf[1] -> Absent [] OTHER -> @[g]],
            !.dirty = @ \cup {RegisterSetBitIdx(rf)}]

(* An instruction of the block: a step that reads src and defines rf.      *)
Emit(b, step) == [b EXCEPT !.steps = Append(@, step), !.used = @ \cup {step.src}]
Define(b, k, rf, src, a) == Emit(Set(b, rf), [k |-> k, rf |-> rf, src |-> src, a |-> a])

Regs(set) == {RegisterSetBitIdx(rf) : rf \in set}

(* Pack: read every register of the CPU struct; those that the host's      *)
(* registers do not carry are stored, and are clean from here on.          *)
Pack(b, k, host) ==
  LET Read[s \in SUBSET CPUStructEntries] ==
        IF s = {} THEN b ELSE LET rf == CHOOSE x \in s : TRUE IN Get(Read[s \ {rf}], rf)
      c == Read[CPUStructEntries]
      stored == {rf \in CPUStructEntries : rf[1] \notin host}
  IN [c EXCEPT !.steps = Append(@, [k |-> k, args |-> [rf \in CPUStructEntries |-> c.rf[rf]], stores |-> stored]),
               !.used = @ \cup {c.rf[rf] : rf \in CPUStructEntries \ stored},
               !.dirty = @ \ Regs(stored), !.cleaned = @ \cup Regs(stored)]

(* Unpack: after Clear, every register has the value of the last step.     *)
Unpack(b, host) ==
  [b EXCEPT !.rf = [rf \in Facets |-> IF rf \in CPUStructEntries THEN Name(Len(b.steps), rf) ELSE Absent],
            !.dirty = (@ \ Regs({rf \in CPUStructEntries : rf[1] \notin host}))
                      \cup Regs({rf \in CPUStructEntries : rf[1] \in host})]
-----------------------------------------------------------------------------
(* Function::Decode.                                                       *)

NoRun == [b |-> 1, j |-> 1, env |-> <<>>, struct |-> <<>>, arch |-> <<>>, seen |-> <<>>, taken |-> FALSE, steps |-> 0]

(* The function with its entry block, whose register file is what          *)
(* UnpackParams loads, and the first address to decode.                    *)
Init ==
  /\ stage = "decode"
  /\ cfg \in [host : HostRegs, full : FullFacets]
  /\ code = [a \in 0..(MemEnd - 1) |-> Absent]
  /\ dec = [queue |-> <<0>>, cur |-> None, start |-> 0, insts |-> <<>>, blocks |-> <<>>, map |-> <<>>]
  /\ add = [blk |-> 1, j |-> 1, first |-> TRUE]
  /\ low = <<Unpack([NewBlock(FALSE, cfg.full) EXCEPT !.steps = <<[k |-> "params"]>>], cfg.host)>>
  /\ amap = <<>> /\ packs = <<>> /\ opt = None
  /\ run = NoRun

(* The next address of the queue.                                          *)
DecodeNext ==
  /\ stage = "decode" /\ dec.cur = None
  /\ IF dec.queue = <<>> THEN stage' = "add" /\ UNCHANGED dec
     ELSE /\ dec' = [dec EXCEPT !.queue = Tail(@), !.cur = Head(dec.queue), !.start = Len(dec.insts) + 1]
          /\ UNCHANGED stage
  /\ UNCHANGED <<cfg, code, add, low, amap, packs, opt, run>>

(* end_block: the block is complete, and if it runs into the middle of     *)
(* another one, that one is split.                                         *)
EndBlock(d, at) ==
  LET new == Len(d.insts) >= d.start
      blocks == IF new THEN Append(d.blocks, <<d.start, Len(d.insts) + 1>>) ELSE d.blocks
      other == d.map[at][1]
      split == d.map[at][2]
      end == blocks[other][2]
  IN IF at \notin DOMAIN d.map \/ blocks[other][1] = split THEN [d EXCEPT !.blocks = blocks, !.cur = None]
     ELSE [d EXCEPT !.blocks = Append([blocks EXCEPT ![other][2] = split], <<split, end>>), !.cur = None,
                    !.map = [a \in DOMAIN d.map |-> IF d.map[a][2] \in split..(end - 1)
                                                     THEN <<Len(blocks) + 1, d.map[a][2]>> ELSE d.map[a]]]

(* One instruction: past the end of the memory the decoder stops, a branch *)
(* queues its successors and ends the block.                               *)
DecodeInst ==
  /\ stage = "decode" /\ dec.cur # None
  /\ LET at == dec.cur
     IN IF at \in DOMAIN dec.map \/ at \notin 0..(MemEnd - 1)
        THEN dec' = EndBlock(dec, at) /\ UNCHANGED code
        ELSE \E i \in IF code[at] = Absent THEN Insts ELSE {code[at]} :
               LET d == [dec EXCEPT !.insts = Append(@, at), !.cur = at + 1,
                           !.map = [a \in DOMAIN dec.map \cup {at} |->
                                      IF a = at THEN <<Len(dec.blocks) + 1, Len(dec.insts) + 1>> ELSE dec.map[a]],
                           !.queue = (IF i.k = "jcc" THEN Append(@, at + 1) ELSE @)
                                     \o (IF i.k \in {"jmp", "jcc"} THEN <<i.a>> ELSE <<>>)]
               IN /\ code' = [code EXCEPT ![at] = i]
                  /\ dec' = IF i.k \in {"jmp", "jcc", "ret"} THEN EndBlock(d, -1) ELSE d
  /\ UNCHANGED <<stage, cfg, add, low, amap, packs, opt, run>>
-----------------------------------------------------------------------------
(* Function::AddInst.                                                      *)

Branch(lows, from, tos, cond) ==
  LET one == IF Len(tos) = 2 /\ tos[1] = tos[2] THEN <<tos[1]>> ELSE tos
  IN [n \in DOMAIN lows |->
        LET b == IF n \in Range(one) THEN [lows[n] EXCEPT !.preds = Append(@, from)] ELSE lows[n]
        IN IF n = from THEN [b EXCEPT !.succs = one, !.cond = cond, !.ended = TRUE] ELSE b]

(* The lifter's part in the abstract.  Every instruction sets IP first;    *)
(* one that cannot be lifted sets it back to its own address, with nofold. *)
SetIP(b, a) == Define(b, "ip", <<"IP", "I64">>, None, a)

LiftPlain(b, i, at) ==
  LET c == SetIP(b, [k |-> "const", a |-> at + 1])
      r == Get(c, <<"R", "I64">>)
      l == Get(c, <<"R", "I32">>)
      z == Get(c, <<"ZF", "ZF">>)
  IN CASE i.k = "const" -> Define(c, "const", <<"R", "I64">>, None, None)
       [] i.k = "inc" -> Define(r, "inc", <<"R", "I64">>, r.rf[<<"R", "I64">>], None)
       [] i.k = "low" -> Define(l, "low", <<"ZF", "ZF">>, l.rf[<<"R", "I32">>], None)
       [] i.k = "jmp" -> SetIP(c, [k |-> "const", a |-> i.a])
       [] i.k = "jcc" -> Define(z, "ip", <<"IP", "I64">>, z.rf[<<"ZF", "ZF">>],
                                [k |-> "select", a |-> i.a, b |-> at + 1])
       [] i.k = "ret" -> Define(r, "ip", <<"IP", "I64">>, r.rf[<<"R", "I64">>], [k |-> "unknown"])
       [] i.k = "bad" -> SetIP(c, [k |-> "nofold", a |-> at])

(* A repeated string instruction: a loop block and a block to continue in. *)
LiftRep(lows, n, at) ==
  LET loop == Len(lows) + 1
      cont == Len(lows) + 2
      head == Get(SetIP(lows[n], [k |-> "const", a |-> at + 1]), <<"R", "I64">>)
      test == Emit(head, [k |-> "test", src |-> head.rf[<<"R", "I64">>]])
      body == Get(NewBlock(TRUE, cfg.full), <<"R", "I64">>)
      dec1 == Define(body, "dec", <<"R", "I64">>, body.rf[<<"R", "I64">>], None)
      again == Emit(dec1, [k |-> "test", src |-> dec1.rf[<<"R", "I64">>]])
      after == SetIP(NewBlock(TRUE, cfg.full), [k |-> "const", a |-> at + 1])
      all == [lows EXCEPT ![n] = test] \o <<again, after>>
  IN Branch(Branch(all, n, <<loop, cont>>, TRUE), loop, <<loop, cont>>, TRUE)

(* CallExternalFunction: Pack, call, Unpack.                               *)
LiftExternal(b, at) ==
  Unpack(Pack(SetIP(b, [k |-> "const", a |-> at + 1]), "call", cfg.host), cfg.host)

Dirty(b, at) == SetIP(b, [k |-> "const", a |-> at + 1]).dirty

BlockAddr(n) == dec.insts[dec.blocks[n][1]]

AddInst ==
  /\ stage = "add" /\ add.blk <= Len(dec.blocks) /\ add.j <= dec.blocks[add.blk][2] - dec.blocks[add.blk][1]
  /\ LET at == dec.insts[dec.blocks[add.blk][1] + add.j - 1]
         i == code[at]
         key == BlockAddr(add.blk)
         isnew == key \notin DOMAIN amap
         lows == IF isnew THEN Append(low, NewBlock(TRUE, cfg.full)) ELSE low
         n == IF isnew THEN Len(lows) ELSE amap[key].insert
         after == CASE i.k = "rep" -> LiftRep(lows, n, at)
                    [] i.k = "call" -> [lows EXCEPT ![n] = LiftExternal(@, at)]
                    [] OTHER -> [lows EXCEPT ![n] = LiftPlain(@, i, at)]
     IN /\ low' = after
        /\ amap' = [a \in DOMAIN amap \cup {key} |->
                      IF a # key THEN amap[a]
                      ELSE [begin |-> IF isnew THEN n ELSE amap[key].begin,
                            insert |-> IF i.k = "rep" THEN Len(after) ELSE n]]
        /\ packs' = IF i.k # "call" THEN packs
                    ELSE Append(packs, [b |-> n, j |-> Len(after[n].steps), dirty |-> Dirty(lows[n], at)])
        /\ IF i.k # "bad" THEN add' = [add EXCEPT !.j = @ + 1, !.first = FALSE] /\ UNCHANGED stage
           ELSE IF add.first THEN stage' = "failed" /\ UNCHANGED add
           ELSE add' = [add EXCEPT !.blk = @ + 1, !.j = 1] /\ UNCHANGED stage
  /\ UNCHANGED <<cfg, code, dec, opt, run>>

(* The next block, or an error if not a single instruction was lifted.     *)
AddBlock ==
  /\ stage = "add"
  /\ add.blk <= Len(dec.blocks) => add.j > dec.blocks[add.blk][2] - dec.blocks[add.blk][1]
  /\ IF add.blk <= Len(dec.blocks) THEN add' = [add EXCEPT !.blk = @ + 1, !.j = 1] /\ UNCHANGED stage
     ELSE stage' = (IF add.first THEN "failed" ELSE "branch") /\ UNCHANGED add
  /\ UNCHANGED <<cfg, code, dec, low, amap, packs, opt, run>>
-----------------------------------------------------------------------------
(* Function::Lift.                                                         *)

(* ResolveAddr: a constant relative to the base, or the exit block.        *)
ResolveAddr(m, a) == IF a \in DOMAIN m THEN m[a].begin ELSE m[-1].begin

(* Where a block goes: the value that IP has at its end.                   *)
Ends(m, b) ==
  LET step == b.steps[b.rf[<<"IP", "I64">>].j]
      Is(k) == step.k = "ip" /\ step.a.k = k
  IN CASE Is("const") -> <<ResolveAddr(m, step.a.a)>>
       [] Is("select") -> <<ResolveAddr(m, step.a.a), ResolveAddr(m, step.a.b)>>
       [] OTHER -> <<m[-1].begin>>

(* The exit block packs everything, then all blocks are joined.            *)
LiftBranches ==
  /\ stage = "branch"
  /\ LET exit == Len(low) + 1
         m == [a \in DOMAIN amap \cup {-1} |-> IF a = -1 THEN [begin |-> exit, insert |-> exit] ELSE amap[a]]
         new == Pack(NewBlock(TRUE, cfg.full), "exit", cfg.host)
         open == {n \in {amap[a].insert : a \in DOMAIN amap} : ~low[n].ended}
         Join[s \in SUBSET open] ==
           IF s = {} THEN Branch(Append(low, new), 1, <<m[0].begin>>, FALSE)
           ELSE LET n == CHOOSE x \in s : TRUE
                    to == Ends(m, low[n])
                IN Branch(Join[s \ {n}], n, to, Len(to) = 2)
     IN /\ low' = Join[open]
        /\ amap' = m
        /\ packs' = Append(packs, [b |-> exit, j |-> 1, dirty |-> {}])
        /\ opt' = [queue |-> <<1>>, next |-> <<>>, map |-> [n \in 1..exit |-> None]]
  /\ stage' = "packs"
  /\ UNCHANGED <<cfg, code, dec, add, run>>

Post(n) == IF opt.map[n] = None THEN {} ELSE opt.map[n][2]

Revisit_once(n, post) == opt.map[n] = None

(* "If it is the first time we look at bb, or the set of dirty registers   *)
(* changed, look at successors (again)."                                   *)
Revisit(n, post) == opt.map[n] = None \/ opt.map[n][2] # post

(* OptimizePacks, one block of the queue.                                  *)
OptimizeBlock ==
  /\ stage = "packs" /\ opt.queue # <<>>
  /\ LET n == Head(opt.queue)
         pre == UNION {Post(p) : p \in Range(low[n].preds)}
         post == (pre \ low[n].cleaned) \cup low[n].dirty
         more == IF ~Revisit(n, post) THEN <<>>
                 ELSE SelectSeq(low[n].succs, LAMBDA s : s \notin Range(Tail(opt.queue)) \cup Range(opt.next))
     IN opt' = IF Len(opt.queue) > 1
               THEN [queue |-> Tail(opt.queue), next |-> opt.next \o more, map |-> [opt.map EXCEPT ![n] = <<pre, post>>]]
               ELSE [queue |-> opt.next \o more, next |-> <<>>, map |-> [opt.map EXCEPT ![n] = <<pre, post>>]]
  /\ UNCHANGED <<stage, cfg, code, dec, add, low, amap, packs, run>>

(* ... and the stores of registers that are clean there are erased.        *)
ErasePacks ==
  /\ stage = "packs" /\ opt.queue = <<>>
  /\ LET Needed(p) == (IF opt.map[p.b] = None THEN {} ELSE opt.map[p.b][1]) \cup p.dirty
         Keeps(p) == {rf \in low[p.b].steps[p.j].stores : RegisterSetBitIdx(rf) \in Needed(p)}
         Erase[k \in 0..Len(packs)] ==
           IF k = 0 THEN low
           ELSE LET p == packs[k]
                    kept == Keeps(p)
                IN [Erase[k - 1] EXCEPT ![p.b].steps[p.j].stores = kept,
                                        ![p.b].used = @ \cup {low[p.b].steps[p.j].args[rf] : rf \in kept}]
     IN low' = Erase[Len(packs)]
  /\ stage' = "phis"
  /\ UNCHANGED <<cfg, code, dec, add, amap, packs, opt, run>>

(* FillPhis of one block: a PHI without users is erased, the others get a  *)
(* value of each predecessor, which may need a new PHI for it.  A PHI that *)
(* is added to this block meanwhile is forgotten by clear().               *)
FillPhis(n) ==
  LET b == low[n]
      fill == {rf \in b.empty : Name(0, rf) \in b.used \/ \E v \in b.used : v # None /\ v.j = 0 /\ v.rf = rf}
      Ask[s \in SUBSET (fill \X Range(b.preds))] ==
        IF s = {} THEN low
        ELSE LET x == CHOOSE y \in s : TRUE
                 prev == Ask[s \ {x}]
                 got == Get(prev[x[2]], x[1])
             IN [prev EXCEPT ![x[2]] = [got EXCEPT !.used = @ \cup {got.rf[x[1]]}]]
      done == Ask[fill \X Range(b.preds)]
  IN [done EXCEPT ![n].empty = {}, ![n].erased = @ \cup (b.empty \ fill),
                  ![n].inc = [x \in DOMAIN b.inc \cup (fill \X Range(b.preds)) |->
                                IF x \in DOMAIN b.inc THEN b.inc[x] ELSE done[x[2]].rf[x[1]]]]

(* The function is called: the entry block has loaded its parameters.      *)
Start ==
  LET v == [rf \in CPUStructEntries |-> CASE rf[1] = "R" -> 2 [] rf[1] = "ZF" -> 1 [] OTHER -> 0]
  IN [NoRun EXCEPT !.struct = v, !.arch = v, !.j = 2, !.env = [x \in {<<1, rf>> : rf \in CPUStructEntries} |-> v[x[2]]]]

LiftPhis ==
  /\ stage = "phis"
  /\ LET open == {n \in 2..Len(low) : low[n].empty # {}}
     IN IF open = {} THEN stage' = "run" /\ UNCHANGED low
        ELSE low' = FillPhis(CHOOSE n \in open : \A m \in open : n <= m) /\ UNCHANGED stage
  /\ run' = IF stage' = "run" THEN Start ELSE run
  /\ UNCHANGED <<cfg, code, dec, add, amap, packs, opt>>
-----------------------------------------------------------------------------
(* The lifted function runs beside the guest (external: what LLVM's code   *)
(* does).  env has the values of the block that runs, arch the guest's.    *)

Value(b, v) ==
  LET x == IF <<v.j, v.rf>> \in DOMAIN run.env /\ ~(v.j = 0 /\ v.rf \in b.erased) THEN run.env[<<v.j, v.rf>>] ELSE Undef
  IN IF v.trunc /\ x # Undef THEN x % 2 ELSE x

(* What a step defines, from the value x it reads.                         *)
Result(step, x) ==
  CASE step.k = "const" -> 3
    [] step.k = "ip" /\ step.a.k \in {"const", "nofold"} -> step.a.a
    [] x = Undef -> Undef
    [] step.k = "inc" -> (x + 1) % 4
    [] step.k = "dec" -> (x - 1) % 4
    [] step.k = "low" -> x
    [] step.k = "test" -> x
    [] step.k = "ip" /\ step.a.k = "select" -> IF x = 1 THEN step.a.a ELSE step.a.b
    [] step.k = "ip" /\ step.a.k = "unknown" -> 10 + x

(* The same of the guest's registers.                                      *)
Guest(step) ==
  Result(step, CASE step.k = "low" -> run.arch[<<"R", "I64">>] % 2
                 [] step.k = "ip" /\ step.a.k = "select" -> run.arch[<<"ZF", "ZF">>]
                 [] OTHER -> run.arch[<<"R", "I64">>])

(* What an external function does to the registers.                        *)
Helper(v) == [v EXCEPT ![<<"R", "I64">>] = IF @ = Undef THEN @ ELSE (@ + 2) % 4,
                       ![<<"ZF", "ZF">>] = IF @ = Undef THEN @ ELSE 1 - @]

ExecStep ==
  /\ stage = "run" /\ run.steps < MaxSteps /\ run.j <= Len(low[run.b].steps)
  /\ LET b == low[run.b]
         step == b.steps[run.j]
         struct == [rf \in CPUStructEntries |-> IF rf \in step.stores THEN Value(b, step.args[rf]) ELSE run.struct[rf]]
         view == [rf \in CPUStructEntries |-> IF rf[1] \in cfg.host THEN Value(b, step.args[rf]) ELSE struct[rf]]
         seen == [rf \in CPUStructEntries |-> <<view[rf], run.arch[rf]>>]
         x == Result(step, IF step.src = None THEN Undef ELSE Value(b, step.src))
         Def(rf, v) == [y \in DOMAIN run.env \cup {<<run.j, rf>>} |-> IF y = <<run.j, rf>> THEN v ELSE run.env[y]]
     IN CASE step.k = "exit" -> run' = [run EXCEPT !.seen = seen, !.struct = struct] /\ stage' = "done"
          [] step.k = "call" ->
               /\ run' = [run EXCEPT !.seen = seen, !.j = @ + 1, !.steps = @ + 1, !.arch = Helper(@),
                            !.struct = [rf \in CPUStructEntries |-> IF rf[1] \in cfg.host THEN @[rf] ELSE Helper(struct)[rf]],
                            !.env = [y \in DOMAIN @ \cup {<<run.j, rf>> : rf \in CPUStructEntries} |->
                                       IF y \in DOMAIN @ THEN @[y] ELSE Helper(view)[y[2]]]]
               /\ UNCHANGED stage
          [] step.k = "test" -> run' = [run EXCEPT !.j = @ + 1, !.taken = x # 0] /\ UNCHANGED stage
          [] OTHER -> /\ run' = [run EXCEPT !.j = @ + 1, !.steps = @ + 1, !.env = Def(step.rf, x),
                                   !.arch[step.rf] = Guest(step),
                                   !.taken = IF step.k = "ip" /\ step.a.k = "select" THEN x = step.a.a ELSE @]
                      /\ UNCHANGED stage
  /\ UNCHANGED <<cfg, code, dec, add, low, amap, packs, opt>>

(* The branch at the end of a block: the PHIs of the next take the values  *)
(* of this one.                                                            *)
ExecBranch ==
  /\ stage = "run" /\ run.steps < MaxSteps /\ run.j > Len(low[run.b].steps)
  /\ LET b == low[run.b]
         to == IF b.cond /\ Len(b.succs) = 2 /\ ~run.taken THEN b.succs[2] ELSE b.succs[1]
         phis == {x \in DOMAIN low[to].inc : x[2] = run.b}
     IN run' = [run EXCEPT !.b = to, !.j = 1, !.steps = @ + 1,
                  !.env = [y \in {<<0, x[1]>> : x \in phis} |-> Value(b, low[to].inc[<<y[2], run.b>>])]]
  /\ UNCHANGED <<stage, cfg, code, dec, add, low, amap, packs, opt>>

Ended == (stage \in {"done", "failed"} \/ (stage = "run" /\ run.steps >= MaxSteps)) /\ UNCHANGED vars

Next ==
  \/ DecodeNext \/ DecodeInst \/ AddInst \/ AddBlock \/ LiftBranches
  \/ OptimizeBlock \/ ErasePacks \/ LiftPhis \/ ExecStep \/ ExecBranch \/ Ended

Spec == Init /\ [][Next]_vars
-----------------------------------------------------------------------------
(* Whatever the lifted function calls, and whoever it returns to, finds    *)
(* the guest's current registers: no store that OptimizePacks erases is    *)
(* needed, and no PHI node is missing, unfilled or erased while a register *)
(* file still refers to it.                                                *)
StructCurrent == \A rf \in DOMAIN run.seen : run.seen[rf][1] = run.seen[rf][2]
=============================================================================
