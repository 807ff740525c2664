----------------------------- MODULE GEPPromote -----------------------------
(***************************************************************************)
(* The promotion of guest stack slots to SSA values before the polyhedral  *)
(* optimiser runs (server/GEPPromotePass.cc).  A slot is a                 *)
(* getelementptr instruction (GEP) on the guest's stack pointer; the pass  *)
(* replaces its loads by the value that reaches them and, where it has to  *)
(* place phi nodes, deletes the stores.  It goes by the instruction: two   *)
(* GEPs with the same address are two slots to it.                         *)
(*                                                                         *)
(* When the pass is done the module runs the function, original and        *)
(* promoted side by side, along every path.  The value a store writes is   *)
(* computed at the start of the store's block, anew on each visit.         *)
(***************************************************************************)
EXTENDS Integers, Sequences, FiniteSets, FiniteSetsExt, SequencesExt

\* Definitions named X_<word> are faulty variants of X: the properties that
\* must notice them are listed with the runs.

CONSTANTS
  Blocks,     \* the basic blocks, 1..n; 1 is the entry
  Geps,       \* the GEPs
  Functions   \* the functions to promote, see FunctionsAssumption

Kinds == {"load", "store", "const"}   \* const: a store of a constant

Types == {"i32", "i64"}

(* What else uses a GEP: lifetime markers, droppable intrinsics and casts  *)
(* used only by these; or anything a slot may not be used by, such as a    *)
(* volatile access or a store of the GEP itself.                           *)
Others == {"marker", "refused"}

(* succ: a block's successors; geps: the GEPs in it, in order; code: its   *)
(* loads and stores, in order, each with its GEP and the type of the       *)
(* value; local: the GEPs isLocalGEP accepts; others: the other users of a *)
(* GEP; cell: the memory a GEP points to, named by one of the GEPs that    *)
(* do.  Nothing jumps to the entry.                                        *)
ASSUME FunctionsAssumption ==
  /\ Blocks = 1..Cardinality(Blocks)
  /\ \A f \in Functions :
       /\ f.local \subseteq Geps
       /\ f.others \in [Geps -> SUBSET Others] /\ f.cell \in [Geps -> Geps]
       /\ \A b \in Blocks : /\ Range(f.succ[b]) \subseteq Blocks \ {1}
                            /\ Range(f.geps[b]) \subseteq Geps
                            /\ Range(f.code[b]) \subseteq Kinds \X Geps \X Types

VARIABLES
  fn,             \* the function, as it was before the pass
  DT,             \* its dominator tree
  pc,             \* "scan", "run", "rename", "simplify", "failed", "exec", "done"
  bb,             \* the block whose GEPs are looked at
  NumPromoteGEP,  \* the global counter
  GEPs, GEPNum,   \* GEPpromoteMem2Reg: the list and the index run() is at
  repl,           \* the loads replaced, and by what
  erased,         \* the stores deleted
  phis,           \* phi nodes by block and GEP: predecessor |-> value
  NewPhiNodes,    \* those of the current run()
  worklist,       \* RenamePassWorkList, its last entry first
  Visited,
  at,             \* the running function: block and instruction
  env,            \* SSA values of the running function
  mem, kept       \* the memory of the original and of the promoted function

passVars == <<bb, NumPromoteGEP, GEPs, GEPNum, repl, erased, phis, NewPhiNodes, worklist, Visited>>
execVars == <<at, env, mem, kept>>
vars == <<fn, DT, pc, passVars, execVars>>

-----------------------------------------------------------------------------
(* Instructions are named by block and position, values by what makes them. *)

Undef == <<"undef">>
Poison == <<"poison">>
Stored(x) == <<"store", x>>
Phi(b, g) == <<"phi", <<b, g>>>>

Insts == {<<b, i>> \in Blocks \X (1..Max({Len(fn.code[c]) : c \in Blocks} \cup {1})) :
            i <= Len(fn.code[b])}
Kind(x) == fn.code[x[1]][x[2]][1]
Gep(x) == fn.code[x[1]][x[2]][2]
Type(x) == fn.code[x[1]][x[2]][3]
Cell(x) == fn.cell[Gep(x)]

Loads(g) == {x \in Insts : Gep(x) = g /\ Kind(x) = "load" /\ x \notin DOMAIN repl}
Stores(g) == {x \in Insts : Gep(x) = g /\ Kind(x) # "load" /\ x \notin erased}
BlocksOf(xs) == {x[1] : x \in xs}

Preds(b) == {p \in Blocks : b \in Range(fn.succ[p])}

(* The least set above S that Grow adds nothing to.                        *)
Closure(S, Grow(_)) ==
  LET c[n \in 0..Cardinality(Blocks)] == IF n = 0 THEN S ELSE UNION {T \cup Grow(T) : T \in {c[n - 1]}}
  IN c[Cardinality(Blocks)]

(* DominatorTreeAnalysis, asked for once when the pass starts.             *)
ReachableWithout(f, a) ==
  IF a = 1 THEN {}
  ELSE Closure({1}, LAMBDA S : (UNION {Range(f.succ[b]) : b \in S}) \ {a})
DominatorTree(f) == {e \in Blocks \X Blocks : e[2] \notin ReachableWithout(f, e[1])}
ReachableBlocks(f) == Closure({1}, LAMBDA S : UNION {Range(f.succ[b]) : b \in S})

Reachable == DT.reachable
Dominates(a, b) == <<a, b>> \in DT.dominates

(* The blocks where a's dominance ends.                                    *)
Frontier(a) ==
  {b \in Reachable : /\ \E p \in Preds(b) \cap Reachable : Dominates(a, p)
                     /\ a = b \/ ~Dominates(a, b)}

(* ForwardIDFCalculator, cut down to the blocks the slot is live in.       *)
IDF(defs, live) ==
  Closure({}, LAMBDA S : live \cap UNION {Frontier(a) : a \in (defs \cup S) \cap Reachable})

(* Whether the value is defined before instruction x of block b; x = 0 is  *)
(* the start of the block.                                                 *)
DefinedBefore(v, b, x) ==
  \/ v[1] \in {"undef", "poison"}
  \/ v[1] = "store" /\ Kind(v[2]) = "const"
  \/ /\ v[1] \in {"store", "phi"}
     /\ IF v[2][1] = b THEN x > 0 ELSE Dominates(v[2][1], b)

-----------------------------------------------------------------------------
Init ==
  /\ fn \in Functions
  /\ DT = [reachable |-> ReachableBlocks(fn), dominates |-> DominatorTree(fn)]
  /\ pc = "scan" /\ bb = 1 /\ NumPromoteGEP = 0
  /\ GEPs = <<>> /\ GEPNum = 1
  /\ repl = <<>> /\ erased = {} /\ phis = <<>> /\ NewPhiNodes = {}
  /\ worklist = <<>> /\ Visited = {}
  /\ at = <<1, 0>> /\ env = <<>>
  /\ mem = [g \in Geps |-> Undef] /\ kept = [g \in Geps |-> Undef]

isGEPPromotable(g) == g \in fn.local /\ "refused" \notin fn.others[g] /\ Stores(g) # {}

(* The loop of GEPpromoteMemToRegister: a block is left when the last      *)
(* run() promoted, without phi nodes, as many GEPs as are promotable now.  *)
Leaves_debug(promotable) == NumPromoteGEP + 1 = Len(promotable)
Leaves(promotable) == NumPromoteGEP = Len(promotable)

Scan ==
  /\ pc = "scan"
  /\ LET promotable == SelectSeq(fn.geps[bb], isGEPPromotable) IN
       IF Leaves(promotable)
         THEN /\ IF bb + 1 \in Blocks THEN bb' = bb + 1 /\ UNCHANGED pc
                                      ELSE bb' = 1 /\ pc' = "exec"
              /\ UNCHANGED <<NumPromoteGEP, GEPs, GEPNum>>
         ELSE /\ NumPromoteGEP' = 0 /\ GEPs' = promotable /\ GEPNum' = 1
              /\ pc' = IF promotable = <<>> THEN "scan" ELSE "run"
              /\ UNCHANGED bb
  /\ UNCHANGED <<fn, DT, repl, erased, phis, NewPhiNodes, worklist, Visited, execVars>>

-----------------------------------------------------------------------------
(* GEPpromoteMem2Reg::run, one GEP.  AnalyzeGEP counts the stores and      *)
(* notes whether all users are in one block.                               *)

OnlyUsedInOneBlock(g) == Cardinality(BlocksOf(Loads(g) \cup Stores(g))) = 1

(* GEPrewriteSingleStore: the loads the only store s reaches.  A constant  *)
(* replaces every load.                                                    *)
AfterStore_block(s, l) == Dominates(s[1], l[1])
AfterStore(s, l) == IF l[1] = s[1] THEN s[2] < l[2] ELSE Dominates(s[1], l[1])
OnlyStoreReaches(g) ==
  {l \in Loads(g) : \E s \in Stores(g) : Kind(s) = "const" \/ AfterStore(s, l)}

(* GEPpromoteSingleBlock: the nearest store above the load.                *)
StoresAbove(g, l) == {s \in Stores(g) : s[2] < l[2]}
Nearest(g, l) == CHOOSE s \in StoresAbove(g, l) : \A t \in StoresAbove(g, l) : t[2] <= s[2]
HaveStoreAbove(g) == {l \in Loads(g) : StoresAbove(g, l) # {}}

ReplaceBy(ls, Value(_)) ==
  [l \in DOMAIN repl \cup ls |-> IF l \in ls THEN Value(l) ELSE repl[l]]

RemoveFromGEPsList ==
  /\ GEPs' = SubSeq([GEPs EXCEPT ![GEPNum] = Last(GEPs)], 1, Len(GEPs) - 1)
  /\ NumPromoteGEP' = NumPromoteGEP + 1
  /\ UNCHANGED GEPNum

SingleStore(g) ==
  /\ Cardinality(Stores(g)) = 1
  /\ OnlyStoreReaches(g) = Loads(g)
  /\ repl' = ReplaceBy(Loads(g), LAMBDA l : Stored(CHOOSE s \in Stores(g) : TRUE))
  /\ RemoveFromGEPsList
  /\ UNCHANGED <<phis, NewPhiNodes>>

SingleBlock(g) ==
  /\ Cardinality(Stores(g)) > 1
  /\ OnlyUsedInOneBlock(g) /\ HaveStoreAbove(g) = Loads(g)
  /\ repl' = ReplaceBy(Loads(g), LAMBDA l : Stored(Nearest(g, l)))
  /\ RemoveFromGEPsList
  /\ UNCHANGED <<phis, NewPhiNodes>>

(* The loads replaced by the two simple cases before they give up.  The    *)
(* single-block case stops at the first load without a store above it, in  *)
(* the order of the use list: any of the others may have been replaced.    *)
ReplacedFirst(g) ==
  IF Cardinality(Stores(g)) = 1 THEN {OnlyStoreReaches(g)}
  ELSE IF OnlyUsedInOneBlock(g) THEN SUBSET HaveStoreAbove(g) ELSE {{}}

GivesUp(g) ==
  IF Cardinality(Stores(g)) = 1 THEN OnlyStoreReaches(g) # Loads(g)
  ELSE ~OnlyUsedInOneBlock(g) \/ HaveStoreAbove(g) # Loads(g)

(* ComputeLiveInBlocks: from the blocks with a load, unless a store comes  *)
(* first there, back to the stores.                                        *)
UsedFirst(g, using) ==
  {b \in using : \/ b \notin BlocksOf(Stores(g))
                 \/ \E l \in Loads(g) : l[1] = b /\ \A s \in Stores(g) : s[1] = b => l[2] < s[2]}

LiveInBlocks(g, using) ==
  Closure(UsedFirst(g, using),
          LAMBDA S : {p \in Blocks \ BlocksOf(Stores(g)) : \E b \in S : p \in Preds(b)})

(* The blocks that get a phi node.  UsingBlocks is that of AnalyzeGEP, or  *)
(* what GEPrewriteSingleStore left in it.                                  *)
UsingBlocks(g) ==
  BlocksOf(IF Cardinality(Stores(g)) = 1 THEN Loads(g) \ OnlyStoreReaches(g) ELSE Loads(g))
PhiBlocks(g) == IDF(BlocksOf(Stores(g)), LiveInBlocks(g, UsingBlocks(g)))

(* QueuePhiNode: the phi nodes start without incoming values.              *)
QueuePhiNodes(g) ==
  /\ GivesUp(g)
  /\ \E ls \in ReplacedFirst(g) :
       repl' = ReplaceBy(ls, LAMBDA l : Stored(IF Cardinality(Stores(g)) = 1
                                                 THEN CHOOSE s \in Stores(g) : TRUE
                                                 ELSE Nearest(g, l)))
  /\ LET new == PhiBlocks(g) \X {g} IN
       /\ phis' = [k \in DOMAIN phis \cup new |-> IF k \in new THEN <<>> ELSE phis[k]]
       /\ NewPhiNodes' = NewPhiNodes \cup new
  /\ GEPNum' = GEPNum + 1
  /\ UNCHANGED <<GEPs, NumPromoteGEP>>

RunGEP ==
  /\ pc = "run" /\ GEPNum <= Len(GEPs)
  /\ LET g == GEPs[GEPNum] IN
       /\ fn.others[g] = {}
       /\ SingleStore(g) \/ SingleBlock(g) \/ QueuePhiNodes(g)
  /\ UNCHANGED <<fn, DT, pc, bb, erased, worklist, Visited, execVars>>

(* AnalyzeGEP casts every user that is no store to LoadInst.  The cast of  *)
(* a marker fails: an assertion, or undefined behaviour in an LLVM built   *)
(* without them.  Nothing is said of what happens then.                    *)
AnalyzeFails ==
  /\ pc = "run" /\ GEPNum <= Len(GEPs)
  /\ fn.others[GEPs[GEPNum]] # {}
  /\ pc' = "failed"
  /\ UNCHANGED <<fn, DT, passVars, execVars>>

-----------------------------------------------------------------------------
(* The rename pass starts at the entry with every slot undefined.          *)
StartRename ==
  /\ pc = "run" /\ GEPNum > Len(GEPs)
  /\ IF GEPs = <<>>
       THEN pc' = "scan" /\ UNCHANGED worklist
       ELSE pc' = "rename" /\ worklist' = <<[bb |-> 1, pred |-> 0, vals |-> [g \in Range(GEPs) |-> Undef]]>>
  /\ Visited' = {}
  /\ UNCHANGED <<fn, DT, bb, NumPromoteGEP, GEPs, GEPNum, repl, erased, phis, NewPhiNodes, execVars>>

(* The value of slot g before instruction i of block b, entered with in.   *)
ValueAt(b, i, g, in) ==
  LET above == {s \in Stores(g) : s[1] = b /\ s[2] < i} IN
  IF above = {} THEN in[g] ELSE Stored(CHOOSE s \in above : \A t \in above : t[2] <= s[2])

(* A visit adds the incoming values to the block's new phi nodes, which    *)
(* become the current values.                                              *)
AddIncoming(w) ==
  [k \in DOMAIN phis |->
     IF k \in NewPhiNodes /\ k[1] = w.bb
       THEN [p \in DOMAIN phis[k] \cup {w.pred} |-> IF p = w.pred THEN w.vals[k[2]] ELSE phis[k][p]]
       ELSE phis[k]]

IncVals(w) == [g \in Range(GEPs) |-> IF <<w.bb, g>> \in NewPhiNodes THEN Phi(w.bb, g) ELSE w.vals[g]]

(* Successors are visited once each, the first one next.                   *)
Successors(b, vals) ==
  LET s == fn.succ[b]
      first == {i \in 1..Len(s) : \A j \in 1..(i - 1) : s[j] # s[i]}
      rest == SelectSeq([i \in 1..Len(s) |-> IF i > 1 /\ i \in first THEN s[i] ELSE 0], LAMBDA c : c # 0)
      order == IF s = <<>> THEN <<>> ELSE rest \o <<s[1]>>
  IN [i \in 1..Len(order) |-> [bb |-> order[i], pred |-> b, vals |-> vals]]

RenamePass ==
  /\ pc = "rename" /\ worklist # <<>>
  /\ LET w == Last(worklist)
         in == IncVals(w)
         users == {x \in Insts : x[1] = w.bb /\ Gep(x) \in Range(GEPs)}
         loads == {x \in users : x \in Loads(Gep(x))}
         out == [g \in Range(GEPs) |-> ValueAt(w.bb, Len(fn.code[w.bb]) + 1, g, in)]
     IN
       /\ phis' = AddIncoming(w)
       /\ IF w.bb \in Visited
            THEN worklist' = Front(worklist) /\ UNCHANGED <<repl, erased, Visited>>
            ELSE /\ Visited' = Visited \cup {w.bb}
                 /\ repl' = ReplaceBy(loads, LAMBDA l : ValueAt(l[1], l[2], Gep(l), in))
                 /\ erased' = erased \cup {x \in users : Kind(x) # "load"}
                 /\ worklist' = Front(worklist) \o Successors(w.bb, out)
  /\ UNCHANGED <<fn, DT, pc, bb, NumPromoteGEP, GEPs, GEPNum, NewPhiNodes, execVars>>

(* What is left is in unreachable blocks and gets a poison address.        *)
RemoveUsers ==
  /\ pc = "rename" /\ worklist = <<>>
  /\ repl' = ReplaceBy(UNION {Loads(g) : g \in Range(GEPs)}, LAMBDA l : Poison)
  /\ erased' = erased \cup UNION {Stores(g) : g \in Range(GEPs)}
  /\ pc' = "simplify"
  /\ UNCHANGED <<fn, DT, bb, NumPromoteGEP, GEPs, GEPNum, phis, NewPhiNodes, worklist, Visited, execVars>>

-----------------------------------------------------------------------------
(* simplifyInstruction on a phi node: the values it can be replaced by.    *)
Simplified(k) ==
  LET incoming == Range(phis[k]) \ {Phi(k[1], k[2])}
      common == incoming \ {Undef}
  IN IF common = {} THEN {Undef}
     ELSE {v \in common : common = {v} /\ (Undef \in incoming => DefinedBefore(v, k[1], 0))}
Renamed(v, k, w) == IF v = Phi(k[1], k[2]) THEN w ELSE v

SimplifyPhi ==
  /\ pc = "simplify"
  /\ \E k \in NewPhiNodes : \E w \in Simplified(k) :
       /\ repl' = [l \in DOMAIN repl |-> Renamed(repl[l], k, w)]
       /\ phis' = [m \in DOMAIN phis \ {k} |-> [p \in DOMAIN phis[m] |-> Renamed(phis[m][p], k, w)]]
       /\ NewPhiNodes' = NewPhiNodes \ {k}
  /\ UNCHANGED <<fn, DT, pc, bb, NumPromoteGEP, GEPs, GEPNum, erased, worklist, Visited, execVars>>

(* Unreachable predecessors pass an undefined value.                       *)
Missing(k) == Preds(k[1]) \ DOMAIN phis[k]

FillPhis ==
  /\ pc = "simplify" /\ \A k \in NewPhiNodes : Simplified(k) = {}
  /\ phis' = [k \in DOMAIN phis |->
                IF k \in NewPhiNodes
                  THEN [p \in DOMAIN phis[k] \cup Missing(k) |-> IF p \in Missing(k) THEN Undef ELSE phis[k][p]]
                  ELSE phis[k]]
  /\ NewPhiNodes' = {}
  /\ pc' = "scan"
  /\ UNCHANGED <<fn, DT, bb, NumPromoteGEP, GEPs, GEPNum, repl, erased, worklist, Visited, execVars>>

-----------------------------------------------------------------------------
(* Running the function.  A value is the site that computed it and the     *)
(* parity of the visit.                                                    *)

Sites(b) == {x \in Insts : x[1] = b /\ Kind(x) # "load"}
Fresh(x) ==
  <<x, IF Kind(x) = "store" /\ Stored(x) \in DOMAIN env THEN 1 - env[Stored(x)][2] ELSE 0>>
Used(v) ==
  IF v[1] = "store" /\ Kind(v[2]) = "const" THEN <<v[2], 0>>
  ELSE IF v \in DOMAIN env THEN env[v] ELSE v

Enter(b, pred) ==
  /\ at' = <<b, 1>>
  /\ LET here == {k \in DOMAIN phis : k[1] = b}
         made == {Stored(x) : x \in Sites(b)} \cup {<<"phi", k>> : k \in here}
     IN env' = [v \in DOMAIN env \cup made |->
                  IF v \notin made THEN env[v]
                  ELSE IF v[1] = "store" THEN Fresh(v[2]) ELSE Used(phis[v[2]][pred])]

Start ==
  /\ pc = "exec" /\ at = <<1, 0>>
  /\ Enter(1, 0)
  /\ UNCHANGED <<fn, DT, pc, passVars, mem, kept>>

ExecInst ==
  /\ pc = "exec" /\ at \in Insts
  /\ at' = <<at[1], at[2] + 1>>
  /\ IF Kind(at) = "load" THEN UNCHANGED <<mem, kept>>
     ELSE /\ mem' = [mem EXCEPT ![Cell(at)] = Used(Stored(at))]
          /\ kept' = IF at \in erased THEN kept ELSE [kept EXCEPT ![Cell(at)] = Used(Stored(at))]
  /\ UNCHANGED <<fn, DT, pc, passVars, env>>

Branch ==
  /\ pc = "exec" /\ at[2] > Len(fn.code[at[1]])
  /\ \E b \in Range(fn.succ[at[1]]) : Enter(b, at[1])
  /\ UNCHANGED <<fn, DT, pc, passVars, mem, kept>>

Return ==
  /\ pc = "exec" /\ at[2] > Len(fn.code[at[1]]) /\ fn.succ[at[1]] = <<>>
  /\ pc' = "done"
  /\ UNCHANGED <<fn, DT, passVars, execVars>>

Done == pc \in {"failed", "done"} /\ UNCHANGED vars

Pass == Scan \/ RunGEP \/ AnalyzeFails \/ StartRename \/ RenamePass \/ RemoveUsers \/ SimplifyPhi \/ FillPhis
Next == Pass \/ Start \/ ExecInst \/ Branch \/ Return \/ Done

(* The pass is a sequential program.                                       *)
Spec == Init /\ [][Next]_vars /\ WF_vars(Pass)

-----------------------------------------------------------------------------
(* The pass does not look for other GEPs with the same address, nor at     *)
(* types.  What it can be right about: memory that only one GEP points to, *)
(* or only GEPs it cannot promote, and GEPs accessed with one type.        *)
Pointers(c) == {g \in Geps : fn.cell[g] = c}
Slotlike(g) == g \in fn.local /\ "refused" \notin fn.others[g]
OnePointer(c) == Cardinality(Pointers(c)) = 1 \/ \A g \in Pointers(c) : ~Slotlike(g)
OneType(c) == \A x, y \in Insts : Cell(x) = c /\ Cell(y) = c => Type(x) = Type(y)

(* A load that runs after a store to its slot gets, in the promoted        *)
(* function, the value the original one reads: from the only store, the    *)
(* nearest one, through phi nodes (GEPrewriteSingleStore,                  *)
(* GEPpromoteSingleBlock, RenamePass) or still from memory.                *)
LoadsRight ==
  ( /\ pc = "exec" /\ at \in Insts /\ Kind(at) = "load" /\ mem[Cell(at)] # Undef
    /\ OnePointer(Cell(at)) /\ OneType(Cell(at)) )
    => mem[Cell(at)] = IF at \in DOMAIN repl THEN Used(repl[at]) ELSE kept[Cell(at)]

(* The promoted function is valid SSA: what replaces a load is defined on  *)
(* every path to it, and a phi node has one value for each predecessor,    *)
(* defined where that predecessor ends (run(), after the rename pass).     *)
SSAValid ==
  pc \in {"exec", "done"} =>
    LET exists(v) == v[1] = "phi" => v[2] \in DOMAIN phis IN
    /\ \A l \in DOMAIN repl :
         exists(repl[l]) /\ (l[1] \in Reachable => DefinedBefore(repl[l], l[1], l[2]))
    /\ \A k \in DOMAIN phis :
         /\ DOMAIN phis[k] = Preds(k[1])
         /\ \A p \in DOMAIN phis[k] :
              exists(phis[k][p]) /\ (p \in Reachable => DefinedBefore(phis[k][p], p, 1))

(* Promotion changes nothing that the function computes, as long as one    *)
(* GEP of one type stands for a slot.                                      *)
PromotedRight == LoadsRight /\ SSAValid

(* Every block is searched for slots, not only the entry: when the pass    *)
(* is done no load of a promotable slot is left                            *)
(* (GEPpromoteMemToRegister).                                              *)
AllPromoted ==
  pc = "exec" => \A g \in Geps : isGEPPromotable(g) => Loads(g) = {}

(* The loop of GEPpromoteMemToRegister, which runs again until the counts  *)
(* agree, ends for every block, or in the failed cast of AnalyzeGEP.       *)
PromotionEnds == <>(pc \in {"exec", "failed"})

=============================================================================
