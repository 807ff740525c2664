--------------------------- MODULE ChangeCallConv ---------------------------
(***************************************************************************)
(* ChangeCallConv (server/callconv.cc) rewrites a lifted function so that  *)
(* some fields of the CPU struct travel in arguments and results instead   *)
(* of memory.  A function is a set of blocks; it is run beside its         *)
(* rewritten form, and both must show the same to the functions they call, *)
(* to the helpers that get the CPU struct, and to their caller.            *)
(*                                                                         *)
(* An instruction is [op, k, f, v]: "load" and "store" of a field of the   *)
(* struct, "guest" (writes guest memory), "syscall" and "ext" (call a      *)
(* helper with the struct), "call" and "tail" (instrew_call_cdecl), "ret", *)
(* "mark" (a guest instruction begins); k is its name in its block.  The   *)
(* instrumentation tool (tools-simple) works on the function first.        *)
(* Rewritten calls and returns have the fields' values in v.  A value      *)
(* is <<"def", b, k>> (a load's result), <<"new", b, f>> (some             *)
(* result of block b), <<"const", b>>, and after rewriting <<"arg", f>>,   *)
(* <<"res", b, k, f>> and <<"phi", b, f>>.                                 *)
(***************************************************************************)
EXTENDS Integers, Sequences, SequencesExt, FiniteSets

CONSTANTS
  Fields,     \* the convention's fields; "pc" is one of them
  Progs,      \* functions: [blocks, succ], block 0 is the entry
  MaxBlocks   \* bound: blocks run

VARIABLES
  prog,       \* the lifted function
  tool,       \* the instrumentation tool: "none", "strace" or "icount"
  new,        \* its rewritten form: [blocks, repl, phis, bad]
  at, from,   \* the block to run, and the one before
  old_s,      \* the states of both: [st, env, n]
  new_s,
  shown,      \* what the last block showed, for both
  run         \* blocks run

vars == <<prog, tool, new, at, from, old_s, new_s, shown, run>>

NoVal == <<"none">>
Junk == <<"junk">>
All == Fields \cup {"x"}     \* "x" stands for the rest of the struct
Helper == {"ext", "syscall", "wrap"}

Ins(op, k, f, v) == [op |-> op, k |-> k, f |-> f, v |-> v]
-----------------------------------------------------------------------------
(* The tools.                                                              *)

Marks(insts) == Len(SelectSeq(insts, LAMBDA i : i.op = "mark"))

(* Calls of the system call helper go to syscall_strace or syscall_wrap.   *)
Wrapped(insts) ==
  [j \in DOMAIN insts |-> IF insts[j].op = "syscall" THEN [insts[j] EXCEPT !.op = "wrap"] ELSE insts[j]]

(* icount: one update of the counter, "cnt", for all the markers a block   *)
(* has; the entry block has none.                                          *)
Counted(b, insts) ==
  IF Marks(insts) = 0 THEN insts
  ELSE <<Ins("load", <<"icount", 0>>, "cnt", NoVal),
         Ins("store", <<"icount", 1>>, "cnt", <<"sum", <<"def", b, <<"icount", 0>>>>, Marks(insts)>>)>>
       \o SelectSeq(insts, LAMBDA i : i.op # "mark")

(* Instrument of the three tools.  Only icount asks for markers.           *)
Instrument(t, b, insts) ==
  CASE t = "none" -> SelectSeq(insts, LAMBDA i : i.op # "mark")
    [] t = "strace" -> Wrapped(SelectSeq(insts, LAMBDA i : i.op # "mark"))
    [] t = "icount" -> Counted(b, Wrapped(insts))
-----------------------------------------------------------------------------
(* The rewriting.                                                          *)

mayWriteToMemory(i) == i.op \in {"store", "guest", "call", "tail"} \cup Helper

(* GetValue: a field at the function's start, or after a call.             *)
GetValue(f, call) == IF call = NoVal THEN <<"arg", f>> ELSE <<"res", call[1], call[2], f>>

(* Loads of fields before anything is written get the value.               *)
FoldLoads(b, insts, call) ==
  LET start == IF call = NoVal THEN 0 ELSE CHOOSE j \in DOMAIN insts : insts[j].k = call[2]
      dead == {j \in (start + 1) .. Len(insts) :
                 /\ insts[j].op = "load" /\ insts[j].f \in Fields
                 /\ \A l \in (start + 1) .. j : ~mayWriteToMemory(insts[l])}
  IN [insts |-> SelectSeq(insts, LAMBDA i : ~\E j \in dead : insts[j] = i),
      repl |-> {<<<<"def", b, insts[j].k>>, GetValue(insts[j].f, call)>> : j \in dead}]

(* Walking back from a call or return: a helper that gets the struct, or a *)
(* load from it, ends the walk.                                            *)
FoldStores(insts, k) ==
  LET end == CHOOSE j \in DOMAIN insts : insts[j].k = k
      stop == {j \in 1 .. (end - 1) : insts[j].op \in {"load", "call"} \cup Helper}
      dead == {j \in 1 .. (end - 1) : (\A l \in stop : l < j) /\ insts[j].op = "store" /\ insts[j].f \in Fields}
      Of(f) == {j \in dead : insts[j].f = f}
  IN [vals |-> [f \in Fields |-> IF Of(f) = {} THEN NoVal ELSE insts[CHOOSE j \in Of(f) : TRUE].v],
      insts |-> SelectSeq(insts, LAMBDA i : ~\E j \in dead : insts[j] = i),
      \* assert(!vals[fieldidx - 1] && "dead store"), "more than one call/tail in a block!"
      bad |-> \/ \E f \in Fields : Cardinality(Of(f)) > 1
              \/ \E j \in stop : insts[j].op = "call" /\ \A l \in stop : l <= j]

(* "Find all calls to call/tail functions", and the returns.               *)
Calls(p) == UNION {{<<b, p.blocks[b][j].k>> : j \in {j \in DOMAIN p.blocks[b] : p.blocks[b][j].op \in {"call", "tail"}}} :
                   b \in DOMAIN p.blocks}

Rets(p) == UNION {{<<b, p.blocks[b][j].k>> : j \in {j \in DOMAIN p.blocks[b] : p.blocks[b][j].op = "ret"}} :
                  b \in DOMAIN p.blocks}

(* The users of the struct: a helper that gets it, or a load that was not  *)
(* folded, and it escapes.                                                 *)
Escapes(blocks) ==
  \E b \in DOMAIN blocks : \E j \in DOMAIN blocks[b] :
    blocks[b][j].op \in Helper \/ (blocks[b][j].op = "load" /\ blocks[b][j].f \in Fields)

StoresLeft(blocks) ==
  \E b \in DOMAIN blocks : \E j \in DOMAIN blocks[b] : blocks[b][j].op = "store" /\ blocks[b][j].f \in Fields

Preds(p, b) == {c \in DOMAIN p.succ : b \in p.succ[c]}

(* Blocks that need a PHI node for f: those without a value, and their     *)
(* predecessors that do not produce one.                                   *)
PhiBlocks(p, need, producers) ==
  LET grow[n \in Nat] ==
        IF n = 0 THEN need
        ELSE grow[n - 1] \cup (UNION {Preds(p, b) : b \in grow[n - 1]} \ producers)
  IN grow[Cardinality(DOMAIN p.blocks)]

CreateStores_entry(insts, call) ==
  IF call # NoVal THEN insts
  ELSE SetToSeq({Ins("store", <<"created", f>>, f, GetValue(f, call)) : f \in Fields}) \o insts

(* CreateStores: all fields, at the entry and after every call.            *)
CreateStores(insts, call) ==
  LET stores == SetToSeq({Ins("store", <<"created", f>>, f, GetValue(f, call)) : f \in Fields})
      pos == IF call = NoVal THEN 0 ELSE CHOOSE j \in DOMAIN insts : insts[j].k = call[2]
  IN IF call # NoVal /\ insts[pos].op = "tail" THEN insts
     ELSE SubSeq(insts, 1, pos) \o stores \o SubSeq(insts, pos + 1, Len(insts))

(* UpdateCallRet: what was not found is loaded; a constant program counter *)
(* makes the call direct, by the target's name.                            *)
UpdateCallRet(insts, b, k, vals) ==
  LET pos == CHOOSE j \in DOMAIN insts : insts[j].k = k
      loads == SetToSeq({Ins("load", <<"ret", k, f>>, f, NoVal) : f \in {f \in Fields : vals[f] = NoVal}})
      v == [f \in Fields |-> IF vals[f] = NoVal THEN <<"def", b, <<"ret", k, f>>>> ELSE vals[f]]
      op == CASE insts[pos].op = "ret" -> "retv" [] insts[pos].op = "call" -> "callv" [] insts[pos].op = "tail" -> "tailv"
      direct == op # "retv" /\ v["pc"][1] = "const"
  IN SubSeq(insts, 1, pos - 1) \o loads
       \o <<Ins(op, k, IF direct THEN v["pc"] ELSE NoVal, IF direct THEN [v EXCEPT !["pc"] = Junk] ELSE v)>>
       \o SubSeq(insts, pos + 1, Len(insts))

(* Applying a step to one block of a function.                             *)
On(blocks, b, insts) == [blocks EXCEPT ![b] = insts]

ChangeCallConv(p) ==
  LET calls == SetToSeq(Calls(p))
      callrets == SetToSeq(Rets(p)) \o calls
      ndef == Len(callrets)
      \* first fold known loads
      entry == FoldLoads(0, p.blocks[0], NoVal)
      loaded[n \in 0 .. Len(calls)] ==
        IF n = 0 THEN [blocks |-> On(p.blocks, 0, entry.insts), repl |-> entry.repl]
        ELSE LET r == loaded[n - 1]
                 fold == FoldLoads(calls[n][1], r.blocks[calls[n][1]], calls[n])
             IN [blocks |-> On(r.blocks, calls[n][1], fold.insts), repl |-> r.repl \cup fold.repl]
      afterLoads == loaded[Len(calls)]
      \* then known stores
      folded[n \in 0 .. ndef] ==
        IF n = 0 THEN [blocks |-> afterLoads.blocks, vals |-> << >>, bad |-> FALSE]
        ELSE LET r == folded[n - 1]
                 c == callrets[n]
                 fold == FoldStores(r.blocks[c[1]], c[2])
             IN [blocks |-> On(r.blocks, c[1], fold.insts), vals |-> Append(r.vals, fold.vals),
                 bad |-> r.bad \/ fold.bad]
      afterStores == folded[ndef]
      escapes == Escapes(afterLoads.blocks) \/ StoresLeft(afterStores.blocks)
      \* PHI nodes for what is missing, if there are calls
      producers == {0} \cup {callrets[n][1] : n \in 1 .. ndef}
      Need(f) == {callrets[n][1] : n \in {n \in 1 .. ndef : afterStores.vals[n][f] = NoVal}}
      Producer(b) == IF b = 0 THEN NoVal ELSE callrets[CHOOSE n \in 1 .. ndef : callrets[n][1] = b]
      Incoming(b, f) == [c \in Preds(p, b) |-> IF c \in producers THEN GetValue(f, Producer(c)) ELSE <<"phi", c, f>>]
      phis == IF escapes \/ calls = << >> THEN << >>
              ELSE [f \in Fields |-> [b \in PhiBlocks(p, Need(f), producers) |-> Incoming(b, f)]]
      Val(n, f) ==
        LET v == afterStores.vals[n][f]
        IN CASE v # NoVal \/ escapes -> v
             [] v = NoVal /\ ~escapes /\ calls = << >> -> <<"arg", f>>
             [] OTHER -> <<"phi", callrets[n][1], f>>
      \* stores if the struct escapes
      stored[n \in 0 .. Len(calls)] ==
        IF n = 0 THEN On(afterStores.blocks, 0, CreateStores(afterStores.blocks[0], NoVal))
        ELSE On(stored[n - 1], calls[n][1], CreateStores(stored[n - 1][calls[n][1]], calls[n]))
      afterCreate == IF escapes THEN stored[Len(calls)] ELSE afterStores.blocks
      updated[n \in 0 .. ndef] ==
        IF n = 0 THEN afterCreate
        ELSE LET c == callrets[n]
             IN On(updated[n - 1], c[1],
                   UpdateCallRet(updated[n - 1][c[1]], c[1], c[2], [f \in Fields |-> Val(n, f)]))
  IN [blocks |-> updated[ndef], repl |-> afterLoads.repl, phis |-> phis,
      \* "multiple producer in single block"
      bad |-> \/ afterStores.bad \/ (\E n \in 1 .. ndef : callrets[n][1] = 0)
              \/ \E m, n \in 1 .. ndef : m # n /\ callrets[m][1] = callrets[n][1]]
-----------------------------------------------------------------------------
(* Running a block.  s has the struct, the values and a counter of calls.  *)

Eval(s, repl, v) ==
  LET r == {p \in repl : p[1] = v}
      w == IF r = {} THEN v ELSE (CHOOSE p \in r : TRUE)[2]
  IN CASE w[1] = "sum" -> s.env[w[2]] + w[3]
       [] w[1] \in {"new", "const"} -> Append(w, s.n)
       [] w[1] = "junk" -> Junk
       [] OTHER -> IF w \in DOMAIN s.env THEN s.env[w] ELSE Junk

Set(env, v, x) == [w \in DOMAIN env \cup {v} |-> IF w = v THEN x ELSE env[w]]

(* A callee leaves new values; one with the new convention leaves them in  *)
(* registers, and anything in the fields' memory.                          *)
After(s, memory) ==
  [s EXCEPT !.n = s.n + 1, 
            !.st = [f \in All \cup {"cnt"} |-> CASE f = "cnt" -> s.st[f]
                                             [] f \in memory -> <<"after", s.n, f>> [] OTHER -> Junk]]

Exec(s, b, i, repl) ==
  LET show(x) == [s EXCEPT !.shown = Append(s.shown, x),
                           !.counts = Append(s.counts, <<s.st["cnt"], s.marks>>)]
      Struct == [f \in All |-> s.st[f]]
      Passed == [f \in All |-> CASE f = "x" -> s.st["x"]
                                 [] f = "pc" /\ i.f # NoVal -> Eval(s, repl, i.f)
                                 [] OTHER -> Eval(s, repl, i.v[f])]
  IN CASE i.op = "load" -> [s EXCEPT !.env = Set(s.env, <<"def", b, i.k>>, s.st[i.f])]
       [] i.op = "store" -> [s EXCEPT !.st[i.f] = Eval(s, repl, i.v)]
       [] i.op = "guest" -> s
       [] i.op = "mark" -> [s EXCEPT !.marks = s.marks + 1]
       [] i.op = "ext" -> After([s EXCEPT !.shown = Append(s.shown, <<"ext", Struct>>)], All)
       [] i.op \in {"syscall", "wrap"} -> After(show(<<"syscall", Struct>>), All)
       [] i.op = "ret" -> show(<<"ret", Struct>>)
       [] i.op \in {"call", "tail"} -> After(show(<<i.op, Struct>>), All)
       [] i.op = "retv" -> show(<<"ret", Passed>>)
       [] i.op = "tailv" -> show(<<"tail", Passed>>)
       [] i.op = "callv" ->
            LET t == After(show(<<"call", Passed>>), {"x"})
                results == {<<"res", b, i.k, f>> : f \in Fields}
            IN [t EXCEPT !.env = [w \in DOMAIN s.env \cup results |->
                                   IF w \in results THEN <<"after", s.n, w[4]>> ELSE s.env[w]]]

ExecBlock(s, b, insts, repl) ==
  FoldLeft(LAMBDA t, i : Exec(t, b, i, repl), [s EXCEPT !.shown = << >>, !.counts = << >>], insts)

(* PHI nodes take the value of the edge, all at once.                      *)
ExecPhis(s, b, prev, n) ==
  LET fs == {f \in DOMAIN n.phis : b \in DOMAIN n.phis[f]}
      names == {<<"phi", b, f>> : f \in fs}
  IN [s EXCEPT !.env = [w \in DOMAIN s.env \cup names |->
                         IF w \in names THEN Eval(s, n.repl, n.phis[w[3]][b][prev]) ELSE s.env[w]]]

Init ==
  /\ prog \in Progs
  /\ tool \in {"none", "strace", "icount"}
  /\ new = ChangeCallConv([prog EXCEPT !.blocks = [b \in DOMAIN prog.blocks |-> Instrument(tool, b, prog.blocks[b])]])
  /\ at = 0 /\ from = 0 /\ run = 0 /\ shown = <<<< >>, << >>>>
  /\ old_s = [st |-> [f \in All \cup {"cnt"} |-> IF f = "cnt" THEN 0 ELSE <<"arg", f>>], env |-> << >>,
              n |-> 0, marks |-> 0, shown |-> << >>, counts |-> << >>]
  \* a direct call leaves the callee's program counter undefined
  /\ new_s = [st |-> [f \in All \cup {"cnt"} |-> CASE f = "cnt" -> 0 [] f \in Fields -> Junk [] OTHER -> <<"arg", f>>],
              n |-> 0, marks |-> 0, shown |-> << >>, counts |-> << >>,
              env |-> [w \in {<<"arg", f>> : f \in Fields} |-> IF w[2] = "pc" THEN Junk ELSE w]]

RunBlock(next) ==
  /\ run < MaxBlocks /\ at \in DOMAIN prog.blocks
  /\ next \in (IF prog.succ[at] = {} THEN {-1} ELSE prog.succ[at])
  /\ \E o \in {ExecBlock(old_s, at, prog.blocks[at], {})} :
       \E n \in {ExecBlock(ExecPhis(new_s, at, from, new), at, new.blocks[at], new.repl)} :
         old_s' = o /\ new_s' = n /\ shown' = <<o.shown, n.shown>>
  /\ at' = next /\ from' = at /\ run' = run + 1
  /\ UNCHANGED <<prog, tool, new>>

Finished == (run = MaxBlocks \/ at = -1) /\ UNCHANGED vars

Next == (\E next \in -1 .. 3 : RunBlock(next)) \/ Finished

Spec == Init /\ [][Next]_vars
-----------------------------------------------------------------------------
(* Rewriting changes nothing that can be seen (ChangeCallConv): on every   *)
(* path, every call, tail call, helper and return sees the same register   *)
(* values as before, whether they travel in arguments, through PHI nodes,  *)
(* or in the CPU struct because it escapes; none of the function's         *)
(* assertions fails; and with the icount tool the counter they see is the  *)
(* number of guest instructions run.                                       *)
CallConvRight ==
  /\ shown[1] = shown[2] /\ ~new.bad
  /\ tool = "icount" => \A j \in DOMAIN new_s.counts : new_s.counts[j][1] = old_s.counts[j][2]
=============================================================================
