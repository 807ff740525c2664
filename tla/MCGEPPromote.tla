---------------------------- MODULE MCGEPPromote ----------------------------
(* Passes over lifted functions: promotion of stack slots, restoration of  *)
(* array accesses, the rewriting to the guest calling convention and the   *)
(* instrumentation before it.  Init chooses the component a behaviour is   *)
(* about, the others idle.                                                 *)
(*                                                                         *)
(* Straight, branching, looping and irreducible functions of four blocks,  *)
(* one with a block nothing reaches.  Slot 1 is loaded or stored in every  *)
(* combination of blocks, in one of them both; slot 2 in a few.  The       *)
(* GEP of slot 2 is in the entry or in block 2.  In some functions it is   *)
(* not on the stack, has the address of slot 1, is accessed with two types *)
(* or has users that are neither loads nor stores.                         *)
EXTENDS GEPPromote

Shapes == {
  << <<2, 3>>, <<4>>, <<4>>, <<>> >>,       \* a diamond
  << <<2>>, <<3>>, <<2, 4>>, <<>> >>,       \* a loop of two blocks
  << <<2>>, <<2, 3>>, <<4, 4>>, <<>> >>,    \* a loop of one block, a double edge
  << <<2, 3>>, <<3, 4>>, <<2>>, <<>> >>,    \* a loop with two entries
  << <<2>>, <<4>>, <<4>>, <<>> >>}          \* block 3 is unreachable

Load(g) == <<"load", g, "i64">>
Store(g) == <<"store", g, "i64">>
Apart(st) == {<<>>, <<Load(1)>>, << <<st, 1, "i64">> >>}
Together == {<<Load(1), Store(1)>>, <<Store(1), Load(1)>>}
Simple == [Blocks -> Apart("store")]
Constant == [Blocks -> Apart("const")]
Uses1 == {[u EXCEPT ![b] = t] : u \in Simple, b \in Blocks, t \in Together} \cup Simple \cup Constant

None == [b \in Blocks |-> <<>>]
InBlock == [None EXCEPT ![2] = <<Store(2), Load(2)>>]
Across == [None EXCEPT ![2] = <<Load(2), Store(2)>>, ![4] = <<Load(2)>>]
Mixed == [None EXCEPT ![2] = << <<"store", 2, "i32">> >>, ![4] = <<Load(2)>>]

Function(s, u1, u2, geps, local) ==
  [succ |-> s, local |-> local, code |-> [b \in Blocks |-> u1[b] \o u2[b]], geps |-> geps,
   cell |-> [g \in Geps |-> g], others |-> [g \in Geps |-> {}]]
Plain(s, u1, u2) == Function(s, u1, u2, << <<1, 2>>, <<>>, <<>>, <<>> >>, {1, 2})

(* The address of slot 1 for both GEPs, promotable, on the stack but with  *)
(* other users, or elsewhere; and other users or types of the second.      *)
Aliased(f) ==
  {[f EXCEPT !.cell[2] = 1], [f EXCEPT !.cell[2] = 1, !.others = [g \in Geps |-> {"refused"}]],
   [f EXCEPT !.cell[2] = 1, !.local = {}]}
Odd(f) == {[f EXCEPT !.others[2] = o] : o \in {{"marker"}, {"refused"}, {"marker", "refused"}}}

MCFunctions ==
  {Plain(s, u1, None) : s \in Shapes, u1 \in Uses1}
    \cup {Function(s, u1, Across, << <<1, 2>>, <<>>, <<>>, <<>> >>, l) :
            s \in Shapes, u1 \in Constant, l \in {{1}, {1, 2}}}
    \cup {Function(s, u1, InBlock, << <<1>>, <<2>>, <<>>, <<>> >>, {1, 2}) :
            s \in Shapes, u1 \in Simple}
    \cup {Plain(s, u1, Mixed) : s \in Shapes, u1 \in Constant}
    \cup UNION {Aliased(Plain(s, u1, Across)) \cup Odd(Plain(s, u1, Across)) :
                  s \in Shapes, u1 \in Constant}

VARIABLES
  comp,   \* "promote", "callconv" or "restore"
  prog, tool, new, c_at, from, old_s, new_s, shown, run,       \* ChangeCallConv
  gep, r_pc, values, baseAddr, dimSize, index, newGEP          \* GEPRestore

(* An entry block and three others, in an acyclic, a looping and a partly  *)
(* unreachable shape; calls, helper calls and system calls after packing   *)
(* nothing, one field, exchanged fields and all of them.                   *)
CcNone == <<"none">>
CcFields == {"pc", "a", "b"}
CcLoad(k, f) == [op |-> "load", k |-> <<"i", k>>, f |-> f, v |-> CcNone]
CcLoads(k) == <<CcLoad(k, "pc"), CcLoad(k + 1, "a"), CcLoad(k + 2, "b"), CcLoad(k + 3, "x")>>
CcStore(k, f, v) == [op |-> "store", k |-> <<"i", k>>, f |-> f, v |-> v]
CcOp(op, k) == <<[op |-> op, k |-> <<"i", k>>, f |-> "none", v |-> CcNone]>>
CcMark(k) == CcOp("mark", k)
CcPack(b, k, kind) ==
  <<CcStore(k, "pc", IF kind \in {"none", "all"} THEN <<"const", b>> ELSE <<"new", b, "pc">>)>> \o
  CASE kind = "none" -> <<>>
    [] kind = "a" -> <<CcStore(k + 1, "a", <<"new", b, "a">>)>>
    [] kind = "swap" -> <<CcStore(k + 1, "a", <<"def", 0, <<"i", 3>>>>),
                          CcStore(k + 2, "b", <<"def", 0, <<"i", 2>>>>)>>
    [] kind = "all" -> <<CcStore(k + 1, "a", <<"new", b, "a">>), CcStore(k + 2, "x", <<"new", b, "x">>),
                         CcStore(k + 3, "b", <<"new", b, "b">>)>>
CcKinds == {"none", "a", "swap", "all"}
CcMid(b) ==
  {CcMark(0), CcMark(0) \o CcOp("guest", 1) \o CcMark(2)}
    \cup {CcMark(0) \o CcPack(b, 10, s) \o CcOp("call", 20) \o CcLoads(30) : s \in CcKinds}
    \cup {CcMark(0) \o CcOp("guest", 1) \o CcMark(2) \o CcPack(b, 10, s) \o CcOp("syscall", 20)
            \o CcLoads(30) : s \in {"none", "all"}}
CcTwo(b) ==
  {CcMark(0) \o CcPack(b, 10, "a") \o CcOp("ext", 20) \o CcLoads(30) \o CcMark(38)
     \o CcPack(b, 40, s) \o CcOp("call", 50) \o CcLoads(60) : s \in {"none", "swap"}}
CcLast(b) ==
  {CcPack(b, 10, s) \o CcOp("ret", 20) : s \in {"none", "swap", "all"}}
    \cup {CcPack(b, 10, "a") \o CcOp("tail", 20)}
CcSucc == {<<{2, 3}, {3}>>, <<{2, 3}, {1, 3}>>, <<{3}, {3}>>}
CcProgs ==
  {[blocks |-> [b \in 0 .. 3 |-> <<CcLoads(1), b1, b2, b3>>[b + 1]],
    succ |-> [b \in 0 .. 3 |-> <<{1}, sc[1], sc[2], {}>>[b + 1]]] :
     b1 \in CcMid(1), b2 \in CcMid(2) \cup CcTwo(2), b3 \in CcLast(3), sc \in CcSucc}

F == INSTANCE ChangeCallConv WITH Fields <- CcFields, Progs <- CcProgs, MaxBlocks <- 5, at <- c_at

(* One- and two-dimensional accesses to elements of 2, 4 and 8 bytes, from *)
(* constant, argument and loaded bases.                                    *)
GrMul(v, c) == <<"mul", <<"ext", v>>, <<"const", c>>>>
GrBases == {<<"const", 100>>, <<"arg", "p">>, <<"load", "p">>}
GrAddr(n, m, s) ==
  {<<"arg", "p">>, <<"add", <<"load", "p">>, GrMul("i", n * s)>>}
    \cup {<<"add", GrMul("i", n * s), b>> : b \in GrBases}
    \cup {<<"add", <<"add", GrMul("j", n * s), GrMul("i", m * n * s)>>, b>> : b \in GrBases}
GrSized(s, addrs) ==
  {[size |-> s, itp |-> <<"itp", a>>, low |-> l] : a \in addrs, l \in {<<"ext", "k">>, <<"const", 1>>}}
GrGeps ==
  UNION {GrSized(2, GrAddr(3, 5, 2) \cup GrAddr(6, 3, 2)), GrSized(4, GrAddr(3, 5, 4) \cup GrAddr(5, 7, 4)),
         GrSized(8, GrAddr(3, 5, 8) \cup GrAddr(7, 3, 8))}
GrValues == {0, 1, 2}

G == INSTANCE GEPRestore WITH Geps <- GrGeps, Values <- GrValues, pc <- r_pc

fvars == <<prog, tool, new, c_at, from, old_s, new_s, shown, run>>
gvars == <<gep, r_pc, values, baseAddr, dimSize, index, newGEP>>

IdleP ==
  fn = Plain(<< <<2>>, <<4>>, <<4>>, <<>> >>, None, None)
IdleF ==
  /\ prog = <<>> /\ tool = "idle" /\ new = <<>> /\ c_at = 0 /\ from = 0
  /\ old_s = <<>> /\ new_s = <<>> /\ shown = <<>> /\ run = 0
IdleG ==
  /\ gep = <<>> /\ r_pc = "idle" /\ values = <<>> /\ baseAddr = <<>> /\ dimSize = <<>>
  /\ index = <<>> /\ newGEP = <<>>

MCInit ==
  \/ comp = "promote" /\ Init /\ IdleF /\ IdleG
  \/ comp = "callconv" /\ IdleP /\ Init /\ F!Init /\ IdleG
  \/ comp = "restore" /\ IdleP /\ Init /\ IdleF /\ G!Init

MCNext ==
  \/ comp = "promote" /\ Next /\ UNCHANGED <<comp, fvars, gvars>>
  \/ comp = "callconv" /\ F!Next /\ UNCHANGED <<comp, vars, gvars>>
  \/ comp = "restore" /\ G!Next /\ UNCHANGED <<comp, vars, fvars>>

MCSpec ==
  /\ MCInit /\ [][MCNext]_<<comp, vars, fvars, gvars>>
  /\ WF_vars(comp = "promote" /\ Pass)

(* Rewriting changes nothing that can be seen: on every path every call,   *)
(* tail call, helper and return sees the same register values, and the     *)
(* icount tool has counted every instruction run.                          *)
CallConvRight == comp = "callconv" => F!CallConvRight

(* A restored array access is to the address the guest's arithmetic gave,  *)
(* for every value of the indices and the base.                            *)
RestoredRight == comp = "restore" => G!RestoredRight

(* The pass over a function ends, in the promoted function or a failed     *)
(* cast.                                                                   *)
PassEnds == comp = "promote" => PromotionEnds
=============================================================================
