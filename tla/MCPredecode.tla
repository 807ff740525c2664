---------------------------- MODULE MCPredecode -----------------------------
(* From guest bytes to a lifted function: the decoder of RISC-V words, the *)
(* discovery of a function, and the lifter's handling of blocks and of     *)
(* state that crosses them.  Init chooses the component a behaviour is     *)
(* about, the others idle.                                                 *)
(*                                                                         *)
(* Three bytes of memory and the functions entered at the second, so that  *)
(* jumps go before the entry, into the middle of an instruction and out of *)
(* the mapped memory, for each of the three guest architectures.           *)
EXTENDS Predecode

CONSTANTS Absent, Gen, Undef, None, Partial, Unset

VARIABLES
  comp,   \* "predecode", "function" or "frv"
  stage, cfg, code, dec, add, low, amap, packs, opt, run,   \* LiftFunction
  job, inst                                                 \* Frv

(* Functions of up to three instructions that set, change and half change  *)
(* the register, call, repeat, jump and branch anywhere.                   *)
LfInsts ==
  {[k |-> k, a |-> None] : k \in {"const", "inc", "low", "call", "rep", "ret", "bad"}}
    \cup {[k |-> k, a |-> a] : k \in {"jmp", "jcc"}, a \in 0..MemEnd}
LfHosts == {{}, {"IP", "R"}}

F == INSTANCE LiftFunction WITH Insts <- LfInsts, HostRegs <- LfHosts, FullFacets <- BOOLEAN, MaxSteps <- 14

(* Words of every major opcode with values in their fields that tell the   *)
(* fields' bits apart, and compressed words of every kind.                 *)
FrBits(fields) ==
  [b \in 0 .. 31 |-> LET f == CHOOSE f \in fields : b \in f[1] .. f[2] IN (f[3] \div 2^(b - f[1])) % 2]
FrWord(opcode, f3, f7, rs2, rs1, rd) ==
  FrBits({<<0, 1, 3>>, <<2, 6, opcode>>, <<7, 11, rd>>, <<12, 14, f3>>, <<15, 19, rs1>>,
          <<20, 24, rs2>>, <<25, 31, f7>>})
FrWords4 ==
  {FrWord(o, f3, f7, rs2, 9, rd) :
     o \in 0 .. 31, f3 \in {0, 1, 3, 5}, f7 \in {0, 1, 32, 85}, rs2 \in {1, 30}, rd \in {0, 21}}
    \cup {FrWord(o, f3, f7, rs2, 9, 21) : o \in {11, 12, 14, 20}, f3 \in {0, 2, 3},
            f7 \in {4, 9, 12, 16, 17, 21, 33, 44, 80, 97, 104, 113, 120}, rs2 \in {0, 3}}
FrWords2 ==
  {FrBits({<<0, 1, q>>, <<2, 4, a>>, <<5, 6, b>>, <<7, 9, c>>, <<10, 11, d>>, <<12, 12, e>>,
           <<13, 15, f3>>, <<16, 31, 0>>}) :
     q \in 0 .. 2, a \in {0, 1, 2, 4}, b \in {0, 2}, c \in {0, 2, 5}, d \in 0 .. 3, e \in 0 .. 1,
     f3 \in 0 .. 7}
FrOpts == {"RV32", "RV64", "RV128"}

V == INSTANCE Frv WITH Words4 <- FrWords4, Words2 <- FrWords2, Opts <- FrOpts

fvars == <<stage, cfg, code, dec, add, low, amap, packs, opt, run>>
vvars == <<job, inst>>

IdleP == arch = "x86_64" /\ granularity = 0 /\ callret = FALSE
IdleF ==
  /\ stage = "idle" /\ cfg = <<>> /\ code = <<>> /\ dec = <<>> /\ add = <<>> /\ low = <<>>
  /\ amap = <<>> /\ packs = <<>> /\ opt = <<>> /\ run = <<>>
IdleV == job = <<>> /\ inst = <<>>

MCInit ==
  \/ comp = "predecode" /\ Init /\ IdleF /\ IdleV
  \/ comp = "function" /\ IdleP /\ Init /\ F!Init /\ IdleV
  \/ comp = "frv" /\ IdleP /\ Init /\ IdleF /\ V!Init

MCNext ==
  \/ comp = "predecode" /\ Next /\ UNCHANGED <<comp, fvars, vvars>>
  \/ comp = "function" /\ F!Next /\ UNCHANGED <<comp, vars, vvars>>
  \/ comp = "frv" /\ V!Next /\ UNCHANGED <<comp, vars, fvars>>

MCSpec ==
  /\ MCInit /\ [][MCNext]_<<comp, vars, fvars, vvars>>
  /\ WF_vars(comp = "predecode" /\ Step)

(* Whatever the lifted function calls, and whoever it returns to, finds    *)
(* the guest's current registers: no store that OptimizePacks erases is    *)
(* needed, and no PHI node is missing or erased while it is referred to.   *)
StructCurrent == comp = "function" => F!StructCurrent

(* The RISC-V decoder keeps what a word says: no two words are mistaken    *)
(* for each other, the immediates are those of the manual, and a short     *)
(* buffer is reported as such.                                             *)
DecodesRight == comp = "frv" => V!DecodesRight

(* Predecode and Lift end, for every guest code.                           *)
PredecodeEnds == comp = "predecode" => Ends
=============================================================================
