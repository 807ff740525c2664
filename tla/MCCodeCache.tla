---------------------------- MODULE MCCodeCache ----------------------------
(* Translated code and how it is reached: dispatch and linking, the        *)
(* registers at the border, and the lifted RISC-V and A64 instructions     *)
(* that run.  Init chooses the component a behaviour is about, the others  *)
(* idle.                                                                   *)
(*                                                                         *)
(* Three functions that call one another and themselves, and 48, which is  *)
(* only reached by computed jumps and finds the table full when the others *)
(* are in it.  16 and 20 share a slot of the quick TLB, 32 shares one with *)
(* address 0; 64 cannot be lifted.  Each function ends with a call, at its *)
(* last unit.  In some orders the code arena is exhausted before the table. *)
EXTENDS CodeCache

MCAddrs == {16, 20, 32, 48, 64}
MCCalls == [a \in MCAddrs |-> CASE a = 16 -> {16, 20}
                                [] a = 20 -> {16, 32}
                                [] a = 32 -> {20, 64}
                                [] OTHER -> {}]
MCSize == [a \in MCAddrs |-> IF a = 20 THEN 2 ELSE 3]
MCOff == [s \in MCAddrs \X MCAddrs |->
            IF s \in {<<16, 16>>, <<20, 16>>, <<32, 20>>} THEN MCSize[s[1]] - 1 ELSE 0]

CONSTANTS Absent, Undef

VARIABLES
  comp,   \* "cache", "regs", "rv64", "a64" or "simd"
  d_host, guest, cc, d_pc, regs, cpu, value, calls,   \* DispatchRegs
  lifted, arch, last, insts                                \* Rv64Code, A64Code, A64SimdCode

DrArchs == {"x86_64", "aarch64"} \X {"x86_64", "rv64", "aarch64"}

D == INSTANCE DispatchRegs WITH Archs <- DrArchs, MaxCalls <- 2, host <- d_host, pc <- d_pc

(* What the proofs about the dispatchers ask of them.                      *)
ASSUME ArchsAssumption == D!ArchsOK

(* Bytes of one bit, so that registers have eight, floats two and doubles  *)
(* four bits of mantissa.                                                  *)
RvMant == [I32 |-> 2, I64 |-> 4]

RV == INSTANCE Rv64 WITH ByteBits <- 1, MemSize <- 16, MantBits <- RvMant

(* Blocks of two instructions: every instruction, with equal and different *)
(* registers and x0, and a first one that leaves facets behind.            *)
RvIns(m, rd, rs1, rs2, imm) ==
  [mnem |-> m, rd |-> rd, rs1 |-> rs1, rs2 |-> rs2, rs3 |-> "f2", imm |-> imm, misc |-> 7,
        len |-> 4, fmt |-> "I64"]
RvGp == {<<"x1", "x2", "x5">>, <<"x5", "x5", "x2">>, <<"x0", "x2", "x1">>, <<"x2", "x0", "x2">>}
RvAll ==
  {RvIns(m, r[1], r[2], r[3], 0) : r \in RvGp,
     m \in DOMAIN RV!BinOpR \cup DOMAIN RV!ShiftR \cup DOMAIN RV!DivRem \cup DOMAIN RV!Mulhs \cup {"SLT",
           "SLTU"}}
  \cup {RvIns(m, r[1], r[2], "inv", imm) : r \in RvGp, imm \in {-1, 0, 3},
          m \in DOMAIN RV!BinOpI \cup DOMAIN RV!Loads \cup {"SLTI", "SLTIU"}}
  \cup {RvIns(m, r[1], r[2], "inv", imm) : r \in RvGp, imm \in {0, 3}, m \in DOMAIN RV!ShiftI}
  \cup {RvIns(m, "inv", r[2], r[3], imm) : r \in RvGp, imm \in {-2, 0, 1}, m \in DOMAIN RV!Stores}
  \cup {RvIns(m, "inv", r[2], r[3], imm) : r \in RvGp, imm \in {-4, 6}, m \in DOMAIN RV!Branches}
  \cup {RvIns("JAL", rd, "inv", "inv", imm) : rd \in {"x0", "x1", "x2"}, imm \in {-8, 6}}
  \cup {[RvIns("JALR", rd, rs1, "inv", imm) EXCEPT !.len = l] : rd \in {"x0", "x1", "x2", "x5"},
        rs1 \in {"x1", "x2", "x5"}, imm \in {-1, 0, 4}, l \in {2, 4}}
  \cup {RvIns(m, rd, "inv", "inv", imm) : m \in {"LUI", "AUIPC"}, rd \in {"x0", "x1"},
        imm \in {-16, 32}}
  \cup {[RvIns(m, r[1], r[2], r[3], 0) EXCEPT !.fmt = f] : m \in DOMAIN RV!Amos, r \in RvGp,
        f \in {"I32", "I64"}}
  \cup {RvIns(m, r[1], r[2], r[3], 0) : m \in {"LRW", "SCW", "CSR"} \cup RV!Unhandled, r \in RvGp}
  \cup {RvIns(m, "inv", "inv", "inv", 0) : m \in {"FENCE", "ECALL"}}
  \cup {[RvIns(m, "f1", r[1], r[2], 0) EXCEPT !.fmt = f] : f \in {"F32", "F64"},
        r \in {<<"f0", "f1">>, <<"f1", "f2">>, <<"f2", "f0">>},
          m \in DOMAIN RV!FpBin \cup DOMAIN RV!FpSgn \cup DOMAIN RV!FpMadd \cup {"FMIN", "FMAX", "FSQRT",
                "FCVT"}}
  \cup {[RvIns(m, "x1", r[1], r[2], 0) EXCEPT !.fmt = f, !.misc = rm] : f \in {"F32", "F64"},
        rm \in {1, 2, 3, 4, 7}, r \in {<<"f0", "f1">>, <<"f2", "f0">>},
          m \in DOMAIN RV!FpCmp \cup DOMAIN RV!FpToInt \cup {"FMVX", "FCLASS"}}
  \cup {[RvIns(m, "f1", r, "inv", 0) EXCEPT !.fmt = f] : f \in {"F32", "F64"}, r \in {"x1", "x2",
        "x0"}, m \in DOMAIN RV!IntToFp \cup {"FMV_X", "FL"}}
  \cup {[RvIns("FS", "inv", "x2", r, 1) EXCEPT !.fmt = f] : f \in {"F32", "F64"}, r \in {"f0",
        "f1"}}
RvFew == {RvIns("FENCE", "inv", "inv", "inv", 0), RvIns("ADDW", "x2", "x1", "x5", 0), RvIns("LRW",
      "x1", "x2", "inv", 0), RvIns("LBU", "x5", "x2", "inv", 1),
          [RvIns("FL", "f0", "x2", "inv", 0) EXCEPT !.fmt = "F32"], [RvIns("FMV_X", "f1", "x1",
                "inv", 0) EXCEPT !.fmt = "F64"]}
RvInsts == <<RvFew, RvAll>>
RvTriples ==
  {<<0, 5, 3>>, <<0, 128, 255>>, <<127, 0, 255>>, <<127, 248, 3>>, <<133, 5, 255>>, <<133, 128, 3>>,
   <<133, 248, 255>>, <<255, 0, 3>>, <<255, 5, 255>>, <<255, 128, 3>>}
RvStart(a, b, c) ==
  [gp |-> [x1 |-> a, x2 |-> b, x5 |-> c], fp |-> [f0 |-> a, f1 |-> (a + b) % 256, f2 |-> c],
   mem |-> [k \in 0 .. 15 |-> (k * k + k \div 3) % 2], ip |-> 16]
RvStarts == {RvStart(t[1], t[2], t[3]) : t \in RvTriples}

R == INSTANCE Rv64Code WITH ByteBits <- 1, MemSize <- 16, MantBits <- RvMant,
       Insts <- RvInsts, Starts <- RvStarts, MaxInsts <- 2

(* Four vector registers; a table index counts by 17 so that a byte can be *)
(* out of the table's range.                                               *)
SdNames == <<"v0", "v1", "v2", "v3">>

AB == INSTANCE MCA64Blocks WITH ByteBits <- 1, MemSize <- 32, PageBits <- 3, ZvaBytes <- 4,
       VecNames <- SdNames, IndexStep <- 17
A == INSTANCE A64Code WITH ByteBits <- 1, MemSize <- 32, PageBits <- 3, ZvaBytes <- 4,
       Insts <- AB!A6Insts, Starts <- AB!A6Starts, MaxInsts <- 2

(* Bytes of two bits.                                                      *)
SB == INSTANCE MCA64Blocks WITH ByteBits <- 2, MemSize <- 64, PageBits <- 3, ZvaBytes <- 4,
       VecNames <- SdNames, IndexStep <- 17
S == INSTANCE A64SimdCode WITH ByteBits <- 2, MemSize <- 64, PageBits <- 3, ZvaBytes <- 4,
       VecNames <- SdNames, IndexStep <- 17, Insts <- SB!SdInsts, Starts <- SB!SdStarts, MaxInsts <- 2

dvars == <<d_host, guest, cc, d_pc, regs, cpu, value, calls>>
lvars == <<lifted, arch, last, insts>>

IdleC == mode = "plain" /\ rip = 16
IdleD ==
  /\ d_host = "idle" /\ guest = "idle" /\ cc = "idle" /\ d_pc = "idle" /\ regs = <<>>
  /\ cpu = <<>> /\ value = <<>> /\ calls = 0
IdleL == lifted = <<>> /\ arch = <<>> /\ last = <<>> /\ insts = 0

MCInit ==
  \/ comp = "cache" /\ Init /\ IdleD /\ IdleL
  \/ comp = "regs" /\ IdleC /\ Init /\ D!Init /\ IdleL
  \/ comp = "rv64" /\ IdleC /\ Init /\ IdleD /\ R!Init
  \/ comp = "a64" /\ IdleC /\ Init /\ IdleD /\ A!Init
  \/ comp = "simd" /\ IdleC /\ Init /\ IdleD /\ S!Init /\ last = <<>>

MCNext ==
  \/ comp = "cache" /\ Next /\ UNCHANGED <<comp, dvars, lvars>>
  \/ comp = "regs" /\ D!Next /\ UNCHANGED <<comp, vars, lvars>>
  \/ comp = "rv64" /\ R!Next /\ UNCHANGED <<comp, vars, dvars>>
  \/ comp = "a64" /\ A!Next /\ UNCHANGED <<comp, vars, dvars>>
  \/ comp = "simd" /\ S!Next /\ UNCHANGED <<comp, vars, dvars, last>>

MCSpec ==
  /\ MCInit /\ [][MCNext]_<<comp, vars, dvars, lvars>>
  /\ WF_vars(comp = "cache" /\ Client)

(* A dispatch ends: the client reaches translated code, or it stops.       *)
DispatchReturns == comp = "cache" => DispatchEnds

(* The server's register tables and the client's assembly agree: whenever  *)
(* a translated function is entered, whatever led there, every guest       *)
(* register is where the calling convention says.                          *)
RegistersRight == comp = "regs" => D!RegistersRight

(* Lifted RISC-V code does what the instructions do, no facet of the       *)
(* register file is stale, and the decoder foretells where jumps lead.     *)
Rv64Right == comp = "rv64" => R!Rv64Right

(* Lifted A64 code does what the instructions do, flags and floating point *)
(* included, no facet is stale, and the decoder foretells where jumps lead.*)
A64Right == comp = "a64" => A!A64Right

(* Lifted A64 vector instructions do what the architecture says in every   *)
(* lane, also after an instruction that left facets of another type.       *)
SimdRight == comp = "simd" => S!SimdRight
=============================================================================
