---------------------------- MODULE MCA64Blocks ----------------------------
(* Blocks of two A64 instructions for model checking, and the registers    *)
(* and memory they start from: every instruction, with equal and different *)
(* registers, zr and sp, and a first one that leaves facets behind.        *)
EXTENDS A64Simd

A6Base ==
  [op |-> "HINT", w32 |-> FALSE, set_flags |-> FALSE, rd |-> "x0", rn |-> "x1", rm |-> "x2",
        ra |-> "x0", rt |-> "x0",
   rt2 |-> "x2", rs |-> "x2", imm |-> 0, lsb |-> 0, width |-> 1, sh |-> "LSL", amount |-> 0,
         ext |-> "UXTX", cond |-> "EQ",
   nzcv |-> 0, mode |-> "SIMPLE", fsz |-> "D", sgn |-> TRUE, fbits |-> 0, rmode |-> "ZERO",
         bit |-> 0, sys |-> "NZCV", len |-> 4]
A6Regs == {<<"x0", "x1", "x2">>, <<"x1", "x1", "zr">>, <<"zr", "x2", "x1">>, <<"x2", "sp", "x0">>}
A6R(op, r, w32) == [A6Base EXCEPT !.op = op, !.rd = r[1], !.rn = r[2], !.rm = r[3], !.ra = r[1],
      !.w32 = w32, !.rt = r[1]]
A6Logic == {"ORR_IMM", "EOR_IMM", "ORR_SHIFTED", "ORN", "MVN", "EOR_SHIFTED", "EON", "MOV_SP"}
A6Conds == {"EQ", "NE", "HS", "LO", "MI", "PL", "VS", "VC", "HI", "LS", "GE", "LT", "GT", "LE",
      "AL", "NV"}
A6Form(f) == {op \in DOMAIN BinOps : BinOps[op][2] = f}
A6Int ==
  {[A6R(op, r, w) EXCEPT !.imm = k, !.set_flags = f] : op \in A6Form("IMM") \ A6Logic,
        r \in A6Regs, w \in BOOLEAN, k \in {1, 6}, f \in BOOLEAN}
  \cup {[A6R(op, r, w) EXCEPT !.imm = k] : op \in A6Form("IMM") \cap A6Logic, r \in A6Regs,
        w \in BOOLEAN, k \in {0, 6}}
  \cup {[A6R(op, r, w) EXCEPT !.sh = sh, !.amount = k, !.set_flags = f] :
        op \in A6Form("SHIFT") \ A6Logic, r \in A6Regs, w \in BOOLEAN,
           f \in BOOLEAN, sh \in {"LSL", "LSR", "ASR"}, k \in {0, 3}}
  \cup {[A6R(op, r, w) EXCEPT !.sh = sh, !.amount = k] : op \in A6Form("SHIFT") \cap A6Logic,
        r \in A6Regs, w \in BOOLEAN, sh \in {"LSL", "ROR"}, k \in {0, 3}}
  \cup {[A6R(op, r, w) EXCEPT !.ext = e, !.amount = k, !.set_flags = f] : op \in A6Form("EXT"),
        r \in A6Regs, w \in BOOLEAN, f \in BOOLEAN, e \in {"UXTB", "SXTH", "SXTW", "UXTW"},
        k \in {0, 2}}
  \cup {[A6R(op, r, FALSE) EXCEPT !.ext = e] : op \in A6Form("EXT"), r \in A6Regs, e \in {"UXTX",
        "SXTX"}}
  \cup {[A6R(op, r, w) EXCEPT !.set_flags = f] : op \in {"ADC", "SBC", "NGC"}, r \in A6Regs,
        w \in BOOLEAN, f \in BOOLEAN}
  \cup {[A6R(op, r, w) EXCEPT !.lsb = f[1], !.width = f[2], !.imm = f[2]] : op \in {"SBFIZ",
        "SBFX", "BFC", "BFI", "BFXIL", "UBFIZ", "UBFX", "ASR_IMM", "LSL_IMM", "LSR_IMM", "ROR_IMM",
        "EXTR"},
           r \in A6Regs, w \in BOOLEAN, f \in {<<0, 1>>, <<1, 3>>, <<2, 2>>}}
  \cup {[A6R(op, r, w) EXCEPT !.lsb = k, !.imm = 1] : op \in {"MOVK", "MOV_IMM"}, r \in A6Regs,
        w \in BOOLEAN, k \in {0, 2}}
  \cup {[A6R("EXTEND", r, w) EXCEPT !.ext = e] : r \in A6Regs, w \in BOOLEAN, e \in {"UXTB",
        "UXTH", "SXTB", "SXTH", "SXTW"}}
  \cup {A6R(op, r, w) : op \in DataOps, r \in A6Regs, w \in BOOLEAN}
  \cup {A6R(op, r, FALSE) : op \in DOMAIN LongMuls \cup {"SMULH", "UMULH", "ADR", "ADRP"},
        r \in A6Regs}
  \cup {[A6R(op, r, w) EXCEPT !.cond = c, !.nzcv = 9, !.imm = 3] : op \in Selects \cup CCmps,
        r \in A6Regs, w \in BOOLEAN, c \in {"LO", "GT"}}
  \cup {[A6R(op, r, FALSE) EXCEPT !.sys = s] : op \in {"MSR_REG", "MRS", "SYS"}, r \in A6Regs,
        s \in SysWrites \cup DOMAIN SysConst \cup {"ZVA", "ACTLR"}}
  \cup {[A6Base EXCEPT !.op = op] : op \in {"CFINV", "SVC", "HINT", "DMB", "PRFM", "UDF", "BRK"}}
A6Jumps ==
  {[A6R("BCOND", <<"zr", "zr", "zr">>, FALSE) EXCEPT !.cond = c, !.imm = -8] : c \in A6Conds}
  \cup {[A6R(op, r, w) EXCEPT !.imm = 12, !.bit = b] : op \in {"CBZ", "CBNZ", "TBZ", "TBNZ"},
        r \in A6Regs, w \in BOOLEAN, b \in {0, 3}}
  \cup {[A6R(op, <<"x0", rn, "x2">>, FALSE) EXCEPT !.imm = -4] : op \in {"B", "BR", "BL", "BLR",
        "RET"}, rn \in {"x1", "x30", "x2"}}
A6Mems ==
  {[A6R(op, <<rt, rn, "x0">>, w) EXCEPT !.mode = m, !.imm = 3, !.ext = IF w THEN e[1] ELSE e[2],
        !.amount = k, !.rt2 = "x2"] :
     op \in {"LDR", "STR", "LDP", "STP"}, rt \in {"x1", "zr"}, rn \in {"sp", "x2"}, w \in BOOLEAN,
           m \in {"OFF_IMM", "OFF_REG", "PRE", "POST", "LITERAL"},
     e \in {<<"UXTB", "SXTB">>, <<"SXTH", "UXTH">>, <<"UXTW", "SXTW">>, <<"UXTW", "UXTX">>},
           k \in {0, 1}}
  \cup {[A6R(op, <<"x1", "sp", "x0">>, FALSE) EXCEPT !.rs = "x0"] : op \in {"LDXR", "STXR", "LDXP",
        "STXP"}}
  \cup {[A6R("LDR", <<"x1", "sp", "x0">>, w) EXCEPT !.mode = "OFF_EXT", !.ext = e, !.amount = k] :
        w \in BOOLEAN, e \in {"UXTW", "SXTW"}, k \in {0, 2}}
  \cup {[A6R(op, <<"v1", "sp", "x0">>, FALSE) EXCEPT !.mode = m, !.imm = 3, !.rt2 = "v0",
        !.fsz = f, !.amount = k] :
     op \in FpMems, m \in {"OFF_IMM", "OFF_REG", "POST"}, f \in DOMAIN FpBytes, k \in {0, 1}}
A6VRegs == {<<"v0", "v1", "v0">>, <<"v1", "v1", "v0">>}
A6Fps ==
  {[A6R(op, r, FALSE) EXCEPT !.fsz = f, !.cond = c, !.imm = 5] : op \in FpData \cup {"FCVT_S",
        "FCVT_D", "FCMP_REG", "FCMPE_REG", "FCMP_ZERO", "FCMPE_ZERO", "FCCMP", "FCCMPE"},
        r \in A6VRegs, f \in {"S", "D"}, c \in {"MI", "LE"}}
  \cup {[A6R(op, r, FALSE) EXCEPT !.rmode = m, !.fsz = f, !.bit = b] : op \in {"FRINT", "FRINTX"},
        r \in A6VRegs, m \in DOMAIN RoundIntrinsic, f \in {"H", "S", "D"}, b \in {0, 32}}
  \cup {[A6R("FCVT_GPR", <<"x0", "v1", "v0">>, w) EXCEPT !.rmode = m, !.fsz = f, !.sgn = s,
        !.fbits = k] : w \in BOOLEAN, m \in DOMAIN RoundIntrinsic, f \in {"S", "D"}, s \in BOOLEAN,
        k \in {0, 2}}
  \cup {[A6R("CVTF", <<"v0", "x1", "v0">>, w) EXCEPT !.fsz = f, !.sgn = s, !.fbits = k] :
        w \in BOOLEAN, f \in {"S", "D"}, s \in BOOLEAN, k \in {0, 2}}
  \cup {[A6R(op, <<"x0", "v1", "v0">>, w) EXCEPT !.fsz = IF w THEN "S" ELSE "D"] :
        op \in {"FMOV_VEC2GPR"}, w \in BOOLEAN}
  \cup {[A6R(op, <<"v1", "x1", "v0">>, w) EXCEPT !.fsz = IF w THEN "S" ELSE "D"] :
        op \in {"FMOV_GPR2VEC"}, w \in BOOLEAN}
  \cup {A6R("FMOV_TOP2GPR", <<"x0", "v1", "v0">>, FALSE), A6R("FMOV_GPR2TOP", <<"v1", "x1", "v0">>,
        FALSE)}
(* rm and ra name vector registers exactly in the floating point forms.    *)
A6Ra(i) == IF i.op \in FpData
      \cup FpOther THEN [i EXCEPT !.ra = IF i.op \in FpData THEN "v1" ELSE i.ra, !.rm = "v0",
      !.rn = IF i.op = "FMOV_IMM" THEN "v0" ELSE i.rn] ELSE i
A6All == A6Int \cup A6Jumps \cup A6Mems \cup {A6Ra(i) : i \in A6Fps}
A6Few == {A6Base, [A6R("SUB_SHIFTED", <<"x0", "x1", "x2">>, TRUE) EXCEPT !.set_flags = TRUE],
      [A6R("FCMP_REG", <<"v0", "v0", "v1">>, FALSE) EXCEPT !.fsz = "S"],
          [A6R("LDR_FP", <<"v0", "sp", "x0">>, FALSE) EXCEPT !.mode = "POST", !.imm = 5,
                !.fsz = "S"], [A6R("MSR_REG", <<"x1", "x1", "x1">>,
                FALSE) EXCEPT !.sys = "TPIDR_EL0"]}
A6Insts == <<A6Few, A6All>>
A6Start(a, b, c) ==
             [gp |-> [x0 |-> a, x1 |-> b, x2 |-> c, x30 |-> 77, sp |-> 9],
              vec |-> [v0 |-> [k \in 1 .. 16 |-> (a \div k) % 2],
                    v1 |-> [k \in 1 .. 16 |-> IF b = 255 THEN 1 ELSE ((k * b) \div 3) % 2]],
              fl |-> [n |-> a % 2, z |-> c % 2, c |-> b % 2, v |-> (c \div 4) % 2],
              mem |-> [k \in 0 .. (MemSize - 1) |-> (k * k + k \div 3) % 2], ip |-> 20]
A6Starts == {A6Start(127, 5, 3), A6Start(127, 255, 128), A6Start(134, 5, 128), A6Start(134, 255, 3)}
-----------------------------------------------------------------------------
(* The vector instructions.                                                *)

SdBase ==
  [op |-> "ADD_VEC", w32 |-> FALSE, rd |-> "v0", rn |-> "v1", rm |-> "v2", rt |-> "v3", imm |-> 0,
        sgn |-> FALSE, va |-> "16B",
   scalar |-> FALSE, round |-> FALSE, index |-> 0, dst |-> 0, nreg |-> 1, offset |-> 0, bits |-> 0,
         fbits |-> 0,
   rmode |-> "ZERO", mode |-> "SIMPLE", len |-> 4]
SdRegs == {<<"v0", "v1", "v2">>, <<"v3", "v3", "v1">>}
SdR(op, va, r) == [SdBase EXCEPT !.op = op, !.va = va, !.rd = r[1], !.rn = r[2], !.rm = r[3]]
SdByte == {"8B", "16B"}
SdInt == {"8B", "16B", "4H", "8H", "2S", "4S"}
SdFp == {"2S", "4S", "2D"}
SdThree ==
  {SdR(op, va, r) : op \in {"ADD_VEC", "SUB_VEC", "ADDP_VEC", "UZP1", "UZP2", "ZIP1", "ZIP2"}
        \cup DOMAIN IntCompares \cup {"CMTST"},
                    va \in SdInt \cup {"2D"}, r \in SdRegs}
  \cup {[SdR(op, va, r) EXCEPT !.sgn = g] : op \in {"ABD", "ABA", "HSUB", "MAX_VEC", "MIN_VEC",
        "MAXP", "MINP", "ABDL", "ABAL", "ADDL",
                    "ADDW", "SUBL", "SUBW", "MULL_VEC", "MLAL_VEC", "MLSL_VEC"}, va \in SdInt,
                          r \in SdRegs, g \in BOOLEAN}
  \cup {[SdR("HADD", va, r) EXCEPT !.sgn = g, !.round = q] : va \in SdInt, r \in SdRegs,
        g \in BOOLEAN, q \in BOOLEAN}
  \cup {[SdR("SHL_REG", va, r) EXCEPT !.sgn = g, !.round = g] : va \in SdInt \cup {"2D"},
        r \in SdRegs, g \in BOOLEAN}
  \cup {[SdR("SHL_REG", va, r) EXCEPT !.sgn = g] : va \in SdInt, r \in SdRegs, g \in BOOLEAN}
  \cup {SdR(op, va, r) : op \in {"MUL_VEC", "MLA_VEC", "MLS_VEC"}, va \in SdInt, r \in SdRegs}
  \cup {[SdR(op, va, r) EXCEPT !.imm = k] : op \in {"MUL_ELEM", "MLA_ELEM", "MLS_ELEM"},
        va \in {"4H", "8H", "2S", "4S"}, r \in SdRegs, k \in {0, 3}}
  \cup {[SdR(op, va, r) EXCEPT !.imm = k, !.sgn = g] : op \in {"MULL_ELEM", "MLAL_ELEM",
        "MLSL_ELEM"}, va \in {"4H", "8H", "2S", "4S"}, r \in SdRegs,
                    k \in {1, 3}, g \in BOOLEAN}
  \cup {[SdR(op, va, r) EXCEPT !.imm = 2] : op \in Logic \ {"RBIT_VEC", "CNT", "CLZ_VEC",
        "BIC_VEC_IMM", "ORR_VEC_IMM"}, va \in SdByte, r \in SdRegs}
  \cup {[SdR(op, va, r) EXCEPT !.imm = 3] : op \in {"RBIT_VEC", "CNT"}, va \in SdByte, r \in SdRegs}
  \cup {[SdR(op, va, r) EXCEPT !.imm = 3] : op \in {"CLZ_VEC", "CLS_VEC", "BIC_VEC_IMM",
        "ORR_VEC_IMM"}, va \in {"4H", "8H", "2S", "4S"}, r \in SdRegs}
  \cup {[SdR("EXT", va, r) EXCEPT !.imm = k] : va \in SdByte, r \in SdRegs, k \in {0, 3, 7}}
  \cup {[SdR(op, va, r) EXCEPT !.imm = k] : op \in {"TBL", "TBX"}, va \in SdByte, r \in SdRegs,
        k \in 1 .. 4}
  \cup {SdR("REV16_VEC", va, r) : va \in SdByte, r \in SdRegs}
  \cup {SdR("REV32_VEC", va, r) : va \in SdByte \cup {"4H", "8H"}, r \in SdRegs}
  \cup {SdR("REV64_VEC", va, r) : va \in SdInt, r \in SdRegs}
SdShifts ==
  {[SdR(op, va, r) EXCEPT !.imm = 1, !.sgn = g] : op \in {"SHL_IMM", "SHLL", "SHR", "SHRN"},
        va \in SdInt, r \in SdRegs, g \in BOOLEAN}
  \cup {[SdR("SRA", va, r) EXCEPT !.imm = k, !.sgn = g, !.round = q] : va \in SdInt, r \in SdRegs,
        g \in BOOLEAN, q \in BOOLEAN, k \in {1, 2}}
  \cup {[SdR("SRA", va, r) EXCEPT !.imm = k, !.sgn = g, !.scalar = TRUE] : va \in {"1D"},
        r \in SdRegs, g \in BOOLEAN, k \in {3, 16}}
  \cup {[SdR(op, "1D", r) EXCEPT !.imm = 3, !.sgn = g, !.scalar = TRUE] : op \in {"SHL_IMM",
        "SHR"}, r \in SdRegs, g \in BOOLEAN}
  \cup {[SdR(op, "4H", r) EXCEPT !.imm = 3, !.round = TRUE] : op \in {"SHR", "SHRN"}, r \in SdRegs}
  \cup {[SdR(op, va, r) EXCEPT !.sgn = g] : op \in {"XTN", "ADDLP", "ADALP"}, va \in SdInt,
        r \in SdRegs, g \in BOOLEAN}
  \cup {SdR(op, va, r) : op \in {"ABS_VEC", "NEG_VEC"}, va \in SdInt \cup {"2D"}, r \in SdRegs}
  \cup {[SdR(op, "1D", r) EXCEPT !.scalar = TRUE] : op \in {"ABS_VEC", "NEG_VEC", "ADD_VEC",
        "SUB_VEC", "CMTST", "SHL_REG"} \cup DOMAIN IntCompares
                    \cup DOMAIN FpCompares, r \in SdRegs}
  \cup {[SdR(op, va, r) EXCEPT !.sgn = g] : op \in {"ADDV", "MAXV", "MINV"}, va \in {"8B", "16B",
        "4H", "8H", "4S"}, r \in SdRegs, g \in BOOLEAN}
  \cup {SdR("ADDP", "2D", r) : r \in SdRegs}
SdFloats ==
  {SdR(op, va, r) : op \in DOMAIN FpVec \cup {"FABD_VEC", "FABS_VEC", "FNEG_VEC", "FSQRT_VEC",
        "FMLA_VEC", "FMLS_VEC", "FADDP_VEC", "FMAXP_VEC",
                    "FMAXNMP_VEC", "FMINP_VEC", "FMINNMP_VEC"} \cup DOMAIN FpCompares, va \in SdFp,
                          r \in SdRegs}
  \cup {[SdR(op, va, r) EXCEPT !.imm = k, !.scalar = sc] : op \in {"FMUL_ELEM", "FMLA_ELEM",
        "FMLS_ELEM"}, va \in SdFp, r \in SdRegs, k \in {0, 1}, sc \in BOOLEAN}
  \cup {[SdR(op, va, r) EXCEPT !.rmode = m, !.bits = b] : op \in {"FRINT_VEC", "FRINTX_VEC"},
        va \in SdFp, r \in SdRegs, m \in {"ZERO", "CURRENT"}, b \in {0, 32}}
  \cup {[SdR(op, va, r) EXCEPT !.sgn = g, !.fbits = b] : op \in {"FCVT_VEC", "CVTF_VEC"},
        va \in SdFp, r \in SdRegs, g \in BOOLEAN, b \in {0, 2}}
  \cup {[SdR(op, va, r) EXCEPT !.sgn = g, !.scalar = TRUE] : op \in {"FCVT_VEC", "CVTF_VEC",
        "FABD_VEC"}, va \in {"2S", "1D"}, r \in SdRegs, g \in BOOLEAN}
  \cup {SdR(op, va, r) : op \in {"FCVTN", "FCVTL"}, va \in {"2S", "4S", "4H"}, r \in SdRegs}
  \cup {SdR(op, "4S", r) : op \in {"FMAXV", "FMAXNMV", "FMINV", "FMINNMV"}, r \in SdRegs}
  \cup {SdR(op, va, r) : op \in {"FADDP", "FMAXP", "FMAXNMP", "FMINP", "FMINNMP"}, va \in {"2S",
        "2D"}, r \in SdRegs}
SdMoves ==
  {[SdR("DUP_ELEM", va, r) EXCEPT !.imm = k, !.scalar = sc] : va \in SdInt, r \in SdRegs, k \in {0,
        1}, sc \in BOOLEAN}
  \cup {[SdR(op, va, <<"v2", "x1", "x1">>) EXCEPT !.imm = 1, !.w32 = va # "2D"] :
        op \in {"DUP_GPR", "INS_GPR"}, va \in SdInt \cup {"2D"}}
  \cup {[SdR("INS_ELEM", va, r) EXCEPT !.imm = 1, !.dst = k] : va \in SdInt \cup {"2D"},
        r \in SdRegs, k \in {0, 1}}
  \cup {[SdR(op, va, <<"x0", "v1", "v1">>) EXCEPT !.imm = k, !.w32 = w] : op \in {"SMOV", "UMOV"},
        va \in {"16B", "8H"}, k \in {0, 3}, w \in BOOLEAN}
  \cup {[SdR("UMOV", va, <<"x0", "v1", "v1">>) EXCEPT !.imm = 1, !.w32 = va = "4S"] : va \in {"4S",
        "2D"}}
  \cup {[SdR("MOVI", va, r) EXCEPT !.imm = 3] : va \in SdInt \cup {"2D"}, r \in SdRegs}
  \cup {[SdR("MOVI", "1D", r) EXCEPT !.imm = 9, !.scalar = TRUE] : r \in SdRegs}
  \cup {[SdR("FMOV_VEC", va, r) EXCEPT !.imm = 5] : va \in SdFp, r \in SdRegs}
SdMem ==
  {[SdR(o[1], va, <<"v0", "sp", m[2]>>) EXCEPT !.rt = "v3", !.nreg = o[2], !.mode = m[1],
        !.offset = 16 * o[2]] :
     o \in {<<"LD1_MULT", 1>>, <<"LD1_MULT", 3>>, <<"LD2_MULT", 2>>, <<"LD3_MULT", 3>>,
           <<"LD4_MULT", 4>>,
            <<"ST1_MULT", 1>>, <<"ST1_MULT", 4>>, <<"ST2_MULT", 2>>, <<"ST3_MULT", 3>>,
                  <<"ST4_MULT", 4>>},
     va \in SdInt \cup {"2D"}, m \in {<<"SIMPLE", "zr">>, <<"POST", "zr">>, <<"POST", "x1">>}}
  \cup {[SdR(op, va, <<"v0", "sp", m[2]>>) EXCEPT !.rt = "v2", !.nreg = n, !.index = 1,
        !.mode = m[1], !.offset = n] :
     op \in Singles, va \in SdInt \cup {"2D"}, n \in 1 .. 4, m \in {<<"SIMPLE", "zr">>,
           <<"POST", "zr">>}}
SdAll == SdThree \cup SdShifts \cup SdFloats \cup SdMoves \cup SdMem
SdFew == {SdR("FADD_VEC", "2S", <<"v1", "v2", "v0">>),
          [SdR("LD_R", "8B", <<"v0", "sp", "zr">>) EXCEPT !.nreg = 3, !.rt = "v0", !.mode = "POST",
                !.offset = 3]}
SdInsts == <<SdFew, SdAll>>
SdStart(a, b, c) ==
             [gp |-> [x0 |-> 5, x1 |-> c, sp |-> 7],
              vec |-> [v0 |-> [k \in 1 .. 16 |-> (a \div k) % 4],
                    v1 |-> [k \in 1 .. 16 |-> IF b = 255 THEN (IF k > 12 THEN 1 ELSE 3) ELSE ((k * b) \div 3) % 4],
                       v2 |-> [k \in 1 .. 16 |-> (k * k + c) % 4],
                             v3 |-> [k \in 1 .. 16 |-> (k + a + (k \div 5)) % 4]],
              mem |-> [k \in 0 .. (MemSize - 1) |-> (k * k + k \div 3) % 4], ip |-> 20]
SdStarts == {SdStart(134, 5, 258), SdStart(134, 255, 3)}
=============================================================================
