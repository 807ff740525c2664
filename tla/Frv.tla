-------------------------------- MODULE Frv --------------------------------
(***************************************************************************)
(* The RISC-V decoder (subprojects/frvdec/frvdec.c).  A word is a function *)
(* from bit numbers to bits, so that 32-bit words stay in TLC's integers.  *)
(* Decoding gives [len, mnem, rd, rs1, rs2, rs3, imm, misc], or FRV_UNDEF  *)
(* or FRV_PARTIAL; misc is Unset where the decoder does not write it.      *)
(***************************************************************************)
EXTENDS Integers, Sequences, FiniteSets, FiniteSetsExt

CONSTANTS
  Words4,     \* 32-bit words to decode
  Words2,     \* 16-bit words to decode
  Opts,       \* "RV32", "RV64", "RV128"
  Undef,      \* FRV_UNDEF and FRV_PARTIAL
  Partial,
  Unset       \* misc of an instruction without rounding mode

FRV_REG_INV == 255

UBFX(w, start, end) == SumSet({w[b] * 2^(b - start) : b \in {b \in start .. end : w[b] = 1}})

(* (int32_t) inst >> start, or SBFXIZ: bit end is the sign.                *)
SBFX(w, start, end) == UBFX(w, start, end - 1) - w[end] * 2^(end - start)

NoMnem == ""

(* An array lookup; elements that are not given are 0.                     *)
At(table, k) == IF k < Len(table) THEN table[k + 1] ELSE NoMnem
-----------------------------------------------------------------------------
(* frv_decode4.                                                            *)

(* What an encoding has: registers, immediate, rounding mode.              *)
Enc(regs, imm, rm) == [regs |-> regs, imm |-> imm, rm |-> rm]
ENC_R == Enc({"rd", "rs1", "rs2"}, "none", FALSE)
ENC_R2 == Enc({"rd", "rs1"}, "none", FALSE)
ENC_R4 == Enc({"rd", "rs1", "rs2", "rs3"}, "none", FALSE)
ENC_I == Enc({"rd", "rs1"}, "I", FALSE)
ENC_I_SHAMT == Enc({"rd", "rs1"}, "SHAMT", FALSE)
ENC_S == Enc({"rs1", "rs2"}, "S", FALSE)
ENC_B == Enc({"rs1", "rs2"}, "B", FALSE)
ENC_U == Enc({"rd"}, "U", FALSE)
ENC_J == Enc({"rd"}, "J", FALSE)

RM(enc) == [enc EXCEPT !.rm = TRUE]

(* Opcode 0x0b: W and D for funct3 2 and 3.                                *)
AmoMnem(f7, f3) ==
  LET k == f7 \div 4
      op == CASE k = 0 -> "AMOADD" [] k = 1 -> "AMOSWAP" [] k = 2 -> "LR" [] k = 3 -> "SC"
              [] k = 4 -> "AMOXOR" [] k = 8 -> "AMOOR" [] k = 12 -> "AMOAND" [] k = 16 -> "AMOMIN"
              [] k = 20 -> "AMOMAX" [] k = 24 -> "AMOMINU" [] k = 28 -> "AMOMAXU" [] OTHER -> NoMnem
  IN IF op = NoMnem THEN <<NoMnem>> ELSE <<op, At(<<"", "", "W", "D">>, f3)>>

(* Opcodes 0x0c and 0x0e.                                                  *)
OpMnem(f7, f3) ==
  CASE f7 = 0 -> At(<<"ADD", "SLL", "SLT", "SLTU", "XOR", "SRL", "OR", "AND">>, f3)
    [] f7 = 1 -> At(<<"MUL", "MULH", "MULHSU", "MULHU", "DIV", "DIVU", "REM", "REMU">>, f3)
    [] f7 = 32 -> At(<<"SUB", "", "", "", "", "SRA">>, f3)
    [] OTHER -> NoMnem

OpMnemW(f7, f3) ==
  CASE f7 = 0 -> At(<<"ADDW", "SLLW", "", "", "", "SRLW">>, f3)
    [] f7 = 1 -> At(<<"MULW", "", "", "", "DIVW", "DIVUW", "REMW", "REMUW">>, f3)
    [] f7 = 32 -> At(<<"SUBW", "", "", "", "", "SRAW">>, f3)
    [] OTHER -> NoMnem

(* Opcode 0x14: funct7's lowest bit tells single from double.              *)
FpMnem(f7, f3, rs2) ==
  LET k == 2 * (f7 \div 2)
  IN CASE k = 0 -> <<RM(ENC_R), "FADD">> [] k = 4 -> <<RM(ENC_R), "FSUB">>
       [] k = 8 -> <<RM(ENC_R), "FMUL">> [] k = 12 -> <<RM(ENC_R), "FDIV">>
       [] f7 = 32 -> <<RM(ENC_R2), At(<<"", "FCVTSD">>, rs2)>>
       [] f7 = 33 -> <<RM(ENC_R2), At(<<"FCVTDS">>, rs2)>>
       [] k = 44 -> <<RM(ENC_R2), "FSQRT">>
       [] k = 16 -> <<ENC_R, At(<<"FSGNJ", "FSGNJN", "FSGNJX">>, f3)>>
       [] k = 20 -> <<ENC_R, At(<<"FMIN", "FMAX">>, f3)>>
       [] k = 80 -> <<ENC_R, At(<<"FLE", "FLT", "FEQ">>, f3)>>
       [] k = 96 -> <<RM(ENC_R2), At(<<"FCVTW_", "FCVTWU_", "FCVTL_", "FCVTLU_">>, rs2)>>
       [] k = 104 -> <<RM(ENC_R2), At(<<"FCVT_W", "FCVT_WU", "FCVT_L", "FCVT_LU">>, rs2)>>
       [] k = 112 -> <<ENC_R2, At(<<"FMVX", "FCLASS">>, f3)>>
       [] k = 120 -> <<ENC_R2, At(<<"FMV_X">>, f3)>>
       [] OTHER -> <<ENC_R, NoMnem>>

Format(f7) == IF f7 % 2 = 0 THEN "S" ELSE "D"

(* The switch on the opcode: <<encoding, mnemonic>>; AMOs and floating     *)
(* point mnemonics come with their size.                                   *)
Opcode4(w) ==
  LET opcode == UBFX(w, 2, 6)
      f3 == UBFX(w, 12, 14)
      f7 == UBFX(w, 25, 31)
      Shift(r, a) == IF w[30] = 1 THEN a ELSE r
      Fma(m) == <<RM(ENC_R4), IF UBFX(w, 25, 26) < 2 THEN <<m, At(<<"S", "D">>, UBFX(w, 25, 26))>> ELSE <<NoMnem>>>>
      Plain(enc, m) == <<enc, <<m>>>>
  IN CASE opcode = 0 -> Plain(ENC_I, At(<<"LB", "LH", "LW", "LD", "LBU", "LHU", "LWU">>, f3))
       [] opcode = 1 -> Plain(ENC_I, At(<<"", "", "FLW", "FLD">>, f3))
       [] opcode = 3 -> Plain(ENC_I, At(<<"FENCE", "FENCEI">>, f3))
       [] opcode = 4 -> Plain(IF f3 \in {1, 5} THEN ENC_I_SHAMT ELSE ENC_I,
                              At(<<"ADDI", "SLLI", "SLTI", "SLTIU", "XORI", Shift("SRLI", "SRAI"), "ORI", "ANDI">>, f3))
       [] opcode = 5 -> Plain(ENC_U, "AUIPC")
       [] opcode = 6 -> Plain(IF f3 = 0 THEN ENC_I ELSE ENC_I_SHAMT,
                              At(<<"ADDIW", "SLLIW", "", "", "", Shift("SRLIW", "SRAIW")>>, f3))
       [] opcode = 8 -> Plain(ENC_S, At(<<"SB", "SH", "SW", "SD">>, f3))
       [] opcode = 9 -> Plain(ENC_S, At(<<"", "", "FSW", "FSD">>, f3))
       [] opcode = 11 -> <<[ENC_R EXCEPT !.imm = "AMO"], AmoMnem(f7, f3)>>
       [] opcode = 12 -> Plain(ENC_R, OpMnem(f7, f3))
       [] opcode = 13 -> Plain(ENC_U, "LUI")
       [] opcode = 14 -> Plain(ENC_R, OpMnemW(f7, f3))
       [] opcode = 16 -> Fma("FMADD") [] opcode = 17 -> Fma("FMSUB")
       [] opcode = 18 -> Fma("FNMSUB") [] opcode = 19 -> Fma("FNMADD")
       [] opcode = 20 -> LET fp == FpMnem(f7, f3, UBFX(w, 20, 24))
                         IN <<fp[1], IF fp[2] = NoMnem THEN <<NoMnem>> ELSE <<fp[2], Format(f7)>>>>
       [] opcode = 24 -> Plain(ENC_B, At(<<"BEQ", "BNE", "", "", "BLT", "BGE", "BLTU", "BGEU">>, f3))
       [] opcode = 25 -> Plain(ENC_I, "JALR")
       [] opcode = 27 -> Plain(ENC_J, "JAL")
       [] opcode = 28 -> Plain(ENC_I, At(<<"ECALL", "CSRRW", "CSRRS", "CSRRC", "", "CSRRWI", "CSRRSI", "CSRRCI">>, f3))
       [] OTHER -> Plain(ENC_R, NoMnem)

Imm4_low(w, imm) ==
  CASE imm = "U" -> SBFX(w, 12, 31) * 4096
    [] imm = "S" -> SBFX(w, 25, 31) * 32 + UBFX(w, 7, 11)
    [] imm = "J" -> UBFX(w, 12, 19) * 2^12 + w[20] * 2^11 + UBFX(w, 21, 30) * 2 - w[31] * 2^20
    [] imm = "B" -> w[31] * 2^11 + UBFX(w, 25, 30) * 32 + UBFX(w, 8, 11) * 2 - w[31] * 2^12
    [] imm = "SHAMT" -> UBFX(w, 20, 25)
    [] imm = "AMO" -> UBFX(w, 25, 26)
    [] OTHER -> SBFX(w, 20, 31)

(* The immediates, from shifts and masks of the word.                      *)
Imm4(w, imm) ==
  CASE imm = "U" -> SBFX(w, 12, 31) * 4096
    [] imm = "I" -> SBFX(w, 20, 31)
    [] imm = "S" -> SBFX(w, 25, 31) * 32 + UBFX(w, 7, 11)
    [] imm = "J" -> UBFX(w, 12, 19) * 2^12 + w[20] * 2^11 + UBFX(w, 21, 30) * 2 - w[31] * 2^20
    [] imm = "B" -> w[7] * 2^11 + UBFX(w, 25, 30) * 32 + UBFX(w, 8, 11) * 2 - w[31] * 2^12
    [] imm = "SHAMT" -> UBFX(w, 20, 25)
    [] imm = "AMO" -> UBFX(w, 25, 26)
    [] OTHER -> 0

frv_decode4(w) ==
  LET op == Opcode4(w)
      enc == op[1]
      Reg(r, start) == IF r \in enc.regs THEN UBFX(w, start, start + 4) ELSE FRV_REG_INV
  IN IF \E k \in DOMAIN op[2] : op[2][k] = NoMnem THEN Undef
     ELSE [len |-> 4, mnem |-> op[2], rd |-> Reg("rd", 7), rs1 |-> Reg("rs1", 15),
           rs2 |-> Reg("rs2", 20), rs3 |-> Reg("rs3", 27), imm |-> Imm4(w, enc.imm),
           misc |-> IF enc.rm THEN UBFX(w, 12, 14) ELSE Unset]
-----------------------------------------------------------------------------
(* frv_decode2.                                                            *)

(* The immediates of compressed instructions.                              *)
Imm2(w, enc) ==
  LET Sign(shl) == -w[12] * 2^shl
      U(start, end, shl) == UBFX(w, start, end) * 2^shl
  IN CASE enc = "I_NONE" -> 0 [] enc = "I_EBREAK" -> 1
       [] enc \in {"I_5_40", "NZI_5_40"} -> Sign(5) + U(2, 6, 0)
       [] enc = "NZI_9_4_6_87_5" -> Sign(9) + U(3, 4, 7) + U(5, 5, 6) + U(2, 2, 5) + U(6, 6, 4)
       [] enc = "NZU_54_96_2_3" -> U(7, 10, 6) + U(11, 12, 4) + U(5, 5, 3) + U(6, 6, 2)
       [] enc = "U_53_76" -> U(5, 6, 6) + U(10, 12, 3)
       [] enc = "U_53_26" -> U(5, 5, 6) + U(10, 12, 3) + U(6, 6, 2)
       [] enc = "U_5_43_86" -> U(2, 4, 6) + U(12, 12, 5) + U(5, 6, 3)
       [] enc = "U_5_42_76" -> U(2, 3, 6) + U(12, 12, 5) + U(4, 6, 2)
       [] enc = "U_52_76" -> U(7, 8, 6) + U(9, 12, 2)
       [] enc = "U_53_86" -> U(7, 9, 6) + U(10, 12, 3)
       [] enc = "NZU_5_40" -> U(12, 12, 5) + U(2, 6, 0)
       [] enc = "I_8_43_76_21_5" -> Sign(8) + U(5, 6, 6) + U(2, 2, 5) + U(10, 11, 3) + U(3, 4, 1)
       [] enc = "I_11_4_98_10_6_7_31_5" ->
            Sign(11) + U(8, 8, 10) + U(9, 10, 8) + U(6, 6, 7) + U(7, 7, 6) + U(2, 2, 5) + U(11, 11, 4) + U(3, 5, 1)
       [] enc = "NZI_17_1612" -> Sign(17) + U(2, 6, 12)

NonZero == {"NZU_54_96_2_3", "NZI_5_40", "NZU_5_40", "NZI_9_4_6_87_5", "NZI_17_1612"}

C(mnem, rd, rs1, rs2, imm) == [mnem |-> mnem, rd |-> rd, rs1 |-> rs1, rs2 |-> rs2, imm |-> imm]

None2 == C(NoMnem, 0, 0, 0, "I_NONE")

(* The switch on inst & 0xe003: the quadrant (bits 1..0) and bits 15..13.  *)
Opcode2(w, opt) ==
  LET rs2f == UBFX(w, 2, 6)
      rs2c == UBFX(w, 2, 4) + 8
      rs1f == UBFX(w, 7, 11)
      rs1c == UBFX(w, 7, 9) + 8
      inv == FRV_REG_INV
      If(cond, c) == IF cond THEN c ELSE None2
      rv32 == opt = "RV32"
      rv128 == opt = "RV128"
  IN <<<<C("ADDI", rs2c, 2, inv, "NZU_54_96_2_3"),
         If(~rv128, C("FLD", rs2c, rs1c, inv, "U_53_76")),
         C("LW", rs2c, rs1c, inv, "U_53_26"),
         IF rv32 THEN C("FLW", rs2c, rs1c, inv, "U_53_26") ELSE C("LD", rs2c, rs1c, inv, "U_53_76"),
         None2,
         If(~rv128, C("FSD", inv, rs1c, rs2c, "U_53_76")),
         C("SW", inv, rs1c, rs2c, "U_53_26"),
         IF rv32 THEN C("FSW", inv, rs1c, rs2c, "U_53_26") ELSE C("SD", inv, rs1c, rs2c, "U_53_76")>>,
       <<C("ADDI", rs1f, rs1f, inv, "NZI_5_40"),
         IF rv32 THEN C("JAL", 1, inv, inv, "I_11_4_98_10_6_7_31_5")
         ELSE If(rs1f # 0, C("ADDIW", rs1f, rs1f, inv, "I_5_40")),
         If(rs1f # 0, C("ADDI", rs1f, 0, inv, "I_5_40")),
         CASE rs1f = 0 -> None2
           [] rs1f = 2 -> C("ADDI", rs1f, rs1f, inv, "NZI_9_4_6_87_5")
           [] OTHER -> C("LUI", rs1f, inv, inv, "NZI_17_1612"),
         CASE UBFX(w, 10, 11) = 0 -> C("SRLI", rs1c, rs1c, inv, "NZU_5_40")
           [] UBFX(w, 10, 11) = 1 -> C("SRAI", rs1c, rs1c, inv, "NZU_5_40")
           [] UBFX(w, 10, 11) = 2 -> C("ANDI", rs1c, rs1c, inv, "I_5_40")
           [] OTHER -> C(At(<<"SUB", "XOR", "OR", "AND", "SUBW", "ADDW">>, UBFX(w, 5, 6) + w[12] * 4),
                         rs1c, rs1c, rs2c, "I_NONE"),
         C("JAL", 0, inv, inv, "I_11_4_98_10_6_7_31_5"),
         C("BEQ", inv, rs1c, 0, "I_8_43_76_21_5"),
         C("BNE", inv, rs1c, 0, "I_8_43_76_21_5")>>,
       <<C("SLLI", rs1f, rs1f, inv, "NZU_5_40"),
         If(~rv128, C("FLD", rs1f, 2, inv, "U_5_43_86")),
         C("LW", rs1f, 2, inv, "U_5_42_76"),
         IF rv32 THEN C("FLW", rs1f, 2, inv, "U_5_42_76") ELSE C("LD", rs1f, 2, inv, "U_5_43_86"),
         CASE rs1f = 0 -> If(w[12] = 1, C("ECALL", inv, inv, inv, "I_EBREAK"))
           [] rs1f # 0 /\ rs2f = 0 -> C("JALR", w[12], rs1f, inv, "I_NONE")
           [] OTHER -> C("ADD", rs1f, IF w[12] = 0 THEN 0 ELSE rs1f, rs2f, "I_NONE"),
         If(~rv128, C("FSD", inv, 2, rs2f, "U_53_86")),
         C("SW", inv, 2, rs2f, "U_52_76"),
         IF rv32 THEN C("FSW", inv, 2, rs2f, "U_52_76") ELSE C("SD", inv, 2, rs2f, "U_53_86")>>
     >>[UBFX(w, 0, 1) + 1][UBFX(w, 13, 15) + 1]

(* An immediate that may not be zero is zero only in C.NOP.                *)
frv_decode2(w, opt) ==
  LET c == Opcode2(w, opt)
  IN CASE c.mnem = NoMnem -> Undef
       [] c.mnem # NoMnem /\ c.imm \in NonZero /\ Imm2(w, c.imm) = 0 /\ (c.rd # 0 \/ c.mnem # "ADDI") -> Undef
       [] OTHER -> [len |-> 2, mnem |-> <<c.mnem>>, rd |-> c.rd, rs1 |-> c.rs1, rs2 |-> c.rs2,
                    rs3 |-> FRV_REG_INV, imm |-> Imm2(w, c.imm), misc |-> Unset]

(* bufsz bytes are there.                                                  *)
frv_decode(bufsz, w, opt) ==
  CASE bufsz < 2 -> Partial
    [] bufsz >= 2 /\ UBFX(w, 0, 1) # 3 -> frv_decode2(w, opt)
    [] bufsz >= 2 /\ UBFX(w, 0, 1) = 3 /\ UBFX(w, 2, 4) # 7 -> IF bufsz < 4 THEN Partial ELSE frv_decode4(w)
    [] OTHER -> Undef
-----------------------------------------------------------------------------
(* One word is decoded.                                                    *)
VARIABLES
  job,        \* [w, opt, bufsz], the word to decode
  inst        \* the result, or "none"

vars == <<job, inst>>

Init ==
  /\ \/ \E w \in Words4, bufsz \in {1, 2, 4} : job = [w |-> w, opt |-> "RV64", bufsz |-> bufsz]
     \/ \E w \in Words2, opt \in Opts, bufsz \in {1, 2} : job = [w |-> w, opt |-> opt, bufsz |-> bufsz]
  /\ inst = [len |-> 0]

Decode == inst = [len |-> 0] /\ inst' = frv_decode(job.bufsz, job.w, job.opt) /\ UNCHANGED job

Decoded == inst # [len |-> 0] /\ UNCHANGED vars

Next == Decode \/ Decoded

Spec == Init /\ [][Next]_vars
-----------------------------------------------------------------------------
(* The manual's immediates: the numbers of the immediate's bits, from the  *)
(* word's bit hi downwards.                                                *)
Placed(w, hi, bits) == SumSet({w[hi + 1 - k] * 2^bits[k] : k \in {k \in DOMAIN bits : w[hi + 1 - k] = 1}})

Down(a, b) == [k \in 1 .. (a - b + 1) |-> a + 1 - k]

(* ... as a number of n bits.                                              *)
AsSigned(v, n) == IF v >= 2^(n - 1) THEN v - 2^n ELSE v

Manual4(w, fmt) ==
  CASE fmt = "I" -> AsSigned(Placed(w, 31, Down(11, 0)), 12)
    [] fmt = "S" -> AsSigned(Placed(w, 31, Down(11, 5)) + Placed(w, 11, Down(4, 0)), 12)
    [] fmt = "B" -> AsSigned(Placed(w, 31, <<12>> \o Down(10, 5)) + Placed(w, 11, Down(4, 1) \o <<11>>), 13)
    [] fmt = "J" -> AsSigned(Placed(w, 31, <<20>> \o Down(10, 1) \o <<11>> \o Down(19, 12)), 21)

Manual2(w, imm) ==
  LET C12(bits) == Placed(w, 12, bits)
      C6(bits) == Placed(w, 6, bits)
  IN CASE imm = "ADDI4SPN" -> C12(<<5, 4, 9, 8, 7, 6, 2, 3>>)
       [] imm = "LW" -> C12(Down(5, 3)) + C6(<<2, 6>>)
       [] imm = "LD" -> C12(Down(5, 3)) + C6(<<7, 6>>)
       [] imm = "ADDI" -> AsSigned(C12(<<5>>) + C6(Down(4, 0)), 6)
       [] imm = "SLLI" -> C12(<<5>>) + C6(Down(4, 0))
       [] imm = "ADDI16SP" -> AsSigned(C12(<<9>>) + C6(<<4, 6, 8, 7, 5>>), 10)
       [] imm = "LUI" -> AsSigned(C12(<<17>>) + C6(Down(16, 12)), 18)
       [] imm = "J" -> AsSigned(C12(<<11, 4, 9, 8, 10, 6, 7, 3, 2, 1, 5>>), 12)
       [] imm = "B" -> AsSigned(C12(<<8, 4, 3>>) + C6(<<7, 6, 2, 1, 5>>), 9)
       [] imm = "LWSP" -> C12(<<5>>) + C6(<<4, 3, 2, 7, 6>>)
       [] imm = "LDSP" -> C12(<<5>>) + C6(<<4, 3, 8, 7, 6>>)
       [] imm = "SWSP" -> C12(<<5, 4, 3, 2, 7, 6>>)
       [] imm = "SDSP" -> C12(<<5, 4, 3, 8, 7, 6>>)

(* The immediate an instruction of this quadrant and mnemonic has.         *)
Format2(q, i) ==
  LET m == i.mnem[1]
  IN CASE q = 0 -> CASE m = "ADDI" -> "ADDI4SPN" [] m \in {"LW", "SW", "FLW", "FSW"} -> "LW" [] OTHER -> "LD"
       [] q = 1 -> CASE m \in {"SRLI", "SRAI"} -> "SLLI" [] m = "LUI" -> "LUI" [] m = "JAL" -> "J"
                     [] m \in {"BEQ", "BNE"} -> "B" [] m = "ADDI" /\ i.rd = 2 /\ job.w[14] = 1 /\ job.w[13] = 1 -> "ADDI16SP"
                     [] OTHER -> "ADDI"
       [] q = 2 -> CASE m = "SLLI" -> "SLLI" [] m \in {"LW", "FLW"} -> "LWSP" [] m \in {"LD", "FLD"} -> "LDSP"
                     [] m \in {"SW", "FSW"} -> "SWSP" [] OTHER -> "SDSP"

Format4(i) ==
  LET m == i.mnem[1]
  IN CASE m \in {"SB", "SH", "SW", "SD", "FSW", "FSD"} -> "S" [] m = "JAL" -> "J"
       [] m \in {"BEQ", "BNE", "BLT", "BGE", "BLTU", "BGEU"} -> "B" [] OTHER -> "I"

Shifts == {"SLLI", "SRLI", "SRAI", "SLLIW", "SRLIW", "SRAIW"}

HasImm4 == {"SB", "SH", "SW", "SD", "FSW", "FSD", "JAL", "BEQ", "BNE", "BLT", "BGE", "BLTU", "BGEU", "LB", "LH",
            "LW", "LD", "LBU", "LHU", "LWU", "FLW", "FLD", "ADDI", "SLTI", "SLTIU", "XORI", "ORI", "ANDI", "ADDIW",
            "JALR", "FENCE", "FENCEI", "ECALL", "CSRRW", "CSRRS", "CSRRC", "CSRRWI", "CSRRSI", "CSRRCI"}

(* "TODO: check rs2", "TODO: check funct3", and the bits beside a shift's  *)
(* amount.                                                                 *)
Unchecked(i) ==
  CASE i.mnem[1] = "JALR" -> 12 .. 14
    [] i.mnem[1] \in {"FSQRT", "FMVX", "FCLASS", "FMV_X"} -> 20 .. 24
    [] i.mnem[1] \in {"SLLI", "SLLIW"} -> 26 .. 31
    [] i.mnem[1] \in Shifts -> (26 .. 31) \ {30}
    [] OTHER -> {}

Flip(w, b) == [w EXCEPT ![b] = 1 - w[b]]

(* Decoding keeps what the word says (frvdec.c).  A 32-bit instruction     *)
(* depends on every bit of its word but the unchecked ones: no two words   *)
(* are mistaken for each other.  The immediates, gathered by shifts and    *)
(* masks, are those of the manual's tables; the word zero is undefined.    *)
(* A short buffer is partial, never undefined and never read past its end. *)
(* The rounding mode is there for the instructions the lifter rounds.      *)
DecodesRight ==
  LET w == job.w
      long == w[0] = 1 /\ w[1] = 1
  IN inst # [len |-> 0] =>
       CASE inst = Partial -> job.bufsz < (IF long THEN 4 ELSE 2)
         [] inst = Undef -> job.bufsz >= 2 /\ (long /\ UBFX(w, 2, 4) # 7 => job.bufsz = 4)
         [] OTHER ->
              /\ \E b \in 0 .. 15 : w[b] = 1
              /\ inst.len <= job.bufsz /\ inst.len = (IF long THEN 4 ELSE 2)
              /\ long => /\ \A b \in (0 .. 31) \ Unchecked(inst) : frv_decode(4, Flip(w, b), job.opt) # inst
                         /\ inst.mnem[1] \in HasImm4 => inst.imm = Manual4(w, Format4(inst))
                         /\ inst.mnem[1] \in {"FCVTW_", "FCVTL_", "FADD", "FMADD", "FCVT_W"} => inst.misc # Unset
              /\ ~long => IF inst.mnem[1] \in {"ADD", "SUB", "XOR", "OR", "AND", "SUBW", "ADDW", "JALR"} THEN inst.imm = 0
                          ELSE inst.mnem[1] # "ECALL" => inst.imm = Manual2(w, Format2(UBFX(w, 0, 1), inst))
=============================================================================
