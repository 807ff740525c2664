---------------------------- MODULE MCElfLoader -----------------------------
(* The guest's program: how the ELF loader maps it, how the client around  *)
(* starts it, and what its x86-64 instructions do once they are lifted.    *)
(* Init chooses the component a behaviour is about, the others idle.       *)
(*                                                                         *)
(* Programs of one or two segments in pages of four bytes, with every      *)
(* position of the start, the end of the data and the end of the segment   *)
(* in a page, and an interpreter of one segment.  The headers ascend and   *)
(* share no page, as a linker writes them.                                 *)
EXTENDS ElfLoader

CONSTANTS Absent, Undef

Segments(first, offset) ==
  {[vaddr |-> first + d, offset |-> offset + d, filesz |-> f, memsz |-> f + z, w |-> w] :
     d \in {0, 1}, f \in {0, 2, 3, 5}, z \in {0, 1, 4}, w \in BOOLEAN}

(* The second segment follows on the next page; one whose offset does not  *)
(* match its address cannot be mapped.                                     *)
Data == {[vaddr |-> 13, offset |-> 9, filesz |-> 1, memsz |-> 2, w |-> TRUE],
         [vaddr |-> 12, offset |-> 8, filesz |-> 2, memsz |-> 2, w |-> FALSE],
         [vaddr |-> 12, offset |-> 9, filesz |-> 1, memsz |-> 1, w |-> TRUE]}

Loads ==
  {<<s>> : s \in {t \in Segments(0, 0) : t.memsz > 0}}
    \cup {<<s, d>> : s \in {t \in Segments(0, 4) : t.memsz > 0}, d \in Data}

Good(loads, type, interp) ==
  [valid |-> TRUE, phdrs |-> TRUE, type |-> type, interp |-> interp, len |-> 11, loads |-> loads]

Unreadable == [Good(<<>>, "DYN", "no") EXCEPT !.valid = FALSE]

MCExes ==
  {Good(l, t, i) : l \in Loads, t \in {"EXEC", "DYN"}, i \in {"no", "name"}}
    \cup {Unreadable, [Good(<<>>, "EXEC", "no") EXCEPT !.phdrs = FALSE],
          Good(<<>>, "DYN", "length")}

MCInterps ==
  {Good(<<[vaddr |-> 1, offset |-> 1, filesz |-> 2, memsz |-> 5, w |-> FALSE]>>, "DYN", "no"),
   Unreadable}

VARIABLES
  comp,   \* "loader", "startup", "x86" or "sse"
  s_pc, start, image, base, words, argv, environ, auxv, info, stack, regs, status,   \* Startup
  lifted, arch, insts                                                                \* X86Code

(* Stacks with one to five arguments, an environment of none to three      *)
(* strings, and auxiliary values of a root and an ordinary user; client    *)
(* images without relocations, with one or both tables, with a foreign     *)
(* relocation type and with a bad header size.                             *)
StNumbers(first, k) == [i \in 1..k |-> first + i]
StStacks ==
  {[args |-> StNumbers(100, a), env |-> StNumbers(200, e),
    aux |-> <<<<6, 4096>>, <<11, u>>, <<12, u>>, <<13, 7>>, <<25, 300>>>>] :
     a \in 1..5, e \in 0..3, u \in {0, 1000}}

(* Three words; tables at addresses 16 (REL) and 32 (RELA).                *)
StImage(dyn, rel, rela, linked, moved) ==
  [phent |-> TRUE, phdrs |-> <<<<"LOAD", 0>>, <<"DYNAMIC", 40>>>>, dynamic |-> 40, dyn |-> dyn,
   tables |-> [a \in {0, 16, 32} |-> CASE a = 0 -> <<>> [] a = 16 -> rel [] a = 32 -> rela],
   words |-> <<5, 6, 7>>, linked |-> linked, moved |-> moved]
StPlain == StImage(<<>>, <<>>, <<>>, <<5, 6, 7>>, <<0, 0, 0>>)
StRela ==
  StImage(<<<<"OTHER", 3>>, <<"RELA", 32>>, <<"RELASZ", 2>>>>, <<>>,
          <<<<1, "RELATIVE", 70>>, <<3, "RELATIVE", 90>>, <<2, "RELATIVE", 0>>>>,
          <<70, 6, 90>>, <<1, 0, 1>>)
StBoth ==
  StImage(<<<<"RELASZ", 1>>, <<"RELA", 32>>, <<"REL", 16>>, <<"RELSZ", 1>>>>,
          <<<<2, "RELATIVE">>>>, <<<<1, "RELATIVE", 70>>>>, <<70, 6, 7>>, <<1, 1, 0>>)
StForeign == [StRela EXCEPT !.tables[32][2][2] = "COPY"]
StImages == {StPlain, StRela, StBoth, StForeign, [StPlain EXCEPT !.phent = FALSE]}
StBases == {0, 1000}

S == INSTANCE Startup WITH Stacks <- StStacks, Images <- StImages, Bases <- StBases,
                           StackEnd <- 4096, pc <- s_pc

ASSUME StartupAssumption == S!StartupOK

(* Bytes of two bits, so that a 64-bit register has 16: every width, carry *)
(* and sign of the originals is there.                                     *)
XRegs == <<"XMM0", "XMM1">>
XCpu == [x \in (0..255) \X (0..255) |-> <<(x[1] * 259 + x[2]) % 65536, 4660>>]

XMemSize == 48

XPairs ==
  {<<0, 0>>, <<0, 1>>, <<6, 3>>, <<6, 65408>>, <<181, 127>>, <<32770, 1>>, <<32770, 127>>,
   <<65535, 3>>, <<65535, 65408>>}

XStart(a, c) ==
  [gp |-> [RAX |-> a, RCX |-> c, RDX |-> 1, RBX |-> 3, RSP |-> 8, RBP |-> 5, RSI |-> 2, RDI |-> 9, R11 |-> 0],
    vec |-> [XMM0 |-> [k \in 1..16 |-> (k * k + c) % 4],
             XMM1 |-> [k \in 1..16 |-> IF k <= 8 /\ a = 6 THEN 3 ELSE (k + a \div 3) % 4]],
    fl |-> [ZF |-> 0, SF |-> 1, PF |-> 1, CF |-> 0, OF |-> 0, AF |-> 1, DF |-> 0],
    mem |-> [x \in 0..(XMemSize - 1) |-> (x * x + x \div 4) % 4]]

XStarts == {XStart(p[1], p[2]) : p \in XPairs}

X == INSTANCE X86Code WITH ByteBits <- 2, MemSize <- XMemSize, FxHead <- 5, VecRegs <- XRegs,
       FsBase <- 7, Tsc <- 4660, CpuInfo <- XCpu, Starts <- XStarts,
       MaxInsts <- 2, MaxCount <- 4

(* Blocks of two x86-64 instructions.                                      *)
R(r, sz) == [k |-> "reg", sz |-> sz, r |-> r, high |-> FALSE]
H(r) == [k |-> "reg", sz |-> 1, r |-> r, high |-> TRUE]
I(v, sz) == [k |-> "imm", sz |-> sz, v |-> v]
P(v) == [k |-> "pcrel", sz |-> 8, v |-> v]
M(sz, b, index, scale, off) ==
  [k |-> "mem", sz |-> sz, base |-> b, index |-> index, scale |-> scale, off |-> off,
   seg |-> "DS", addrsz |-> 8]
V(r) == [k |-> "vec", sz |-> 16, r |-> r]
Ins(t, op) == [t |-> t, op |-> op, opsz |-> 8, addrsz |-> 8, rep |-> "", cc |-> 0]
Sz(t, w) == [Ins(t, <<>>) EXCEPT !.opsz = w]

Sizes == {1, 2, 4, 8}
Mems(sz) == {M(sz, "RBX", Absent, 0, 0), M(sz, "RBX", "RCX", 2, 4), M(sz, "RSP", "RAX", 4, 3)}
Dsts(sz) == {R("RAX", sz), M(sz, "RBX", "RCX", 2, 4)} \cup IF sz = 1 THEN {H("RAX")} ELSE {}
Srcs(sz) == {R("RCX", sz), I(-1, sz), I(5, sz)} \cup IF sz = 1 THEN {H("RCX")} ELSE {}
AnyDst(sizes) == UNION {Dsts(w) : w \in sizes}

Two(ts, sizes) == UNION {{Ins(t, <<d, s>>) : t \in ts, d \in Dsts(w), s \in Srcs(w)} : w \in sizes}
One(ts, sizes) == {Ins(t, <<d>>) : t \in ts, d \in AnyDst(sizes)}

(* The general-purpose instructions: every operation in every width, with  *)
(* registers, the high byte of one, memory and immediates.                 *)
GpArith ==
  Two({"MOV", "ADD", "ADC", "SUB", "SBB", "CMP", "AND", "OR", "XOR", "TEST"}, Sizes)
    \cup {i \in Two({"XADD", "XCHG", "CMPXCHG"}, Sizes) : i.op[2].k = "reg"}
    \cup {Ins("CMPXCHG", <<R("RDX", w), R("RCX", w)>>) : w \in Sizes}
    \cup {i \in {Ins(t, <<R("RAX", w), s>>) : t \in {"MOVZX", "MOVSX"}, w \in {2, 4, 8},
                                             s \in {R("RCX", 1), H("RCX"), R("RCX", 2)}} :
            i.op[2].sz < i.op[1].sz}
    \cup One({"NOT", "NEG", "INC", "DEC"}, Sizes)
    \cup One({"MUL", "IMUL", "DIV", "IDIV"}, {1, 2, 4})
    \cup {Ins("IMUL", <<R("RAX", w), R("RCX", w)>>) : w \in {2, 4}}
    \cup {Ins("IMUL", <<R("RDX", w), R("RCX", w), I(-3, w)>>) : w \in {2, 4}}
    \cup {Ins("LEA", <<R("RDX", w), m>>) : w \in {2, 4, 8}, m \in Mems(8)}
    \cup {Sz(t, w) : t \in {"C_EX", "C_SEP"}, w \in {2, 4, 8}}

GpBits ==
  {Ins(t, <<d, s>>) : t \in {"SHL", "SHR", "SAR", "ROL", "ROR"}, d \in AnyDst(Sizes),
                      s \in {R("RCX", 1), I(1, 1), I(2, 1), I(7, 1)}}
    \cup {Ins(t, <<d, R("RDX", d.sz), s>>) : t \in {"SHLD", "SHRD"}, d \in AnyDst({2, 4, 8}),
                                             s \in {R("RCX", 1), I(2, 1)}}
    \cup {Ins(t, <<R("RDX", w), R("RAX", w)>>) : t \in {"BSF", "BSR"}, w \in {2, 4, 8}}
    \cup {Ins(t, <<d, s>>) : t \in {"BT", "BTC", "BTR", "BTS"}, d \in Dsts(2),
                             s \in {R("RCX", 2), I(3, 2)}}
    \cup {Ins(t, <<d, s>>) : t \in {"BT", "BTC", "BTR", "BTS"}, d \in Dsts(4),
                             s \in {R("RAX", 4), R("RCX", 4), I(-2, 4)}}
    \cup {Ins("BSWAP", <<R("RAX", w)>>) : w \in {4, 8}}
    \cup {Ins("MOVBE", <<R("RAX", w), M(w, "RBX", Absent, 0, 0)>>) : w \in {2, 4, 8}}

GpControl ==
  {[Ins("CMOV", <<R("RDX", w), R("RCX", w)>>) EXCEPT !.cc = c] : w \in {2, 4, 8}, c \in 0..15}
    \cup {[Ins("SET", <<R("RDX", 1)>>) EXCEPT !.cc = c] : c \in 0..15}
    \cup {[Ins("J", <<P(4)>>) EXCEPT !.cc = c] : c \in 0..15}
    \cup {Ins(t, <<>>) : t \in {"NOP", "PUSHF", "POPF", "LEAVE", "RET", "SYSCALL", "CPUID", "RDTSC",
                                "XLATB", "CLC", "STC", "CMC", "CLD", "STD", "UD2"}}
    \cup {Ins("PUSH", <<o>>) : o \in {R("RAX", 8), R("RSP", 8), R("RCX", 2), I(-2, 8),
                                      M(8, "RBX", Absent, 0, 0)}}
    \cup {Ins("POP", <<o>>) : o \in {R("RAX", 8), R("RSP", 8), M(8, "RSP", Absent, 0, 2)}}
    \cup {Ins(t, <<o>>) : t \in {"CALL", "JMP"}, o \in {R("RAX", 8), P(-3), M(8, "RSP", Absent, 0, 1)}}
    \cup {Ins("RET", <<I(2, 2)>>)}
    \cup {[Ins(t, <<P(5)>>) EXCEPT !.addrsz = w] : t \in {"JCXZ", "LOOP", "LOOPZ", "LOOPNZ"}, w \in {4, 8}}
    \cup {[Sz(t, w) EXCEPT !.rep = r] : t \in {"STOS", "MOVS", "SCAS", "CMPS"}, w \in Sizes,
                                        r \in {"", "REP", "REPNZ"}}

(* A first instruction that leaves facets, flags or the direction behind.  *)
GpFew ==
  {Ins(t, <<>>) : t \in {"NOP", "STD", "STC"}}
    \cup {Ins("MOV", <<H("RAX"), R("RAX", 1)>>), Ins("MOV", <<R("RAX", 2), R("RCX", 2)>>),
          Ins("MOV", <<R("RCX", 4), R("RAX", 4)>>), Ins("SUB", <<R("RAX", 8), R("RCX", 8)>>),
          Ins("MOV", <<R("RDX", 8), I(0, 8)>>), Ins("CMP", <<R("RAX", 1), H("RAX")>>)}

GpBlocks == <<GpFew, GpArith \cup GpBits \cup GpControl>>

(* The SSE instructions, with a register, the same register and memory.    *)
X0 == V("XMM0")
X1 == V("XMM1")
VM(sz) == M(sz, "RBX", Absent, 0, 0)

SseCompare == {"CMPSS", "CMPSD", "CMPPS", "CMPPD"}
SseShift == {"PSLLW", "PSLLD", "PSLLQ", "PSRLW", "PSRLD", "PSRLQ", "PSRAW", "PSRAD"}
SseMove == {"MOVSS", "MOVSD", "MOVUPS", "MOVAPD", "MOVDQU"}
SseHalf == {"MOVLPS", "MOVLPD", "MOVHPS", "MOVHPD"}
SseTwo ==
  UNION {DOMAIN X!FpBinOps, DOMAIN X!Minmaxes, DOMAIN X!IntBinOps, DOMAIN X!Andns, DOMAIN X!Saturates,
         DOMAIN X!Pcmps, DOMAIN X!Pminmaxes, DOMAIN X!Pabses, SseShift, SseMove}
    \cup {"ADDSUBPD", "ADDSUBPS", "PAVGB", "PAVGW", "PMULHUW", "PMULHW", "SQRTPD", "SQRTPS", "SQRTSD",
          "SQRTSS", "UCOMISS", "COMISD", "PUNPCKLBW", "PUNPCKLWD", "UNPCKLPS", "PUNPCKLQDQ", "PUNPCKHBW",
          "PUNPCKHWD", "PUNPCKHDQ", "UNPCKHPD", "PHADDW", "PHADDD", "PHSUBW", "PHSUBD", "HADDPS",
          "HSUBPD", "PACKSSWB", "PACKSSDW", "PACKUSWB", "PACKUSDW", "CVTDQ2PD", "CVTTPD2DQ",
          "CVTTPS2DQ", "CVTPS2PD", "CVTSD2SS", "PMULUDQ", "PMULDQ", "PMADDWD", "PSADBW", "PMOVSXBW",
          "PMOVZXBW", "PMOVSXWQ", "PMOVZXWQ", "PMOVSXDQ", "PMOVZXDQ", "MOVDDUP", "MOVSLDUP", "MOVSHDUP"}

SseAll ==
  {Ins(t, <<X0, s>>) : t \in SseTwo, s \in {X0, X1, VM(16)}}
    \cup {Ins(t, <<X0, s, I(v, 1)>>) : t \in {"SHUFPD", "SHUFPS", "PSHUFD", "PSHUFLW", "INSERTPS"},
                                      s \in {X0, X1, VM(16)}, v \in {0, 27, 177, 228, 2}}
    \cup {Ins(t, <<X0, s, I(v, 1)>>) : t \in SseCompare, s \in {X1, VM(16)}, v \in 0..7}
    \cup {Ins(t, <<VM(16), X0>>) : t \in SseMove \cup SseHalf \cup {"MOVNTDQ"}}
    \cup {Ins(t, <<X0, VM(8)>>) : t \in SseHalf}
    \cup {Ins(t, <<X0, X1>>) : t \in {"MOVHLPS", "MOVLHPS"}}
    \cup UNION {{Ins("MOVD", <<X0, o>>), Ins("MOVD", <<o, X0>>)} : o \in {R("RAX", 4), VM(4)}}
    \cup UNION {{Ins("MOVQ", <<X0, o>>), Ins("MOVQ", <<o, X0>>)} : o \in {R("RAX", 8), VM(8)}}
    \cup {Ins("MOVQ", <<X0, X1>>)}
    \cup {Ins(t, <<X0, I(v, 1)>>) : t \in SseShift \cup {"PSLLDQ", "PSRLDQ"}, v \in {0, 3, 4, 17}}
    \cup {Ins("PMOVMSKB", <<R("RDX", 8), X0>>), Ins("MOVMSKPS", <<R("RDX", 4), X0>>),
          Ins("MOVMSKPD", <<R("RDX", 4), X0>>)}
    \cup {Ins("CVTTSS2SI", <<R("RDX", w), o>>) : w \in {4, 8}, o \in {X0, VM(4)}}
    \cup {Ins("CVTSI2SD", <<X0, R("RAX", w)>>) : w \in {4, 8}}
    \cup {Ins(t, <<X0, R("RAX", 8), I(v, 1)>>) : t \in {"PINSRB", "PINSRW", "PINSRD", "PINSRQ"}, v \in {0, 1, 19}}
    \cup {Ins(t, <<R("RDX", 8), X0, I(v, 1)>>) : t \in {"PEXTRB", "PEXTRW", "EXTRACTPS"}, v \in {0, 1, 19}}
    \cup {Ins("PINSRW", <<X0, VM(2), I(3, 1)>>), Ins("PEXTRW", <<VM(2), X0, I(3, 1)>>)}
    \cup {Ins(t, <<VM(8)>>) : t \in {"FXSAVE", "FXRSTOR"}}
    \cup {Ins(t, <<>>) : t \in {"LFENCE", "PREFETCH"}}

SseFew ==
  {Ins("NOP", <<>>), Ins("ADDSS", <<X0, X1>>), Ins("MOVQ", <<X0, R("RCX", 8)>>), Ins("MOVLPD", <<X0, VM(8)>>),
   Ins("PADDB", <<X1, X0>>), Ins("PSUBW", <<X0, VM(16)>>), Ins("PSRLD", <<X0, I(3, 1)>>),
   Ins("FXSAVE", <<VM(8)>>), Ins("MOVDQU", <<X1, X0>>)}

SseBlocks == <<SseFew, SseAll>>

svars == <<s_pc, start, image, base, words, argv, environ, auxv, info, stack, regs, status>>
xvars == <<lifted, arch, insts>>

IdleLoader == file["exe"] = Unreadable /\ file["interp"] = Unreadable
IdleS ==
  /\ s_pc = "idle" /\ start = <<>> /\ image = <<>> /\ base = 0 /\ words = <<>>
  /\ argv = <<>> /\ environ = <<>> /\ auxv = <<>> /\ info = <<>> /\ stack = <<>>
  /\ regs = <<>> /\ status = 0
IdleX == lifted = <<>> /\ arch = <<>> /\ insts = 0

MCInit ==
  /\ Init
  /\ \/ comp = "loader" /\ IdleS /\ IdleX
     \/ comp = "startup" /\ IdleLoader /\ S!Init /\ IdleX
     \/ comp \in {"x86", "sse"} /\ IdleLoader /\ IdleS /\ X!Init

MCNext ==
  \/ comp = "loader" /\ Next /\ UNCHANGED <<comp, svars, xvars>>
  \/ comp = "startup" /\ S!Next /\ UNCHANGED <<comp, vars, xvars>>
  \/ /\ comp \in {"x86", "sse"}
     /\ X!Next(IF comp = "sse" THEN SseBlocks ELSE GpBlocks)
     /\ UNCHANGED <<comp, vars, svars>>

MCSpec == MCInit /\ [][MCNext]_<<comp, vars, svars, xvars>>

(* From _start to the first guest instruction: the client relocates itself *)
(* and finds its arguments, and the guest starts with an aligned stack of  *)
(* its own arguments, environment and auxiliary vector and with the stack  *)
(* pointer and the entry address in its registers.                         *)
StartedRight == comp = "startup" => S!StartedRight

(* Lifted x86-64 code does what the instructions do: after every one the   *)
(* registers, the defined flags, memory and the instruction pointer are    *)
(* the architecture's, and every facet kept for reuse is current.          *)
X86Right == comp \in {"x86", "sse"} => X!LiftedRight /\ X!VectorRight
=============================================================================
