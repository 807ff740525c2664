---------------------------- MODULE DispatchRegs ----------------------------
(***************************************************************************)
(* Guest registers in host registers.  The server's calling conventions    *)
(* (server/callconv.cc) keep some guest registers in host registers where  *)
(* translated functions call each other; the client's dispatchers          *)
(* (client/dispatch.c) fill these registers, carry them through            *)
(* resolve_func, and pass on what a function returns.                      *)
(*                                                                         *)
(* A guest register is named by its slot in the CPU struct, 8 bytes each.  *)
(***************************************************************************)
EXTENDS Integers, Sequences, Functions

CONSTANTS
  Archs,      \* <<host, guest>> pairs
  MaxCalls    \* bound: functions entered

VARIABLES
  host, guest,  \* architectures
  cc,           \* the calling convention, as the server names it
  pc,           \* the dispatcher's position
  regs,         \* host registers
  cpu,          \* regdata: slot -> value
  value,        \* the guest's registers: slot -> value
  calls

vars == <<host, guest, cc, pc, regs, cpu, value, calls>>
-----------------------------------------------------------------------------
(* External: LLVM's HHVM convention and AAPCS64, by argument and return    *)
(* index; the C convention's caller-saved registers.                       *)
HhvmArg == <<"rbx", "r12", "rbp", "r15", "rdi", "rsi", "rdx", "rcx", "r8", "r9", "rax", "r10", "r11", "r13", "r14">>
HhvmRet == <<"rbx", "rbp", "rdi", "rsi", "rdx", "rcx", "r8", "r9", "rax", "r10", "r11", "r13", "r14", "r15">>
AapcsArg == <<"x0", "x1", "x2", "x3", "x4", "x5", "x6", "x7", "x20">>
X86Regs == Range(HhvmArg)
A64Regs == Range(AapcsArg) \cup {"x16", "x17"}
AllRegs == X86Regs \cup A64Regs
CallerSaved(h) ==
  IF h = "x86_64" THEN {"rax", "rcx", "rdx", "rsi", "rdi", "r8", "r9", "r10", "r11"} ELSE A64Regs \ {"x20"}
-----------------------------------------------------------------------------
(* The server.                                                             *)
GetFastCC(h, g) ==
  CASE h = "x86_64" /\ g = "x86_64" -> "HHVM"
    [] h = "x86_64" /\ g = "rv64" -> "RV64_X86_HHVM"
    [] h = "x86_64" /\ g = "aarch64" -> "AARCH64_X86_HHVM"
    [] h = "aarch64" /\ g = "x86_64" -> "X86_AARCH64_X"
    [] h = "aarch64" /\ g = "aarch64" -> "AARCH64_AARCH64_X"
    [] OTHER -> "CDECL"

GetCallConvClientNumber(c) ==
  CASE c \in {"HHVM", "RV64_X86_HHVM", "AARCH64_X86_HHVM"} -> 1
    [] c \in {"X86_AARCH64_X", "AARCH64_AARCH64_X"} -> 3
    [] OTHER -> 0

Hhvm(c) == GetCallConvClientNumber(c) = 1

(* Slots in the CPU struct, generated from cpustruct-*.json: the program   *)
(* counter, then the registers; AArch64 has its flags in slot 1.           *)
X(g, n) == n + (IF g = "aarch64" THEN 2 ELSE 1)

(* The tables: <<slot, argidx, retidx>>.                                   *)
hhvm_fields(g) ==
  CASE g = "x86_64" ->
         {<<0, 0, 0>>, <<1, 10, 8>>, <<2, 7, 5>>, <<3, 6, 4>>, <<4, 2, 1>>, <<5, 3, 13>>, <<6, 13, 11>>,
          <<7, 5, 3>>, <<8, 4, 2>>, <<9, 8, 6>>, <<10, 9, 7>>, <<11, 11, 9>>, <<12, 12, 10>>}
    [] g = "rv64" ->
         {<<0, 0, 0>>, <<X(g, 18), 10, 8>>, <<X(g, 1), 7, 5>>, <<X(g, 2), 6, 4>>, <<X(g, 8), 2, 1>>,
          <<X(g, 9), 3, 13>>, <<X(g, 10), 13, 11>>, <<X(g, 11), 5, 3>>, <<X(g, 12), 4, 2>>, <<X(g, 13), 8, 6>>,
          <<X(g, 14), 9, 7>>, <<X(g, 15), 11, 9>>, <<X(g, 17), 12, 10>>}
    [] g = "aarch64" ->
         {<<0, 0, 0>>, <<X(g, 0), 10, 8>>, <<X(g, 1), 7, 5>>, <<X(g, 2), 6, 4>>, <<X(g, 3), 3, 13>>,
          <<X(g, 4), 13, 11>>, <<X(g, 5), 5, 3>>, <<X(g, 6), 4, 2>>, <<X(g, 7), 8, 6>>, <<X(g, 8), 9, 7>>,
          <<X(g, 30), 11, 9>>, <<X(g, 9), 12, 10>>}

aapcsx_fields(g) ==
  IF g = "x86_64"
  THEN {<<0, 0, 0>>, <<1, 1, 1>>, <<2, 2, 2>>, <<3, 3, 3>>, <<4, 4, 4>>, <<5, 5, 5>>, <<7, 6, 6>>, <<8, 7, 7>>}
  ELSE {<<0, 0, 0>>, <<X(g, 0), 1, 1>>, <<X(g, 1), 2, 2>>, <<X(g, 2), 3, 3>>, <<X(g, 3), 4, 4>>,
        <<X(g, 4), 5, 5>>, <<X(g, 30), 6, 6>>, <<X(g, 6), 7, 7>>}

Fields(c, g) == CASE Hhvm(c) -> hhvm_fields(g) [] c = "CDECL" -> {} [] OTHER -> aapcsx_fields(g)

ArgReg(c, f) == IF Hhvm(c) THEN HhvmArg[f[2] + 1] ELSE AapcsArg[f[2] + 1]

RetReg(c, f) == IF Hhvm(c) THEN HhvmRet[f[3] + 1] ELSE AapcsArg[f[3] + 1]

SptrReg(c) == IF Hhvm(c) THEN HhvmArg[2] ELSE AapcsArg[9]

Slots(c, g) == {f[1] : f \in Fields(c, g)} \cup {0, 5, X(g, 2), X(g, 31)}
-----------------------------------------------------------------------------
(* The client.                                                             *)

Zero == <<"zero">>

(* main: everything is zero but the program counter and the stack pointer. *)
SpSlot(g) == CASE g = "x86_64" -> 5 [] g = "rv64" -> 3 [] g = "aarch64" -> 33

First(g, s) == CASE s = 0 -> <<"entry">> [] s = SpSlot(g) -> <<"stack">> [] OTHER -> Zero

(* dispatch_get: infos[tc_callconv].                                       *)
PatchDataReg(n) == CASE n = 0 -> "rsi" [] n = 1 -> "r14" [] n = 3 -> "x16"

Available(h, n) == n = 0 \/ (h = "x86_64" /\ n = 1) \/ (h = "aarch64" /\ n = 3)

Init ==
  /\ \E a \in Archs : host = a[1] /\ guest = a[2]
  /\ cc \in {"CDECL", GetFastCC(host, guest)}
  /\ pc = "loop" /\ calls = 0
  /\ regs = [r \in AllRegs |-> <<"junk">>]
  /\ cpu = [s \in Slots(cc, guest) |-> First(guest, s)]
  /\ value = cpu

Ext(struct, slot) == IF slot \in DOMAIN struct THEN struct[slot] ELSE Zero

HhvmLoads ==
  [rbx |-> 0, rax |-> 1, rcx |-> 2, rdx |-> 3, rbp |-> 4, r15 |-> 5, r13 |-> 6, rsi |-> 7, rdi |-> 8,
   r8 |-> 9, r9 |-> 10, r10 |-> 11, r11 |-> 12]

AapcsLoads == [x0 |-> 0, x1 |-> 1, x2 |-> 2, x3 |-> 3, x4 |-> 4, x5 |-> 5, x6 |-> 7, x7 |-> 8]

Loads(c) == CASE Hhvm(c) -> HhvmLoads [] c = "CDECL" -> << >> [] OTHER -> AapcsLoads

(* dispatch_hhvm, dispatch_aapcsx_loop and dispatch_cdecl_loop up to the   *)
(* first lookup: "Load HHVM registers".  The first lookup resolves.        *)
EnterLoop ==
  /\ pc = "loop"
  /\ LET base == IF cc = "CDECL" THEN regs ELSE [regs EXCEPT ![SptrReg(cc)] = <<"sptr">>]
     IN regs' = [r \in DOMAIN regs |-> IF r \in DOMAIN Loads(cc) THEN Ext(cpu, Loads(cc)[r]) ELSE base[r]]
  /\ pc' = IF Hhvm(cc) THEN "fullresolve" ELSE "lookup"
  /\ UNCHANGED <<host, guest, cc, cpu, value, calls>>

(* dispatch_hhvm_tail, dispatch_hhvm_call, the hot loop, dispatch_aapcsx   *)
(* and dispatch_cdecl: the quick TLB has the function, or not.             *)
Lookup(hit) ==
  /\ pc = "lookup"
  /\ regs' = CASE cc = "CDECL" -> regs
               [] Hhvm(cc) -> [regs EXCEPT !["r14"] = <<"index">>]
               [] OTHER -> [regs EXCEPT !["x16"] = <<"index">>, !["x17"] = <<"func">>]
  /\ pc' = IF hit THEN "fn" ELSE "fullresolve"
  /\ UNCHANGED <<host, guest, cc, cpu, value, calls>>

Saved_short(c) == IF Hhvm(c) THEN {"rax", "rcx", "rdx", "rsi", "rdi", "r8", "r9"} ELSE {"x0", "x1", "x2", "x3"}

(* What the dispatcher's assembly saves around resolve_func.               *)
Saved(c) ==
  IF Hhvm(c) THEN {"rax", "rcx", "rdx", "rsi", "rdi", "r8", "r9", "r10", "r11"}
  ELSE {"x0", "x1", "x2", "x3", "x4", "x5", "x6", "x7"}

(* dispatch_hhvm_fullresolve, dispatch_aapcsx_fullresolve: resolve_func is *)
(* a C function.  The result goes to the patch data register, and the      *)
(* assembly jumps there.                                                   *)
FullResolve ==
  /\ pc = "fullresolve"
  /\ regs' = [r \in DOMAIN regs |->
                IF r = PatchDataReg(GetCallConvClientNumber(cc)) THEN <<"func">>
                ELSE IF r \in CallerSaved(host) \ Saved(cc) THEN <<"junk">> ELSE regs[r]]
  /\ pc' = "fn"
  /\ UNCHANGED <<host, guest, cc, cpu, value, calls>>

(* A translated function changes guest registers and returns, or ends with *)
(* a tail call, or calls.  UpdateCallRet puts the fields into the          *)
(* convention's registers.  The other arguments of a call are undefined; a *)
(* return gives back the RBP the function got if no field has it.          *)
Reg(c, ending, f) == IF ending = "ret" THEN RetReg(c, f) ELSE ArgReg(c, f)

KeptRegs(c, ending) ==
  IF c = "CDECL" THEN {} ELSE {SptrReg(c)} \cup (IF Hhvm(c) /\ ending = "ret" THEN {"rbp"} ELSE {})

FieldIn(c, g, ending, r) == CHOOSE f \in Fields(c, g) : Reg(c, ending, f) = r

Function(slot, ending) ==
  /\ pc = "fn" /\ calls < MaxCalls /\ slot \in DOMAIN value
  /\ value' = [value EXCEPT ![slot] = <<"new", calls>>]
  /\ regs' = [r \in DOMAIN regs |->
                IF \E f \in Fields(cc, guest) : Reg(cc, ending, f) = r
                THEN value'[FieldIn(cc, guest, ending, r)[1]]
                ELSE IF r \in KeptRegs(cc, ending) THEN regs[r] ELSE <<"junk">>]
  /\ cpu' = [s \in DOMAIN cpu |-> IF \E f \in Fields(cc, guest) : f[1] = s THEN cpu[s] ELSE value'[s]]
  /\ pc' = "lookup" /\ calls' = calls + 1
  /\ UNCHANGED <<host, guest, cc>>

Finished == pc = "fn" /\ calls = MaxCalls /\ UNCHANGED vars

Next ==
  \/ EnterLoop \/ FullResolve
  \/ \E hit \in BOOLEAN : Lookup(hit)
  \/ \E slot \in DOMAIN value, ending \in {"ret", "tail", "call"} : Function(slot, ending)
  \/ Finished

Spec == Init /\ [][Next]_vars
-----------------------------------------------------------------------------
(* Every guest register is where convention c has it, given the host's     *)
(* registers, the CPU struct and the guest's values.                       *)
InPlace(c, g, rs, struct, val) ==
  /\ \A f \in Fields(c, g) : rs[ArgReg(c, f)] = val[f[1]]
  /\ \A s \in DOMAIN struct : (\A f \in Fields(c, g) : f[1] # s) => struct[s] = val[s]
  /\ c # "CDECL" => rs[SptrReg(c)] = <<"sptr">>

(* The hosts and guests that client and server are built for.              *)
ArchsOK == Archs \subseteq {"x86_64", "aarch64"} \X {"x86_64", "rv64", "aarch64"}

Conv(h, g, c) == <<h, g>> \in Archs /\ c \in {"CDECL", GetFastCC(h, g)}

(* The inductive invariant: between two steps of the assembly the guest's  *)
(* registers are where the convention says, from the first entry on.       *)
IInv ==
  /\ Conv(host, guest, cc) /\ DOMAIN regs = AllRegs
  /\ pc = "loop" => cpu = [s \in Slots(cc, guest) |-> First(guest, s)] /\ value = cpu
  /\ pc # "loop" => InPlace(cc, guest, regs, cpu, value)

(* The server's tables and the client's assembly agree: whenever a         *)
(* translated function is entered, whatever led there (the start, a        *)
(* return, a tail call, a call, with or without resolve_func), every guest *)
(* register that the convention keeps in a host register is in that        *)
(* register, the others are in the CPU struct, the struct is where the     *)
(* convention says, the client has a dispatcher for the convention, and    *)
(* the patch data register holds no guest register.                        *)
RegistersRight ==
  /\ Available(host, GetCallConvClientNumber(cc))
  /\ \A f \in Fields(cc, guest) :
       ArgReg(cc, f) # PatchDataReg(GetCallConvClientNumber(cc)) /\ ArgReg(cc, f) # SptrReg(cc)
  /\ pc = "fn" => InPlace(cc, guest, regs, cpu, value)
=============================================================================
