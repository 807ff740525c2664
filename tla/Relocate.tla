------------------------------ MODULE Relocate ------------------------------
(***************************************************************************)
(* Relocation of translated code (client/rtld.c): rtld_reloc_at patches a  *)
(* word of an object, or later of code that already runs (rtld_patch), so  *)
(* that it refers to a symbol.  Words are sets of set bits at their real   *)
(* positions; addresses are integers.  The width of an address, of the     *)
(* 32-bit fields and of ADRP are parameters, so that a small address space *)
(* has symbols out of reach too.  What the host CPU makes of the patched   *)
(* word is the reference.  The module also has the procedure linkage table and the *)
(* function names that carry guest addresses.                              *)
(***************************************************************************)
EXTENDS Integers, Sequences, FiniteSets, Functions

\* Definitions named X_<word> are faulty variants of X.

CONSTANTS
  Width,      \* the bits of an address that are worked out: 64
  Word32,     \* the width of the 32-bit fields
  PageField,  \* the width of ADRP's immediate: 21
  Places,     \* addresses of the patched word
  Symbols,    \* addresses of symbols
  Addends,
  Old,        \* contents of the word before
  Stubs,      \* where mem_alloc_code puts new code; 0 if it fails
  Names,      \* function names: sequences of characters, see Character
  Skew,       \* the load bias of a guest with position-independent code
  PltFuncs    \* the functions of plt.inc

VARIABLES
  job,     \* "reloc", "name", "plt"
  arg,     \* its arguments
  done,    \* has it returned?
  ret,     \* "ok", "EINVAL", "ENOMEM"
  out      \* the patched word, the address, the table

vars == <<job, arg, done, ret, out>>

Bits == 0 .. 63

PageSize == 4096

(* 2^i, by factors that are small enough for the tools to work out.        *)
Two(i) == IF i <= 32 THEN 2^i ELSE 2^32 * 2^(i - 32)

(* The two's complement of an integer.                                     *)
BitsOf(x) == {i \in Bits : IF i < Width THEN (x \div Two(i)) % 2 = 1 ELSE x < 0}

Field(lo, n) == lo .. (lo + n - 1)

(* The unsigned number a field of a word holds, and the signed one.        *)
Unsigned(word, lo, n) ==
  LET sum[i \in 0 .. n] ==
        IF i = 0 THEN 0 ELSE sum[i - 1] + (IF lo + (i - 1) \in word THEN Two(i - 1) ELSE 0)
  IN sum[n]

Signed(word, lo, n) ==
  LET u == Unsigned(word, lo, n - 1)
  IN IF lo + n - 1 \in word THEN u - Two(n - 1) ELSE u

(* x << n of a word.                                                       *)
Shifted(x, n) == {i + n : i \in BitsOf(x)} \cap Bits
-----------------------------------------------------------------------------
(* CHECK_SIGNED_BITS and CHECK_UNSIGNED_BITS; both refuse the largest      *)
(* value that fits.                                                        *)
rtld_elf_signed_range(val, bits) == val >= -Two(bits - 1) /\ val < Two(bits - 1) - 1

rtld_elf_unsigned_range(val, bits) == val >= 0 /\ val < Two(bits) - 1

(* Only the bits of the mask change.                                       *)
rtld_blend(tgt, mask, data) == (data \cap mask) \cup (tgt \ mask)

Ok(word) == [ret |-> "ok", word |-> word, stub |-> 0, stubsym |-> 0]

Error(code) == [ret |-> code, word |-> {}, stub |-> 0, stubsym |-> 0]

Word(tgt, data) == Ok(rtld_blend(tgt, Field(0, 64), BitsOf(data)))

Half(tgt, data, fits) ==
  IF fits THEN Ok(rtld_blend(tgt, Field(0, Word32), BitsOf(data))) ELSE Error("EINVAL")

(* A branch reaches 128 MiB; beyond that it goes through a stub that loads *)
(* the whole address (rtld_elf_add_stub), which must itself be in reach.   *)
Branch26(tgt, syma, pc, stub) ==
  LET far == ~rtld_elf_signed_range(syma - pc, 28)
      prel_syma == IF far THEN stub - pc ELSE syma - pc
  IN IF far /\ stub = 0 THEN Error("ENOMEM")
     ELSE IF ~rtld_elf_signed_range(prel_syma, 28) THEN Error("EINVAL")
     ELSE [ret |-> "ok", word |-> rtld_blend(tgt, Field(0, 26), BitsOf(prel_syma \div 4)),
           stub |-> IF far THEN stub ELSE 0, stubsym |-> IF far THEN syma ELSE 0]

PageDelta_bytes(syma, pc) == (syma - pc) \div PageSize

(* ALIGN_DOWN(syma, 1<<12) - ALIGN_DOWN(pc, 1<<12), >> 12                  *)
PageDelta(syma, pc) == (syma \div PageSize) - (pc \div PageSize)

Page21(tgt, syma, pc) ==
  LET pages == PageDelta(syma, pc)
  IN IF ~rtld_elf_signed_range(pages, PageField) THEN Error("EINVAL")
     ELSE Ok(rtld_blend(tgt, Field(29, 2) \cup Field(5, PageField - 2),
                        Shifted(pages % 4, 29) \cup Shifted((pages \div 4) % Two(PageField - 2), 5)))

(* The scaled 12-bit offset of a load or store of 2^scale bytes.           *)
Low12(tgt, syma, scale) ==
  Ok(rtld_blend(tgt, Field(10, 12 - scale), Shifted(syma \div 2^scale, 10)))

(* The part-th 16 bits of an address.                                      *)
Move16(tgt, syma, part) ==
  Ok(rtld_blend(tgt, Field(5, 16), {i - 16 * part + 5 : i \in BitsOf(syma)}))

LdSt == [LDST8 |-> 0, LDST16 |-> 1, LDST32 |-> 2, LDST64 |-> 3, LDST128 |-> 4]

MovW == [G0 |-> 0, G1 |-> 1, G2 |-> 2, G3 |-> 3]

rtld_reloc_at(type, tgt, sym, addend, pc, stub) ==
  LET syma == sym + addend
      prel_syma == syma - pc
  IN CASE type \in {"PC64", "PREL64"} -> Word(tgt, prel_syma)
       [] type = "64" -> Word(tgt, syma)
       [] type \in {"PC32", "PLT32", "PREL32"} ->
            Half(tgt, prel_syma, rtld_elf_signed_range(prel_syma, Word32))
       [] type = "32S" -> Half(tgt, syma, rtld_elf_signed_range(syma, Word32))
       [] type = "32" -> Half(tgt, syma, rtld_elf_unsigned_range(syma, Word32))
       [] type \in {"JUMP26", "CALL26"} -> Branch26(tgt, syma, pc, stub)
       [] type = "PG_HI21" -> Page21(tgt, syma, pc)
       [] type = "ADD" -> Low12(tgt, syma, 0)
       [] type \in DOMAIN LdSt -> Low12(tgt, syma, LdSt[type])
       [] type \in DOMAIN MovW -> Move16(tgt, syma, MovW[type])
       [] OTHER -> Error("EINVAL")

Types == {"PC64", "64", "PC32", "PLT32", "32S", "32", "PREL64", "PREL32", "JUMP26", "CALL26",
          "PG_HI21", "ADD", "other"} \cup DOMAIN LdSt \cup DOMAIN MovW

Relocate ==
  /\ job = "reloc" /\ ~done
  /\ \E stub \in Stubs :
       \E r \in {rtld_reloc_at(arg.type, arg.old, arg.sym, arg.addend, arg.pc, stub)} :
         ret' = r.ret /\ out' = r
  /\ done' = TRUE /\ UNCHANGED <<job, arg>>
-----------------------------------------------------------------------------
(* Names: "Z<octal>" or "S<octal>", then the end or '_' and anything.      *)

Character == {"Z", "S", "_"} \cup {"0", "1", "2", "3", "4", "5", "6", "7", "8"}

Digit == [c \in {"0", "1", "2", "3", "4", "5", "6", "7"} |->
           CHOOSE d \in 0 .. 7 : <<"0", "1", "2", "3", "4", "5", "6", "7">>[d + 1] = c]

(* The address starts at 0 in every caller and is left alone when a digit  *)
(* is not octal, which also returns 0.                                     *)
rtld_elf_decode_name(name) ==
  LET decode[k \in 2 .. (Len(name) + 1), addr \in Int] ==
        IF k > Len(name) \/ name[k] = "_" THEN IF name[1] = "S" THEN addr + Skew ELSE addr
        ELSE IF name[k] \notin DOMAIN Digit THEN 0
        ELSE decode[k + 1, addr * 8 + Digit[name[k]]]
  IN IF Len(name) = 0 \/ name[1] \notin {"Z", "S"} THEN [ret |-> "EINVAL", addr |-> 0]
     ELSE [ret |-> "ok", addr |-> decode[2, 0]]

DecodeName ==
  /\ job = "name" /\ ~done
  /\ \E r \in {rtld_elf_decode_name(arg)} : ret' = r.ret /\ out' = r.addr
  /\ done' = TRUE /\ UNCHANGED <<job, arg>>
-----------------------------------------------------------------------------
(* The table: one 8-byte slot of code per entry, and from the next         *)
(* multiple of 64 one pointer per entry.                                   *)

PltNames == <<"quick_dispatch", "full_dispatch">> \o PltFuncs

plt_create(host) ==
  LET count == Len(PltNames)
      data_offset == ((count * 8 + 63) \div 64) * 64
  IN [i \in 0 .. (count - 1) |->
       [data |-> data_offset + 8 * i,
        func |-> PltNames[i + 1],
        code |-> LET offset == (data_offset + 8 * i) - 8 * i
                 IN IF host = "x86_64" THEN Shifted(offset - 6, 16) ELSE Shifted(offset, 3)]]

(* mem_alloc_code may fail, then no table is handed out; mem_write_code    *)
(* never does.                                                             *)
CreatePlt ==
  /\ job = "plt" /\ ~done
  /\ \E pltcode \in Stubs :
       IF pltcode = 0 THEN ret' = "ENOMEM" /\ UNCHANGED out ELSE ret' = "ok" /\ out' = plt_create(arg)
  /\ done' = TRUE /\ UNCHANGED <<job, arg>>
-----------------------------------------------------------------------------
(* An LDST relocation refers to an aligned object.                         *)
Args ==
  {a \in [type : Types, old : Old, sym : Symbols, addend : Addends, pc : Places] :
     /\ a.sym + a.addend >= 0
     /\ a.type \in DOMAIN LdSt => (a.sym + a.addend) % 2^LdSt[a.type] = 0
     /\ a.type \in {"JUMP26", "CALL26"} => (a.sym + a.addend) % 4 = 0}

Init ==
  /\ done = FALSE /\ ret = "none" /\ out = {}
  /\ \/ job = "reloc" /\ arg \in Args
     \/ job = "name" /\ arg \in Names
     \/ job = "plt" /\ arg \in {"x86_64", "aarch64"}

Finished == done /\ UNCHANGED vars

Next == Relocate \/ DecodeName \/ CreatePlt \/ Finished

Spec == Init /\ [][Next]_vars
-----------------------------------------------------------------------------
(* What the CPU, or the reader of a data word, makes of the patched field. *)

(* Where a branch at pc ends up; a stub continues at the address it loads. *)
BranchTarget(r, pc) ==
  LET to == pc + 4 * Signed(r.word, 0, 26)
  IN IF to = r.stub THEN r.stubsym ELSE to

Refers(type, r, syma, pc) ==
  /\ type \in {"PC64", "PREL64"} => Signed(r.word, 0, Width) + pc = syma
  /\ type = "64" => Signed(r.word, 0, Width) = syma
  /\ type \in {"PC32", "PLT32", "PREL32"} => Signed(r.word, 0, Word32) + pc = syma
  /\ type = "32S" => Signed(r.word, 0, Word32) = syma
  /\ type = "32" => Unsigned(r.word, 0, Word32) = syma
  /\ type \in {"JUMP26", "CALL26"} => BranchTarget(r, pc) = syma
  /\ type = "PG_HI21" =>
       LET imm == 4 * Signed(r.word, 5, PageField - 2) + Unsigned(r.word, 29, 2)
       IN (pc - (pc % PageSize)) + PageSize * imm = syma - (syma % PageSize)
  /\ type = "ADD" => Unsigned(r.word, 10, 12) = syma % PageSize
  /\ type \in DOMAIN LdSt =>
       2^LdSt[type] * Unsigned(r.word, 10, 12 - LdSt[type]) = syma % PageSize
  /\ type \in DOMAIN MovW =>
       Unsigned(r.word, 5, 16) =
         IF 16 * MovW[type] < Width THEN (syma \div Two(16 * MovW[type])) % 2^16 ELSE 0

(* The bits a relocation may change: the operand, never the opcode or a    *)
(* register number.                                                        *)
Operand(type) ==
  CASE type \in {"PC64", "PREL64", "64"} -> Bits
    [] type \in {"PC32", "PLT32", "PREL32", "32S", "32"} -> 0 .. (Word32 - 1)
    [] type \in {"JUMP26", "CALL26"} -> 0 .. 25
    [] type = "PG_HI21" -> (5 .. (PageField + 2)) \cup {29, 30}
    [] type \in {"ADD"} \cup DOMAIN LdSt -> 10 .. 21
    [] type \in DOMAIN MovW -> 5 .. 20

(* Is the symbol within reach of the field?                                *)
InReach(type, syma, pc) ==
  CASE type \in {"PC32", "PLT32", "PREL32"} -> syma - pc \in -Two(Word32 - 1) .. (Two(Word32 - 1) - 2)
    [] type = "32S" -> syma <= Two(Word32 - 1) - 2
    [] type = "32" -> syma <= Two(Word32) - 2
    [] type = "PG_HI21" ->
         (syma \div PageSize) - (pc \div PageSize) \in -Two(PageField - 1) .. (Two(PageField - 1) - 2)
    [] type \in {"JUMP26", "CALL26"} ->
         syma - pc \in -(2^27) .. (2^27 - 2)
    [] OTHER -> type # "other"

(* The guest address a name spells.                                        *)
Spelled(name) ==
  LET end == CHOOSE k \in 2 .. (Len(name) + 1) :
               /\ k = Len(name) + 1 \/ name[k] = "_"
               /\ \A j \in 2 .. (k - 1) : name[j] # "_"
      octal == SubSeq(name, 2, end - 1)
  IN IF \E k \in DOMAIN octal : octal[k] \notin DOMAIN Digit THEN 0
     ELSE FoldFunction(+, 0, [k \in DOMAIN octal |-> Digit[octal[k]] * 8^(Len(octal) - k)])
            + IF name[1] = "S" THEN Skew ELSE 0

(* A jump through slot i of the table reads the pointer of function i.     *)
SlotReads(i, entry, host) ==
  IF host = "x86_64" THEN (8 * i + 6) + Signed(entry.code, 16, 31) = entry.data
  ELSE 8 * i + 4 * Signed(entry.code, 5, 19) = entry.data

(* The CPU finds the symbol through the patched word, directly or through  *)
(* the stub; no bit outside the operand changed; what is in reach is never *)
(* refused, and what is not is refused rather than cut off.                *)
WordRight(type, old, syma, pc, r) ==
  /\ r.ret = "ok" => Refers(type, r, syma, pc)
  /\ r.ret = "ok" => r.word \ Operand(type) = old \ Operand(type)
  /\ InReach(type, syma, pc) => r.ret = "ok"
  /\ r.ret = "ok" => InReach(type, syma, pc) \/ r.stub # 0

(* Every slot jumps to its own function, and no pointer is where code is.  *)
TableRight(host, plt) ==
  \A i \in DOMAIN plt :
    /\ SlotReads(i, plt[i], host)
    /\ plt[i].data >= 8 * Len(PltNames)
    /\ plt[i].func = PltNames[i + 1]
    /\ \A j \in DOMAIN plt : plt[j].data = plt[i].data => i = j

WordsRight ==
  job = "reloc" /\ done =>
    WordRight(arg.type, arg.old, arg.sym + arg.addend, arg.pc, out) /\ ret = out.ret

PltRight == job = "plt" /\ done => IF ret = "ok" THEN TableRight(arg, out) ELSE out = {}

NamesRight ==
  job = "name" /\ done =>
    IF Len(arg) > 0 /\ arg[1] \in {"Z", "S"} THEN ret = "ok" /\ out = Spelled(arg)
    ELSE ret = "EINVAL"

(* After a relocation the CPU that reads the patched field finds exactly   *)
(* the symbol plus the addend, directly or through the stub, and no bit    *)
(* outside the operand changed; what is in reach is never refused, and     *)
(* what is not is refused rather than cut off.  A name decodes to the      *)
(* address it spells, or to no address; every slot of the procedure        *)
(* linkage table jumps to its own function, and without memory there is no *)
(* table.                                                                  *)
RelocRight == WordsRight /\ NamesRight /\ PltRight

(* What the proof needs of the constants: code and stubs are aligned, the  *)
(* addresses are in the lower half of the address space, the fields inside *)
(* a word.  The real widths, 64, 32 and 21, are among these.               *)
RelocOK ==
  /\ Width \in 31 .. 64 /\ Word32 \in 2 .. Width /\ PageField \in 4 .. 24
  /\ \A p \in Places : p \in Nat /\ p < Two(Width - 1) /\ p % 4 = 0
  /\ \A p \in Stubs : p \in Nat /\ p % 4 = 0
  /\ \A s \in Symbols, a \in Addends : s + a \in Int /\ s + a < Two(Width - 1)
  /\ PltFuncs \in Seq(STRING) /\ Len(PltFuncs) <= 2^14

(* The inductive invariant: what was asked for was done.                   *)
RelocInv ==
  /\ job = "reloc" =>
       /\ arg \in Args
       /\ done => /\ ret = out.ret
                  /\ \E stub \in Stubs : out = rtld_reloc_at(arg.type, arg.old, arg.sym, arg.addend, arg.pc, stub)
  /\ job = "plt" => arg \in {"x86_64", "aarch64"} /\ out = IF done /\ ret = "ok" THEN plt_create(arg) ELSE {}
=============================================================================
