----------------------------- MODULE ElfLoader ------------------------------
(* client/elf-loader.c: load_elf_binary maps the guest program and its     *)
(* interpreter into the client's address space.  Every system call may     *)
(* fail.  The minilibc calls return -errno, but elf_read compares with -1: *)
(* it never fails, and the caller goes on with what was there before.      *)
EXTENDS Integers, Sequences, FiniteSets

CONSTANTS
  PageSize,
  Pages,       \* the number of pages of the address space
  Exes,        \* the programs, as ElfFile records
  Interps      \* the interpreters they may name

Space == 0 .. Pages * PageSize - 1

(* A PT_LOAD header: its fields, and PF_W.                                 *)
Phdr == [vaddr : Nat, offset : Nat, filesz : Nat, memsz : Nat, w : BOOLEAN]

(* valid: magic, class, type and machine; phdrs: e_phentsize and e_phnum;  *)
(* interp: no PT_INTERP, one with a bad length, or one with a name.        *)
ElfFile == [valid : BOOLEAN, phdrs : BOOLEAN, type : {"EXEC", "DYN"},
            interp : {"no", "length", "name"}, len : Nat, loads : Seq(Phdr)]

Files == {"exe", "interp"}

ASSUME LoaderAssumption ==
  /\ PageSize \in Nat \ {0} /\ Pages \in Nat
  /\ Exes \subseteq ElfFile /\ Interps \subseteq ElfFile

ALIGN_DOWN(v) == (v \div PageSize) * PageSize
ALIGN_UP(v) == ALIGN_DOWN(v + PageSize - 1)

(* Headers as a linker writes them, which the loader takes on trust: they  *)
(* ascend and share no page, a segment's data are in the file and no       *)
(* longer than the segment, and a fixed program fits the address space.    *)
Linked(e) ==
  \A k \in DOMAIN e.loads :
    /\ 0 < e.loads[k].memsz /\ e.loads[k].filesz <= e.loads[k].memsz
    /\ e.loads[k].offset + e.loads[k].filesz <= e.len
    /\ e.type = "EXEC" => e.loads[k].vaddr + e.loads[k].memsz <= Pages * PageSize
    /\ \A j \in 1 .. k - 1 :
         ALIGN_UP(e.loads[j].vaddr + e.loads[j].memsz) <= ALIGN_DOWN(e.loads[k].vaddr)

(* An interpreter can be loaded anywhere, as dynamic linkers can.          *)
ASSUME LinkedAssumption ==
  /\ \A e \in Exes \cup Interps : Linked(e)
  /\ \A e \in Interps : e.type = "DYN"

VARIABLES
  file,        \* [Files -> ElfFile]: the program and its interpreter
  pc, retval,
  fds,         \* the open files
  phpages,     \* the files whose header page is mapped
  phdata,      \* [file -> Seq(Phdr)]: the PT_LOAD headers in that page
  bias,        \* [file -> load bias]
  cur, n,      \* the file being mapped and its next segment
  mem, prot,   \* contents and protection of the address space
  refused,     \* history: a check or a system call failed and was noticed
  unnoticed    \* history: a failure the code does not look at

input == <<file>>
memory == <<mem, prot>>
vars == <<input, pc, retval, fds, phpages, phdata, bias, cur, n, memory, refused, unnoticed>>

Unmapped == <<"none", 0>>
Zero == <<"zero", 0>>
ENOEXEC == -8
ELIBBAD == -80
ENOMEM == -12
EIO == -5
ENOENT == -2

PagesOf(lo, hi) == {p \in 0 .. Pages - 1 : p * PageSize < hi /\ lo < (p + 1) * PageSize}

Init ==
  /\ \E e \in Exes, l \in Interps : file = [f \in Files |-> IF f = "exe" THEN e ELSE l]
  /\ pc = "open" /\ retval = 0
  /\ fds = {} /\ phpages = {} /\ phdata = [f \in Files |-> << >>]
  /\ bias = [f \in Files |-> 0] /\ cur = "exe" /\ n = 1
  /\ mem = [a \in Space |-> Unmapped] /\ prot = [p \in 0 .. Pages - 1 |-> "none"]
  /\ refused = FALSE /\ unnoticed = FALSE

(* goto out, out_close or out_free_ph, with this return value.             *)
Goto(label, ret) == pc' = label /\ retval' = ret /\ refused' = TRUE
-----------------------------------------------------------------------------
Open ==
  /\ pc = "open"
  /\ \/ Goto("out", ENOENT) /\ UNCHANGED fds
     \/ pc' = "header" /\ fds' = {"exe"} /\ UNCHANGED <<retval, refused>>
  /\ UNCHANGED <<input, phpages, phdata, bias, cur, n, memory, unnoticed>>

Header ==
  /\ pc = "header"
  /\ \/ Goto("close", EIO)
     \/ ~file["exe"].valid /\ Goto("close", ENOEXEC)
     \/ file["exe"].valid /\ pc' = "phdrs" /\ retval' = ENOEXEC /\ UNCHANGED refused
  /\ UNCHANGED <<input, fds, phpages, phdata, bias, cur, n, memory, unnoticed>>

(* load_elf_phdrs, for either file: elf_read may leave the page, which is  *)
(* zero at first, with only some of the headers.                           *)
load_elf_phdrs(f, next, fail) ==
  \/ Goto(fail, retval) /\ UNCHANGED <<phpages, phdata, unnoticed>>
  \/ /\ file[f].phdrs
     /\ phpages' = phpages \cup {f}
     /\ \E k \in 0 .. Len(file[f].loads) :
          /\ phdata' = [phdata EXCEPT ![f] = SubSeq(file[f].loads, 1, k)]
          /\ unnoticed' = (unnoticed \/ k < Len(file[f].loads))
     /\ pc' = next /\ UNCHANGED <<retval, refused>>

LoadPhdrs ==
  /\ pc = "phdrs"
  /\ load_elf_phdrs("exe", "interp", "close")
  /\ UNCHANGED <<input, fds, bias, cur, n, memory>>

(* There is no PT_INTERP header, or it was lost with a failed read.        *)
NoInterp ==
  /\ pc = "interp" /\ (file["exe"].interp = "no" \/ unnoticed)
  /\ pc' = "bias"
  /\ UNCHANGED <<input, retval, fds, phpages, phdata, bias, cur, n, memory, refused, unnoticed>>

InterpError_unset == 0

(* elf_read has set retval to 0; retval = -ELIBBAD.                        *)
InterpError == ELIBBAD

(* The PT_INTERP header.  The byte tested for the end of the name is the   *)
(* one after what was read, an uninitialized byte of the stack, and after  *)
(* a failed read so is the name.                                           *)
Interp ==
  /\ pc = "interp" /\ file["exe"].interp # "no"
  /\ \/ /\ file["exe"].interp = "length"
        /\ Goto("free", retval)
        /\ UNCHANGED <<fds, unnoticed>>
     \/ /\ file["exe"].interp = "name"
        /\ \/ Goto("free", ENOEXEC) /\ UNCHANGED <<fds, unnoticed>>
           \/ Goto("free", ENOENT) /\ UNCHANGED <<fds, unnoticed>>
           \/ /\ pc' = "ihdr" /\ fds' = fds \cup {"interp"} /\ retval' = InterpError
              /\ UNCHANGED unnoticed \/ unnoticed' = TRUE
              /\ UNCHANGED refused
  /\ UNCHANGED <<input, phpages, phdata, bias, cur, n, memory>>

InterpHeader ==
  /\ pc = "ihdr"
  /\ \/ /\ ~file["interp"].valid \/ unnoticed
        /\ Goto("free", retval)
     \/ /\ file["interp"].valid \/ unnoticed
        /\ pc' = "iphdrs" /\ UNCHANGED <<retval, refused>>
  /\ UNCHANGED <<input, fds, phpages, phdata, bias, cur, n, memory, unnoticed>>

InterpPhdrs ==
  /\ pc = "iphdrs"
  /\ load_elf_phdrs("interp", "bias", "free")
  /\ UNCHANGED <<input, fds, bias, cur, n, memory>>
-----------------------------------------------------------------------------
(* elf_determine_load_bias: where mmap finds room for the whole file.      *)
Biases(loads) ==
  LET start == ALIGN_DOWN(loads[1].vaddr)
      end   == loads[Len(loads)].vaddr + loads[Len(loads)].memsz
      free(p) == /\ (p * PageSize) + (end - start) <= Pages * PageSize
                 /\ \A q \in PagesOf(p * PageSize, (p * PageSize) + (end - start)) : prot[q] = "none"
  IN  {p * PageSize - start : p \in {q \in 0 .. Pages - 1 : free(q)}}

HasRange(loads) ==
  /\ loads # << >>
  /\ ALIGN_DOWN(loads[1].vaddr) < loads[Len(loads)].vaddr + loads[Len(loads)].memsz

DetermineBias ==
  /\ pc = "bias"
  /\ \/ /\ file[cur].type = "EXEC"
        /\ bias' = [bias EXCEPT ![cur] = 0]
        /\ pc' = "map" /\ UNCHANGED <<retval, refused>>
     \/ /\ file[cur].type = "DYN" /\ HasRange(phdata[cur])
        /\ \E b \in Biases(phdata[cur]) : bias' = [bias EXCEPT ![cur] = b]
        /\ pc' = "map" /\ UNCHANGED <<retval, refused>>
     \/ /\ file[cur].type = "DYN"
        /\ Goto("free", IF HasRange(phdata[cur]) THEN ENOMEM ELSE ENOEXEC)
        /\ UNCHANGED bias
  /\ UNCHANGED <<input, fds, phpages, phdata, cur, n, memory, unnoticed>>

(* A byte of a mapped file: zero after its end.                            *)
FileByte(f, off) == IF off < file[f].len THEN <<f, off>> ELSE Zero

MapFile(m, lo, hi, f, off) ==
  [a \in Space |-> IF lo <= a /\ a < hi THEN FileByte(f, off + (a - lo)) ELSE m[a]]
MapZero(m, lo, hi) == [a \in Space |-> IF lo <= a /\ a < hi THEN Zero ELSE m[a]]
Protect(pr, lo, hi, ph) ==
  [p \in 0 .. Pages - 1 |-> IF p \in PagesOf(lo, hi) THEN IF ph.w THEN "rw" ELSE "r" ELSE pr[p]]

(* A writable segment is zeroed to the end of its last page.               *)
AllocEnd(addr, ph) == IF ph.w THEN ALIGN_UP(addr + ph.memsz) ELSE addr + ph.memsz

ZeroPage(dataend, allocend) ==
  IF allocend < ALIGN_UP(dataend) THEN allocend ELSE ALIGN_UP(dataend)

(* What elf_map may leave: contents, protection, return value.             *)
elf_map(addr, ph, f) ==
  LET mapstart == ALIGN_DOWN(addr)
      dataend  == addr + ph.filesz
      mapend   == ALIGN_UP(dataend)
      allocend == AllocEnd(addr, ph)
      zeropage == ZeroPage(dataend, allocend)
      mem1     == MapFile(mem, mapstart, mapend, f, ALIGN_DOWN(ph.offset))
      prot1    == Protect(prot, mapstart, mapend, ph)
      page     == dataend \div PageSize
      mem2     == MapZero(mem1, dataend, zeropage)
      mem3     == MapZero(mem2, zeropage, ALIGN_UP(allocend))
      out(m, p, r, u) == [mem |-> m, prot |-> p, ret |-> r, unnoticed |-> u]
      \* zeroing the end of a read-only page needs mprotect twice
      ended    == IF zeropage > dataend /\ ~ph.w
                  THEN {out(mem2, prot1, 0, FALSE),
                        out(mem2, [prot1 EXCEPT ![page] = "rw"], 0, TRUE),
                        out(mem1, prot1, ENOMEM, FALSE)}
                  ELSE {out(mem2, prot1, 0, FALSE)}
      zeroed(o) == IF o.ret = 0 /\ allocend > zeropage
                   THEN {out(o.mem, o.prot, ENOMEM, o.unnoticed),
                         out(mem3, Protect(o.prot, zeropage, allocend, ph), 0, o.unnoticed)}
                   ELSE {o}
      mapped   == IF allocend > dataend THEN UNION {zeroed(o) : o \in ended}
                  ELSE {out(mem1, prot1, 0, FALSE)}
  IN  IF ph.vaddr % PageSize # ph.offset % PageSize THEN {out(mem, prot, ENOEXEC, FALSE)}
      ELSE mapped \cup (IF mapend > mapstart THEN {out(mem, prot, ENOMEM, FALSE)} ELSE {})

MapSegment ==
  /\ pc = "map" /\ n <= Len(phdata[cur])
  /\ \E o \in elf_map(bias[cur] + phdata[cur][n].vaddr, phdata[cur][n], cur) :
       /\ mem' = o.mem /\ prot' = o.prot
       /\ unnoticed' = (unnoticed \/ o.unnoticed)
       /\ IF o.ret < 0 THEN Goto("free", o.ret) /\ UNCHANGED n
          ELSE retval' = 0 /\ n' = n + 1 /\ UNCHANGED <<pc, refused>>
  /\ UNCHANGED <<input, fds, phpages, phdata, bias, cur>>

(* The program is mapped: load_elf_interp, if an interpreter is open.      *)
StartInterp ==
  /\ pc = "map" /\ n > Len(phdata[cur]) /\ cur = "exe" /\ "interp" \in fds
  /\ cur' = "interp" /\ n' = 1 /\ pc' = "bias"
  /\ UNCHANGED <<input, retval, fds, phpages, phdata, bias, memory, refused, unnoticed>>

Loaded ==
  /\ pc = "map" /\ n > Len(phdata[cur]) /\ (cur = "interp" \/ "interp" \notin fds)
  /\ pc' = "free" /\ retval' = 0
  /\ UNCHANGED <<input, fds, phpages, phdata, bias, cur, n, memory, refused, unnoticed>>

FreedPages == {}

(* out_free_ph: both header pages, if mapped.                              *)
OutFreePh ==
  /\ pc = "free" /\ pc' = "close"
  /\ phpages' = FreedPages
  /\ UNCHANGED <<input, retval, fds, phdata, bias, cur, n, memory, refused, unnoticed>>

OutClose ==
  /\ pc = "close" /\ pc' = "out"
  /\ fds' = {}
  /\ UNCHANGED <<input, retval, phpages, phdata, bias, cur, n, memory, refused, unnoticed>>

Out == pc = "out" /\ UNCHANGED vars

Next ==
  \/ Open \/ Header \/ LoadPhdrs \/ NoInterp \/ Interp \/ InterpHeader \/ InterpPhdrs
  \/ DetermineBias \/ MapSegment \/ StartInterp \/ Loaded \/ OutFreePh \/ OutClose \/ Out

Spec == Init /\ [][Next]_vars
-----------------------------------------------------------------------------
(* Types of the loader's state and of the two history variables.           *)
StateOK ==
  /\ file \in [Files -> ElfFile] /\ file["exe"] \in Exes /\ file["interp"] \in Interps
  /\ pc \in {"open", "header", "phdrs", "interp", "ihdr", "iphdrs", "bias", "map", "free",
             "close", "out"}
  /\ retval \in Int /\ fds \subseteq Files /\ phpages \subseteq Files
  /\ phdata \in [Files -> Seq(Phdr)] /\ bias \in [Files -> Int]
  /\ prot \in [0 .. Pages - 1 -> {"none", "r", "rw"}]
  /\ cur \in Files /\ n \in Nat \ {0}

TypeOK == StateOK /\ refused \in BOOLEAN /\ unnoticed \in BOOLEAN

(* The bytes and the protection a PT_LOAD header asks for.                 *)
SegmentRight(f, ph) ==
  /\ \A k \in 0 .. ph.memsz - 1 :
       mem[bias[f] + ph.vaddr + k] = IF k < ph.filesz THEN <<f, ph.offset + k>> ELSE Zero
  /\ \A p \in PagesOf(bias[f] + ph.vaddr, bias[f] + ph.vaddr + ph.memsz) :
       prot[p] = IF ph.w THEN "rw" ELSE "r"

FileRight(f) == \A k \in DOMAIN file[f].loads : SegmentRight(f, file[f].loads[k])

(* When load_elf_binary succeeds, every segment of the program and of its  *)
(* interpreter is in memory as its header says: file bytes, then zeros,    *)
(* read-only where it should be, and neither overwrote the other.          *)
ImageRight ==
  pc = "out" /\ retval = 0 /\ ~unnoticed =>
    FileRight("exe") /\ (file["exe"].interp # "no" => FileRight("interp"))

(* Whatever fails, both files are closed and both header pages unmapped.   *)
NothingLeaks == pc = "out" => fds = {} /\ phpages = {}

(* No error path returns success: the one retval variable is set anew      *)
(* before each group of checks, and a successful call in between (it sets  *)
(* retval to 0) does not leak into the next group.                         *)
NoErrorSwallowed == pc = "out" => (retval < 0 <=> refused)

(* What load_elf_binary promises its caller: an error if anything it looks *)
(* at failed, otherwise the image of the file, and nothing left over.      *)
LoadedRight == NoErrorSwallowed /\ ImageRight /\ NothingLeaks
-----------------------------------------------------------------------------
(* The inductive invariant.  What a goto at each place returns, and what   *)
(* is open and mapped there.                                               *)
PathInv ==
  /\ pc \in {"phdrs", "interp"} => retval = ENOEXEC
  /\ pc \in {"ihdr", "iphdrs"} => retval = ELIBBAD
  /\ pc \notin {"free", "close", "out"} => ~refused
  /\ pc \in {"free", "close", "out"} => (retval < 0 <=> refused)
  /\ pc = "open" => fds = {}
  /\ pc \in {"open", "header", "phdrs", "close"} => phpages = {}
  /\ pc = "out" => fds = {} /\ phpages = {}

(* The headers in memory are the files', and an interpreter is open if and *)
(* only if the program names one.                                          *)
HeadersInv ==
  /\ pc \in {"interp", "ihdr", "iphdrs", "bias", "map"} => phdata["exe"] = file["exe"].loads
  /\ pc \in {"open", "header", "phdrs", "interp"} => "interp" \notin fds
  /\ pc \in {"ihdr", "iphdrs"} => "interp" \in fds /\ file["exe"].interp # "no"
  /\ pc \in {"bias", "map"} =>
       /\ "interp" \in fds <=> file["exe"].interp # "no"
       /\ "interp" \in fds => phdata["interp"] = file["interp"].loads
       /\ cur = "interp" => "interp" \in fds
  /\ pc \notin {"bias", "map", "free", "close", "out"} => cur = "exe"
  /\ pc \notin {"map", "free", "close", "out"} => n = 1

(* The file being mapped is placed on whole pages inside the address space *)
(* and, for the interpreter, beside the program.                           *)
Lo(f, k) == bias[f] + file[f].loads[k].vaddr
Hi(f, k) == Lo(f, k) + file[f].loads[k].memsz
InSpace(f) == \A k \in DOMAIN file[f].loads : 0 <= Lo(f, k) /\ Hi(f, k) <= Pages * PageSize

PlacedInv ==
  /\ bias[cur] = ALIGN_DOWN(bias[cur])
  /\ InSpace(cur)
  /\ cur = "interp" =>
       \A j \in DOMAIN file["exe"].loads, k \in DOMAIN file["interp"].loads :
         PagesOf(Lo("exe", j), Hi("exe", j)) \cap PagesOf(Lo("interp", k), Hi("interp", k)) = {}

(* Every segment mapped so far is still as its header says.                *)
MappedInv ==
  /\ pc \in {"bias", "map"} /\ cur = "interp" => FileRight("exe") /\ InSpace("exe")
  /\ pc = "map" => \A k \in DOMAIN file[cur].loads :
                     k < n => SegmentRight(cur, file[cur].loads[k])
  /\ pc \in {"free", "close", "out"} /\ retval = 0 =>
       FileRight("exe") /\ (file["exe"].interp # "no" => FileRight("interp"))

IInv ==
  /\ TypeOK /\ PathInv
  /\ ~unnoticed => HeadersInv /\ (pc = "map" => PlacedInv) /\ MappedInv
=============================================================================
