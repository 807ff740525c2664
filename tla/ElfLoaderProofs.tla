-------------------------- MODULE ElfLoaderProofs ---------------------------
(* load_elf_binary, for every page size, every address space and every     *)
(* program and interpreter that a linker may write: it swallows no error,  *)
(* leaks nothing, and leaves the image its files describe.  First elf_map  *)
(* and elf_determine_load_bias: a segment is mapped as its header says     *)
(* without a change to any other page, and a file is placed inside the     *)
(* address space and beside what is mapped.                                *)
EXTENDS ElfLoader, TLAPS

(* Leaves go to Zenon, with time for a slow machine; those that need       *)
(* arithmetic or sequences name the SMT solver.                            *)
USE ZenonT(60)

(* The address of a page.                                                  *)
At(p) == p * PageSize

(* The page of an address.                                                 *)
PageOf(a) == a \div PageSize

(* Pages follow each other.                                                *)
LEMMA AtOrder ==
  ASSUME NEW p \in Int, NEW q \in Int
  PROVE  /\ At(p) \in Int
         /\ p < q => At(p) + PageSize <= At(q)
BY SMTT(60), LoaderAssumption DEF At

(* Moving by whole pages.                                                  *)
LEMMA AtSum ==
  ASSUME NEW p \in Int, NEW q \in Int
  PROVE  At(p + q) = At(p) + At(q) /\ At(p - q) = At(p) - At(q)
BY SMTT(60), LoaderAssumption DEF At

(* An address lies in its page and in no other.                            *)
LEMMA PageOfRight ==
  ASSUME NEW a \in Int
  PROVE  /\ PageOf(a) \in Int
         /\ At(PageOf(a)) <= a /\ a < At(PageOf(a)) + PageSize
         /\ \A q \in Int : At(q) <= a /\ a < At(q) + PageSize => q = PageOf(a)
<1>1. PageOf(a) \in Int /\ At(PageOf(a)) <= a /\ a < At(PageOf(a)) + PageSize
  BY SMTT(60), LoaderAssumption DEF At, PageOf
<1>2. ASSUME NEW q \in Int, At(q) <= a, a < At(q) + PageSize
      PROVE  q = PageOf(a)
  <2>1. At(q) \in Int /\ At(PageOf(a)) \in Int
    BY <1>1, <1>2, AtOrder
  <2>2. q < PageOf(a) => At(q) + PageSize <= At(PageOf(a))
    BY <1>1, <1>2, AtOrder
  <2>3. PageOf(a) < q => At(PageOf(a)) + PageSize <= At(q)
    BY <1>1, <1>2, AtOrder
  <2> QED BY SMTT(60), <1>1, <1>2, <2>1, <2>2, <2>3, LoaderAssumption
<1> QED BY <1>1, <1>2

(* Rounding down and up to a page.                                         *)
LEMMA AlignRight ==
  ASSUME NEW v \in Int
  PROVE  /\ ALIGN_DOWN(v) = At(PageOf(v))
         /\ ALIGN_DOWN(v) \in Int /\ ALIGN_DOWN(v) <= v /\ v < ALIGN_DOWN(v) + PageSize
         /\ ALIGN_UP(v) = At(PageOf(v + PageSize - 1))
         /\ ALIGN_UP(v) \in Int /\ v <= ALIGN_UP(v) /\ ALIGN_UP(v) < v + PageSize
<1>1. /\ ALIGN_DOWN(v) = At(PageOf(v))
      /\ ALIGN_UP(v) = At(PageOf(v + PageSize - 1))
  BY DEF ALIGN_DOWN, ALIGN_UP, At, PageOf
<1>2. v + PageSize - 1 \in Int
  BY SMTT(60), LoaderAssumption
<1>3. PageOf(v) \in Int /\ PageOf(v + PageSize - 1) \in Int
  BY <1>2, PageOfRight
<1>4. At(PageOf(v)) \in Int /\ At(PageOf(v + PageSize - 1)) \in Int
  BY <1>3, AtOrder
<1>5. At(PageOf(v)) <= v /\ v < At(PageOf(v)) + PageSize
  BY PageOfRight
<1>6. /\ At(PageOf(v + PageSize - 1)) <= v + PageSize - 1
      /\ v + PageSize - 1 < At(PageOf(v + PageSize - 1)) + PageSize
  BY <1>2, PageOfRight
<1> HIDE DEF ALIGN_DOWN, ALIGN_UP
<1> QED BY SMTT(60), <1>1, <1>4, <1>5, <1>6, LoaderAssumption

(* Membership in PagesOf, in terms of page addresses.                      *)
LEMMA PagesOfRight ==
  ASSUME NEW lo, NEW hi, NEW p
  PROVE  p \in PagesOf(lo, hi) <=>
           p \in 0 .. Pages - 1 /\ At(p) < hi /\ lo < At(p) + PageSize
<1>1. ASSUME p \in 0 .. Pages - 1
      PROVE  (p + 1) * PageSize = At(p) + PageSize
  BY SMTT(60), <1>1, LoaderAssumption DEF At
<1> QED BY <1>1 DEF PagesOf, At

(* The pages a range touches are the ones between its rounded ends.        *)
LEMMA TouchedPages ==
  ASSUME NEW lo \in Int, NEW hi \in Int, 0 <= lo, NEW a \in Space
  PROVE  PageOf(a) \in PagesOf(lo, hi) <=> ALIGN_DOWN(lo) <= a /\ a < ALIGN_UP(hi)
<1> DEFINE P == PageOf(a)  S == PageOf(lo)  R == PageOf(hi + PageSize - 1)
<1>1. a \in Int /\ 0 <= a /\ a < At(Pages) /\ hi + PageSize - 1 \in Int /\ PageSize \in Int
      /\ Pages \in Int
  BY SMTT(60), LoaderAssumption, AtOrder DEF Space, At
<1>2. P \in Int /\ S \in Int /\ R \in Int
  BY <1>1, PageOfRight
<1>3. At(P) \in Int /\ At(S) \in Int /\ At(R) \in Int /\ At(Pages) \in Int /\ At(0) = 0
  BY SMTT(60), <1>1, <1>2, AtOrder DEF At
<1>4. At(P) <= a /\ a < At(P) + PageSize
  BY <1>1, PageOfRight
<1>5. /\ ALIGN_DOWN(lo) = At(S) /\ At(S) <= lo /\ lo < At(S) + PageSize
      /\ ALIGN_UP(hi) = At(R) /\ hi <= At(R) /\ At(R) < hi + PageSize
  BY AlignRight
<1> HIDE DEF P, S, R
<1>6. /\ P < R => At(P) + PageSize <= At(R)
      /\ R < P => At(R) + PageSize <= At(P)
      /\ P < S => At(P) + PageSize <= At(S)
      /\ S < P => At(S) + PageSize <= At(P)
      /\ P < 0 => At(P) + PageSize <= At(0)
      /\ Pages < P => At(Pages) + PageSize <= At(P)
  BY SMTT(60), <1>1, <1>2, AtOrder
<1>7. P \in 0 .. Pages - 1
  BY SMTT(60), <1>1, <1>2, <1>3, <1>4, <1>6, LoaderAssumption
<1>8. (At(P) < hi /\ lo < At(P) + PageSize) <=> (At(S) <= a /\ a < At(R))
  BY SMTT(60), <1>1, <1>2, <1>3, <1>4, <1>5, <1>6, LoaderAssumption
<1>9. P \in PagesOf(lo, hi) <=> (At(P) < hi /\ lo < At(P) + PageSize)
  BY <1>7, PagesOfRight
<1> QED BY <1>5, <1>8, <1>9 DEF P

(* A page lies wholly below or wholly above a rounded address.             *)
LEMMA PageAgainst ==
  ASSUME NEW p \in Int, NEW v \in Int
  PROVE  /\ At(p) < ALIGN_UP(v) => At(p) < v /\ At(p) + PageSize <= ALIGN_UP(v)
         /\ At(p) < v => At(p) < ALIGN_UP(v)
         /\ ALIGN_DOWN(v) < At(p) + PageSize <=> v < At(p) + PageSize
         /\ v <= At(p) => ALIGN_UP(v) <= At(p)
<1> DEFINE S == PageOf(v)  R == PageOf(v + PageSize - 1)
<1>1. PageSize \in Int /\ 0 < PageSize /\ v + PageSize - 1 \in Int
  BY SMTT(60), LoaderAssumption
<1>2. S \in Int /\ R \in Int
  BY <1>1, PageOfRight
<1>3. At(p) \in Int /\ At(S) \in Int /\ At(R) \in Int
  BY <1>2, AtOrder
<1>4. /\ ALIGN_DOWN(v) = At(S) /\ At(S) <= v /\ v < At(S) + PageSize
      /\ ALIGN_UP(v) = At(R) /\ v <= At(R) /\ At(R) < v + PageSize
  BY AlignRight
<1> HIDE DEF S, R
<1>5. /\ p < R => At(p) + PageSize <= At(R)
      /\ R < p => At(R) + PageSize <= At(p)
      /\ p < S => At(p) + PageSize <= At(S)
      /\ S < p => At(S) + PageSize <= At(p)
  BY <1>2, AtOrder
<1> HIDE DEF ALIGN_DOWN, ALIGN_UP
<1> QED BY SMTT(60), <1>1, <1>2, <1>3, <1>4, <1>5

(* Rounding respects order, a second rounding changes nothing, and moving  *)
(* by whole pages commutes with it.                                        *)
LEMMA AlignOrder ==
  ASSUME NEW v \in Int, NEW w \in Int, v <= w
  PROVE  ALIGN_UP(v) <= ALIGN_UP(w) /\ ALIGN_UP(ALIGN_UP(v)) = ALIGN_UP(v)
<1> DEFINE R == PageOf(v + PageSize - 1)  T == PageOf(w + PageSize - 1)
<1>1. v + PageSize - 1 \in Int /\ w + PageSize - 1 \in Int
  BY SMTT(60), LoaderAssumption
<1>2. R \in Int /\ T \in Int
  BY <1>1, PageOfRight
<1>3. /\ ALIGN_UP(v) = At(R) /\ v <= ALIGN_UP(v) /\ ALIGN_UP(v) \in Int
      /\ ALIGN_UP(w) = At(T) /\ w <= ALIGN_UP(w) /\ ALIGN_UP(w) \in Int
  BY AlignRight
<1> HIDE DEF R, T, ALIGN_UP
<1>4. ALIGN_UP(v) <= At(T)
  BY SMTT(60), <1>2, <1>3, PageAgainst
<1>5. ALIGN_UP(At(R)) <= At(R) /\ At(R) <= ALIGN_UP(At(R)) /\ ALIGN_UP(At(R)) \in Int
  BY <1>2, <1>3, PageAgainst, AlignRight
<1> QED BY SMTT(60), <1>3, <1>4, <1>5

(* A page-aligned bias shifts an aligned address to an aligned one.        *)
LEMMA AlignShift ==
  ASSUME NEW b \in Int, b = ALIGN_DOWN(b), NEW v \in Int
  PROVE  ALIGN_DOWN(b + v) = b + ALIGN_DOWN(v)
<1> DEFINE B == PageOf(b)  S == PageOf(v)
<1>1. PageSize \in Int /\ b + v \in Int
  BY SMTT(60), LoaderAssumption
<1>2. B \in Int /\ S \in Int /\ B + S \in Int
  BY SMTT(60), PageOfRight
<1>3. At(S) \in Int /\ At(B) = b /\ At(S) <= v /\ v < At(S) + PageSize /\ ALIGN_DOWN(v) = At(S)
  BY <1>2, AlignRight, AtOrder
<1> HIDE DEF B, S
<1>4. At(B + S) = b + At(S)
  BY <1>2, <1>3, AtSum
<1>5. At(B + S) <= b + v /\ b + v < At(B + S) + PageSize
  BY SMTT(60), <1>1, <1>3, <1>4
<1>6. PageOf(b + v) = B + S
  BY <1>1, <1>2, <1>5, PageOfRight
<1>7. ALIGN_DOWN(b + v) = At(PageOf(b + v))
  BY <1>1, AlignRight
<1> QED BY <1>3, <1>4, <1>6, <1>7

(* The offset in a page.                                                   *)
LEMMA ModRight ==
  ASSUME NEW v \in Nat
  PROVE  v % PageSize = v - ALIGN_DOWN(v)
<1>1. \A x \in Nat, d \in Nat \ {0} : x % d = x - d * (x \div d)
  BY SMTT(60)
<1>2. \A x \in Int, d \in Int : x * d = d * x
  BY SMTT(60)
<1> QED BY SMTT(60), <1>1, <1>2, LoaderAssumption DEF ALIGN_DOWN

(* Changing the protection of a range leaves every page with a protection. *)
LEMMA ProtectType ==
  ASSUME NEW pr \in [0 .. Pages - 1 -> {"none", "r", "rw"}], NEW lo, NEW hi, NEW ph
  PROVE  Protect(pr, lo, hi, ph) \in [0 .. Pages - 1 -> {"none", "r", "rw"}]
BY DEF Protect

(* What elf_map returns, and what it leaves when it succeeds.              *)
LEMMA ElfMapOutcome ==
  ASSUME NEW addr, NEW ph, NEW f, NEW o \in elf_map(addr, ph, f)
  PROVE  LET dataend  == addr + ph.filesz
             allocend == AllocEnd(addr, ph)
             zeropage == ZeroPage(dataend, allocend)
             mem1     == MapFile(mem, ALIGN_DOWN(addr), ALIGN_UP(dataend), f,
                                 ALIGN_DOWN(ph.offset))
             prot1    == Protect(prot, ALIGN_DOWN(addr), ALIGN_UP(dataend), ph)
             mem2     == MapZero(mem1, dataend, zeropage)
         IN  /\ o.ret \in {0, ENOMEM, ENOEXEC}
             /\ o.unnoticed \in BOOLEAN
             /\ o.ret = 0 /\ ~o.unnoticed =>
                  /\ ph.vaddr % PageSize = ph.offset % PageSize
                  /\ \/ /\ ~(allocend > dataend)
                        /\ o.mem = mem1 /\ o.prot = prot1
                     \/ /\ allocend > dataend /\ ~(allocend > zeropage)
                        /\ o.mem = mem2 /\ o.prot = prot1
                     \/ /\ allocend > dataend /\ allocend > zeropage
                        /\ o.mem = MapZero(mem2, zeropage, ALIGN_UP(allocend))
                        /\ o.prot = Protect(prot1, zeropage, allocend, ph)
             /\ prot \in [0 .. Pages - 1 -> {"none", "r", "rw"}] =>
                  o.prot \in [0 .. Pages - 1 -> {"none", "r", "rw"}]
<1> DEFINE
      dataend  == addr + ph.filesz
      mapend   == ALIGN_UP(dataend)
      allocend == AllocEnd(addr, ph)
      zeropage == ZeroPage(dataend, allocend)
      mem1     == MapFile(mem, ALIGN_DOWN(addr), mapend, f, ALIGN_DOWN(ph.offset))
      prot1    == Protect(prot, ALIGN_DOWN(addr), mapend, ph)
      mem2     == MapZero(mem1, dataend, zeropage)
      mem3     == MapZero(mem2, zeropage, ALIGN_UP(allocend))
      lent     == [prot1 EXCEPT ![dataend \div PageSize] = "rw"]
      out(m, p, r, u) == [mem |-> m, prot |-> p, ret |-> r, unnoticed |-> u]
      ended    == IF zeropage > dataend /\ ~ph.w
                  THEN {out(mem2, prot1, 0, FALSE), out(mem2, lent, 0, TRUE),
                        out(mem1, prot1, ENOMEM, FALSE)}
                  ELSE {out(mem2, prot1, 0, FALSE)}
      zeroed(e) == IF e.ret = 0 /\ allocend > zeropage
                   THEN {out(e.mem, e.prot, ENOMEM, e.unnoticed),
                         out(mem3, Protect(e.prot, zeropage, allocend, ph), 0, e.unnoticed)}
                   ELSE {e}
      mapped   == IF allocend > dataend THEN UNION {zeroed(e) : e \in ended}
                  ELSE {out(mem1, prot1, 0, FALSE)}
<1>1. o \in IF ph.vaddr % PageSize # ph.offset % PageSize THEN {out(mem, prot, ENOEXEC, FALSE)}
            ELSE mapped \cup (IF mapend > ALIGN_DOWN(addr) THEN {out(mem, prot, ENOMEM, FALSE)}
                              ELSE {})
  BY DEF elf_map
<1> DEFINE Modes == [0 .. Pages - 1 -> {"none", "r", "rw"}]
<1>2. prot \in Modes => prot1 \in Modes
  BY ProtectType
<1>3. prot \in Modes => lent \in Modes
  <2> HIDE DEF prot1
  <2> QED BY <1>2
<1> HIDE DEF dataend, mapend, allocend, zeropage, mem1, prot1, mem2, mem3, lent
<1>4. ASSUME NEW e \in ended
      PROVE  /\ e.ret \in {0, ENOMEM} /\ e.unnoticed \in BOOLEAN
             /\ e.ret = 0 /\ ~e.unnoticed => e.mem = mem2 /\ e.prot = prot1
             /\ prot \in Modes => e.prot \in Modes
  <2>1. \/ e = out(mem2, prot1, 0, FALSE)
        \/ e = out(mem2, lent, 0, TRUE)
        \/ e = out(mem1, prot1, ENOMEM, FALSE)
    <3> HIDE DEF out
    <3> QED BY <1>4
  <2> HIDE DEF Modes
  <2>2. CASE e = out(mem2, prot1, 0, FALSE)
    BY <1>2, <2>2
  <2>3. CASE e = out(mem2, lent, 0, TRUE)
    BY <1>3, <2>3
  <2>4. CASE e = out(mem1, prot1, ENOMEM, FALSE)
    BY SMTT(60), <1>2, <2>4 DEF ENOMEM
  <2> QED BY <2>1, <2>2, <2>3, <2>4
<1>5. ASSUME o \in mapped
      PROVE  /\ o.ret \in {0, ENOMEM} /\ o.unnoticed \in BOOLEAN
             /\ o.ret = 0 /\ ~o.unnoticed =>
                  \/ ~(allocend > dataend) /\ o.mem = mem1 /\ o.prot = prot1
                  \/ /\ allocend > dataend /\ ~(allocend > zeropage)
                     /\ o.mem = mem2 /\ o.prot = prot1
                  \/ /\ allocend > dataend /\ allocend > zeropage
                     /\ o.mem = mem3 /\ o.prot = Protect(prot1, zeropage, allocend, ph)
             /\ prot \in Modes => o.prot \in Modes
  <2>1. CASE allocend > dataend
    <3> HIDE DEF ended, zeroed, out
    <3>1. PICK e \in ended : o \in zeroed(e)
      BY <1>5, <2>1
    <3>2. CASE e.ret = 0 /\ allocend > zeropage
      <4>1. \/ o = out(e.mem, e.prot, ENOMEM, e.unnoticed)
            \/ o = out(mem3, Protect(e.prot, zeropage, allocend, ph), 0, e.unnoticed)
        BY <3>1, <3>2 DEF zeroed
      <4>2. e.prot \in Modes => Protect(e.prot, zeropage, allocend, ph) \in Modes
        BY ProtectType
      <4> HIDE DEF Modes
      <4> QED BY SMTT(60), <1>4, <2>1, <3>2, <4>1, <4>2 DEF out, ENOMEM
    <3>3. CASE ~(e.ret = 0 /\ allocend > zeropage)
      <4>1. o = e
        BY <3>1, <3>3 DEF zeroed
      <4> HIDE DEF Modes
      <4> QED BY <1>4, <2>1, <3>3, <4>1
    <3> QED BY <3>2, <3>3
  <2>2. CASE ~(allocend > dataend)
    <3>1. o = out(mem1, prot1, 0, FALSE)
      BY <1>5, <2>2
    <3> HIDE DEF Modes
    <3> QED BY <1>2, <2>2, <3>1
  <2> QED BY <2>1, <2>2
<1>6. ASSUME o = out(mem, prot, ENOMEM, FALSE) \/ o = out(mem, prot, ENOEXEC, FALSE)
      PROVE  /\ o.ret \in {ENOMEM, ENOEXEC} /\ o.ret # 0 /\ o.unnoticed \in BOOLEAN
             /\ prot \in Modes => o.prot \in Modes
  <2> HIDE DEF Modes
  <2>1. CASE o = out(mem, prot, ENOMEM, FALSE)
    BY SMTT(60), <2>1 DEF ENOMEM, ENOEXEC
  <2>2. CASE o = out(mem, prot, ENOEXEC, FALSE)
    BY SMTT(60), <2>2 DEF ENOMEM, ENOEXEC
  <2> QED BY <1>6, <2>1, <2>2
<1> HIDE DEF out, mapped
<1>7. CASE ph.vaddr % PageSize # ph.offset % PageSize
  BY <1>1, <1>6, <1>7
<1>8. CASE ph.vaddr % PageSize = ph.offset % PageSize
  <2>1. o \in mapped \/ o = out(mem, prot, ENOMEM, FALSE)
    BY <1>1, <1>8
  <2> HIDE DEF Modes
  <2>2. CASE o \in mapped
    BY <1>5, <1>8, <2>2 DEF Modes, dataend, mapend, allocend, zeropage, mem1, prot1, mem2, mem3
  <2>3. CASE o = out(mem, prot, ENOMEM, FALSE)
    BY <1>6, <2>3 DEF Modes
  <2> QED BY <2>1, <2>2, <2>3
<1> QED BY <1>7, <1>8

(* An outcome in which the segment is as its header says, and no page but  *)
(* its own has changed.                                                    *)
MapsOnly(o, f, ph, addr) ==
  LET own == PagesOf(addr, addr + ph.memsz)
  IN  /\ \A a \in Space : PageOf(a) \notin own => o.mem[a] = mem[a]
      /\ \A p \in (0 .. Pages - 1) \ own : o.prot[p] = prot[p]
      /\ \A k \in 0 .. ph.memsz - 1 :
           o.mem[addr + k] = IF k < ph.filesz THEN <<f, ph.offset + k>> ELSE Zero
      /\ \A p \in own : o.prot[p] = IF ph.w THEN "rw" ELSE "r"

(* elf_map maps its segment as the header says and touches no other page.  *)
LEMMA ElfMapRight ==
  ASSUME NEW f, NEW ph \in Phdr, NEW b \in Int, file[f].len \in Nat,
         b = ALIGN_DOWN(b), 0 <= b + ph.vaddr, b + ph.vaddr + ph.memsz <= Pages * PageSize,
         0 < ph.memsz, ph.filesz <= ph.memsz, ph.offset + ph.filesz <= file[f].len,
         NEW o \in elf_map(b + ph.vaddr, ph, f), o.ret = 0, ~o.unnoticed
  PROVE  MapsOnly(o, f, ph, b + ph.vaddr)
<1> DEFINE
      addr     == b + ph.vaddr
      top      == addr + ph.memsz
      own      == PagesOf(addr, top)
      dataend  == addr + ph.filesz
      mapstart == ALIGN_DOWN(addr)
      mapend   == ALIGN_UP(dataend)
      last     == ALIGN_UP(top)
      allocend == AllocEnd(addr, ph)
      zeropage == ZeroPage(dataend, allocend)
      mapoff   == ALIGN_DOWN(ph.offset)
      mem1     == MapFile(mem, mapstart, mapend, f, mapoff)
      prot1    == Protect(prot, mapstart, mapend, ph)
      mem2     == MapZero(mem1, dataend, zeropage)
<1>1. /\ ph.vaddr \in Nat /\ ph.offset \in Nat /\ ph.filesz \in Nat /\ ph.memsz \in Nat
      /\ ph.vaddr \in Int /\ ph.offset \in Int
      /\ ph.w \in BOOLEAN /\ PageSize \in Int /\ 0 < PageSize /\ Pages \in Int
  BY SMTT(60), LoaderAssumption DEF Phdr
<1>2. addr \in Int /\ top \in Int /\ dataend \in Int /\ addr <= dataend /\ dataend <= top
  BY SMTT(60), <1>1
<1>3. /\ mapstart \in Int /\ mapend \in Int /\ last \in Int /\ mapoff \in Int
      /\ mapstart <= addr /\ dataend <= mapend /\ top <= last
  <2> HIDE DEF addr, dataend, top
  <2>1. mapstart \in Int /\ mapstart <= addr
    BY <1>2, AlignRight
  <2>2. mapend \in Int /\ dataend <= mapend
    BY <1>2, AlignRight
  <2>3. last \in Int /\ top <= last
    BY <1>2, AlignRight
  <2>4. mapoff \in Int
    BY <1>1, AlignRight
  <2> QED BY <2>1, <2>2, <2>3, <2>4
<1>4. mapend <= last /\ ALIGN_UP(last) = last
  BY <1>2, <1>3, AlignOrder
<1>5. \/ allocend = top
      \/ allocend = last
  BY DEF AllocEnd
<1>6. allocend \in Int /\ top <= allocend /\ ALIGN_UP(allocend) = last
  BY SMTT(60), <1>2, <1>3, <1>4, <1>5
<1>7. zeropage = IF allocend < mapend THEN allocend ELSE mapend
  BY DEF ZeroPage
<1>8. ph.vaddr % PageSize = ph.offset % PageSize
      /\ \/ ~(allocend > dataend) /\ o.mem = mem1 /\ o.prot = prot1
         \/ /\ allocend > dataend /\ ~(allocend > zeropage)
            /\ o.mem = mem2 /\ o.prot = prot1
         \/ /\ allocend > dataend /\ allocend > zeropage
            /\ o.mem = MapZero(mem2, zeropage, ALIGN_UP(allocend))
            /\ o.prot = Protect(prot1, zeropage, allocend, ph)
  BY ElfMapOutcome
<1>9. addr - mapstart = ph.offset - mapoff
  <2>1. mapstart = b + ALIGN_DOWN(ph.vaddr)
    BY SMTT(60), <1>1, AlignShift
  <2>2. ph.vaddr % PageSize = ph.vaddr - ALIGN_DOWN(ph.vaddr)
    BY <1>1, ModRight
  <2>3. ph.offset % PageSize = ph.offset - mapoff
    BY <1>1, ModRight
  <2>4. ALIGN_DOWN(ph.vaddr) \in Int
    BY <1>1, AlignRight
  <2> HIDE DEF mapstart, mapoff
  <2> QED BY SMTT(60), <1>1, <1>3, <1>8, <2>1, <2>2, <2>3, <2>4
<1>10. ASSUME NEW a \in Space
       PROVE  PageOf(a) \in own <=> mapstart <= a /\ a < last
  BY <1>2, TouchedPages
<1>11. ASSUME NEW p \in 0 .. Pages - 1
       PROVE  /\ At(p) \in Int
              /\ p \in own <=> At(p) < top /\ addr < At(p) + PageSize
              /\ p \in PagesOf(mapstart, mapend) <=> At(p) < mapend /\ addr < At(p) + PageSize
              /\ p \in PagesOf(zeropage, allocend) <=>
                   At(p) < allocend /\ zeropage < At(p) + PageSize
              /\ At(p) < mapend => At(p) < dataend /\ At(p) + PageSize <= mapend
              /\ At(p) < dataend => At(p) < mapend
              /\ At(p) < last <=> At(p) < top
  <2>1. p \in Int
    BY SMTT(60), <1>11
  <2>2. At(p) \in Int
    BY <2>1, AtOrder
  <2>3. mapstart < At(p) + PageSize <=> addr < At(p) + PageSize
    BY <1>2, <2>1, PageAgainst
  <2>4. /\ At(p) < mapend => At(p) < dataend /\ At(p) + PageSize <= mapend
        /\ At(p) < dataend => At(p) < mapend
        /\ At(p) < last <=> At(p) < top
    BY <1>2, <2>1, PageAgainst
  <2>5. /\ p \in own <=> At(p) < top /\ addr < At(p) + PageSize
        /\ p \in PagesOf(mapstart, mapend) <=> At(p) < mapend /\ mapstart < At(p) + PageSize
        /\ p \in PagesOf(zeropage, allocend) <=>
             At(p) < allocend /\ zeropage < At(p) + PageSize
    BY <1>11, PagesOfRight
  <2> QED BY <2>2, <2>3, <2>4, <2>5
<1> HIDE DEF addr, top, own, dataend, mapstart, mapend, last, allocend, zeropage, mapoff
<1>12. ASSUME NEW a \in Space
       PROVE  /\ mem1[a] = IF mapstart <= a /\ a < mapend
                           THEN FileByte(f, mapoff + (a - mapstart)) ELSE mem[a]
              /\ mem2[a] = IF dataend <= a /\ a < zeropage THEN Zero ELSE mem1[a]
              /\ MapZero(mem2, zeropage, last)[a] =
                   IF zeropage <= a /\ a < last THEN Zero ELSE mem2[a]
  BY DEF MapFile, MapZero
<1>13. ASSUME NEW p \in 0 .. Pages - 1
       PROVE  /\ prot1[p] = IF p \in PagesOf(mapstart, mapend) THEN IF ph.w THEN "rw" ELSE "r"
                            ELSE prot[p]
              /\ Protect(prot1, zeropage, allocend, ph)[p] =
                   IF p \in PagesOf(zeropage, allocend) THEN IF ph.w THEN "rw" ELSE "r"
                   ELSE prot1[p]
  BY DEF Protect
<1>14. own \subseteq 0 .. Pages - 1
  BY DEF own, PagesOf
<1>15. ASSUME NEW k \in 0 .. ph.memsz - 1
       PROVE  /\ addr + k \in Space /\ addr + k \in Int
              /\ mapstart <= addr + k /\ addr + k < top
              /\ addr + k < dataend <=> k < ph.filesz
              /\ k < ph.filesz => FileByte(f, mapoff + (addr + k - mapstart)) = <<f, ph.offset + k>>
  <2>1. k \in Int /\ 0 <= k /\ k < ph.memsz
    BY SMTT(60), <1>1, <1>15
  <2>2. addr + k \in Space
    BY SMTT(60), <1>1, <2>1, AtOrder, LoaderAssumption DEF Space, addr
  <2>3. mapoff + (addr + k - mapstart) = ph.offset + k
    <3>1. \A x, y, z, u \in Int : x - y = z - u => u + (x + k - y) = z + k
      BY SMTT(60), <2>1
    <3> QED BY SMTT(60), <1>1, <1>2, <1>3, <1>9, <3>1
  <2>4. addr + k < dataend <=> k < ph.filesz
    BY SMTT(60), <1>1, <2>1 DEF addr, dataend
  <2>5. addr + k < top
    BY SMTT(60), <1>1, <2>1 DEF addr, top
  <2>6. k < ph.filesz => ph.offset + k < file[f].len
    BY SMTT(60), <1>1, <2>1
  <2> QED BY SMTT(60), <1>2, <1>3, <2>1, <2>2, <2>3, <2>4, <2>5, <2>6 DEF FileByte
<1> HIDE DEF mem1, mem2, prot1
<1>20. \A a \in Space : PageOf(a) \notin own => o.mem[a] = mem[a]
  BY SMTT(60), <1>2, <1>3, <1>4, <1>5, <1>6, <1>7, <1>8, <1>10, <1>12 DEF Space
<1>21. \A p \in (0 .. Pages - 1) \ own : o.prot[p] = prot[p]
  BY SMTT(60), <1>1, <1>2, <1>3, <1>4, <1>5, <1>6, <1>7, <1>8, <1>11, <1>13
<1>22. \A k \in 0 .. ph.memsz - 1 :
         o.mem[addr + k] = IF k < ph.filesz THEN <<f, ph.offset + k>> ELSE Zero
  BY SMTT(60), <1>2, <1>3, <1>4, <1>5, <1>6, <1>7, <1>8, <1>12, <1>15
<1>23. \A p \in own : o.prot[p] = IF ph.w THEN "rw" ELSE "r"
  BY SMTT(60), <1>1, <1>2, <1>3, <1>4, <1>5, <1>6, <1>7, <1>8, <1>11, <1>13, <1>14
<1> QED BY <1>20, <1>21, <1>22, <1>23 DEF MapsOnly, addr, own, top
-----------------------------------------------------------------------------
(* The headers of a linked file.                                           *)
LEMMA LinkedFacts ==
  ASSUME StateOK, NEW f \in Files, NEW k \in DOMAIN file[f].loads
  PROVE  LET ph == file[f].loads[k]
         IN  /\ file[f].loads \in Seq(Phdr) /\ file[f].len \in Nat
             /\ ph \in Phdr /\ ph.vaddr \in Nat /\ ph.memsz \in Nat /\ 0 < ph.memsz
             /\ ph.filesz <= ph.memsz /\ ph.offset + ph.filesz <= file[f].len
             /\ file[f].type = "EXEC" => ph.vaddr + ph.memsz <= Pages * PageSize
             /\ \A j \in DOMAIN file[f].loads : j < k =>
                  ALIGN_UP(file[f].loads[j].vaddr + file[f].loads[j].memsz) <= ALIGN_DOWN(ph.vaddr)
<1>1. file[f] \in ElfFile /\ file[f] \in Exes \cup Interps
  BY DEF StateOK, Files
<1>2. file[f].loads \in Seq(Phdr) /\ file[f].len \in Nat
  BY <1>1 DEF ElfFile
<1>3. file[f].loads[k] \in Phdr
  BY SMTT(60), <1>2
<1>4. file[f].loads[k].vaddr \in Nat /\ file[f].loads[k].memsz \in Nat
  BY <1>3 DEF Phdr
<1>5. Linked(file[f])
  BY <1>1, LinkedAssumption
<1>6. \A j \in DOMAIN file[f].loads : j < k => j \in 1 .. k - 1
  BY SMTT(60), <1>2
<1> QED BY <1>2, <1>3, <1>4, <1>5, <1>6 DEF Linked

(* Headers ascend.                                                         *)
LEMMA LinkedOrder ==
  ASSUME StateOK, NEW f \in Files,
         NEW j \in DOMAIN file[f].loads, NEW k \in DOMAIN file[f].loads, j <= k
  PROVE  /\ file[f].loads[j].vaddr <= file[f].loads[k].vaddr
         /\ file[f].loads[j].vaddr + file[f].loads[j].memsz
              <= file[f].loads[k].vaddr + file[f].loads[k].memsz
<1> DEFINE vj == file[f].loads[j].vaddr  mj == file[f].loads[j].memsz
           vk == file[f].loads[k].vaddr  mk == file[f].loads[k].memsz
<1>1. vj \in Nat /\ mj \in Nat /\ 0 < mj /\ vk \in Nat /\ mk \in Nat /\ 0 < mk
  BY LinkedFacts
<1>2. j < k => ALIGN_UP(vj + mj) <= ALIGN_DOWN(vk)
  BY LinkedFacts
<1>3. j \in Int /\ k \in Int
  <2> DEFINE L == file[f].loads
  <2>1. L \in Seq(Phdr) /\ j \in DOMAIN L /\ k \in DOMAIN L
    BY LinkedFacts
  <2> HIDE DEF L
  <2> QED BY SMTT(60), <2>1
<1> HIDE DEF vj, mj, vk, mk
<1>4. vj + mj \in Int /\ vk \in Int
  BY SMTT(60), <1>1
<1>5. /\ ALIGN_UP(vj + mj) \in Int /\ vj + mj <= ALIGN_UP(vj + mj)
      /\ ALIGN_DOWN(vk) \in Int /\ ALIGN_DOWN(vk) <= vk
  BY <1>4, AlignRight
<1>6. CASE j = k
  <2>1. \A x \in Nat : x <= x
    BY SMTT(60)
  <2>2. \A x, y \in Nat : x + y \in Nat
    BY SMTT(60)
  <2> QED BY <1>1, <1>6, <2>1, <2>2 DEF vj, mj, vk, mk
<1>7. CASE j < k
  <2>1. vj <= vk /\ vj + mj <= vk + mk
    BY SMTT(60), <1>1, <1>2, <1>4, <1>5, <1>7
  <2> QED BY <2>1 DEF vj, mj, vk, mk
<1>8. j = k \/ j < k
  BY SMTT(60), <1>3
<1> QED BY <1>6, <1>7, <1>8

(* Two segments of a file, moved by the same bias, share no page.          *)
LEMMA SegmentsApart ==
  ASSUME StateOK, NEW f \in Files,
         NEW j \in DOMAIN file[f].loads, NEW k \in DOMAIN file[f].loads, j < k,
         bias[f] = ALIGN_DOWN(bias[f])
  PROVE  PagesOf(Lo(f, j), Hi(f, j)) \cap PagesOf(Lo(f, k), Hi(f, k)) = {}
<1> DEFINE vj == file[f].loads[j].vaddr  mj == file[f].loads[j].memsz
           vk == file[f].loads[k].vaddr  b == bias[f]  B == PageOf(b)
<1>1. vj \in Nat /\ mj \in Nat /\ vk \in Nat /\ b \in Int /\ PageSize \in Int
  <2>1. PageSize \in Int
    BY SMTT(60), LoaderAssumption
  <2> QED BY <2>1, LinkedFacts DEF StateOK
<1>2. ALIGN_UP(vj + mj) <= ALIGN_DOWN(vk)
  BY LinkedFacts
<1>3. B \in Int /\ At(B) = b
  <2>1. B \in Int
    BY <1>1, PageOfRight
  <2>2. ALIGN_DOWN(b) = At(B)
    BY <1>1, AlignRight
  <2> QED BY <2>1, <2>2
<1>4. ASSUME NEW p \in PagesOf(Lo(f, j), Hi(f, j)), p \in PagesOf(Lo(f, k), Hi(f, k))
      PROVE  FALSE
  <2>1. p \in 0 .. Pages - 1 /\ At(p) < Hi(f, j) /\ Lo(f, k) < At(p) + PageSize
    BY <1>4, PagesOfRight
  <2>2. At(p) < b + vj + mj /\ b + vk < At(p) + PageSize
    BY <2>1 DEF Hi, Lo
  <2> HIDE DEF vj, mj, vk, b, B
  <2>3. p \in Int /\ p - B \in Int /\ vj + mj \in Int /\ vk \in Int
    BY SMTT(60), <1>1, <1>3, <2>1
  <2>4. At(p) \in Int /\ At(p - B) = At(p) - b /\ At(p - B) \in Int
    BY <1>3, <2>3, AtSum, AtOrder
  <2>5. At(p - B) < vj + mj /\ vk < At(p - B) + PageSize
    BY SMTT(60), <1>1, <2>2, <2>4
  <2>6. At(p - B) + PageSize <= ALIGN_UP(vj + mj)
    BY <2>3, <2>5, PageAgainst
  <2>7. ALIGN_DOWN(vk) \in Int /\ ALIGN_DOWN(vk) <= vk /\ ALIGN_UP(vj + mj) \in Int
    BY <2>3, AlignRight
  <2> QED BY SMTT(60), <1>1, <1>2, <2>3, <2>4, <2>5, <2>6, <2>7
<1> QED BY <1>4

(* elf_determine_load_bias places a file on whole pages, inside the        *)
(* address space and away from the program that is already mapped.         *)
LEMMA BiasPlaced ==
  ASSUME StateOK, phdata[cur] = file[cur].loads, cur = "interp" => FileRight("exe"),
         DetermineBias, pc' = "map"
  PROVE  PlacedInv'
<1> DEFINE L == file[cur].loads  first == L[1]  final == L[Len(L)]
           v(k) == L[k].vaddr  e(k) == L[k].vaddr + L[k].memsz
<1>1. PICK b : /\ bias' = [bias EXCEPT ![cur] = b]
               /\ \/ file[cur].type = "EXEC" /\ b = 0
                  \/ file[cur].type = "DYN" /\ HasRange(L) /\ b \in Biases(L)
  BY DEF DetermineBias, Goto
<1>2. UNCHANGED <<file, cur>> /\ cur \in Files /\ L \in Seq(Phdr)
  BY DEF DetermineBias, input, StateOK, ElfFile
<1>3. \A k \in DOMAIN L : v(k) \in Nat /\ e(k) \in Nat /\ k \in Nat
  <2>1. \A x, y \in Nat : x + y \in Nat
    BY SMTT(60)
  <2>2. \A k \in DOMAIN L : L[k].vaddr \in Nat /\ L[k].memsz \in Nat
    BY <1>2, LinkedFacts
  <2>3. \A k \in DOMAIN L : k \in Nat
    <3> HIDE DEF L
    <3> QED BY SMTT(60), <1>2
  <2> QED BY <2>1, <2>2, <2>3
<1>4. PageSize \in Int /\ 0 < PageSize /\ Pages \in Int /\ 0 <= Pages
  BY SMTT(60), LoaderAssumption
<1>5. At(0) = 0 /\ At(Pages) = Pages * PageSize /\ At(Pages) \in Int
  BY SMTT(60), <1>4 DEF At
<1>6. CASE file[cur].type = "EXEC" /\ b = 0
  <2>1. 0 = ALIGN_DOWN(0)
    <3>1. PageOf(0) = 0
      BY SMTT(60), <1>4, <1>5, PageOfRight
    <3> QED BY SMTT(60), <1>5, <3>1, AlignRight
  <2>2. cur # "interp"
    BY <1>6, LinkedAssumption DEF StateOK
  <2>3. \A k \in DOMAIN L : v(k) \in Nat /\ 0 <= v(k) /\ v(k) + L[k].memsz <= Pages * PageSize
    <3>1. \A x \in Nat : 0 <= x
      BY SMTT(60)
    <3>2. \A k \in DOMAIN L : v(k) + L[k].memsz <= Pages * PageSize
      BY <1>2, <1>6, LinkedFacts
    <3> QED BY <1>3, <3>1, <3>2
  <2>4. bias'[cur] = 0
    BY <1>1, <1>2, <1>6 DEF StateOK
  <2>5. bias'[cur] = ALIGN_DOWN(bias'[cur])
    BY <2>1, <2>4
  <2>6. ASSUME NEW k \in DOMAIN L
        PROVE  0 <= bias'[cur] + v(k) /\ bias'[cur] + v(k) + L[k].memsz <= Pages * PageSize
    <3>1. bias'[cur] + v(k) = v(k)
      <4>1. \A x \in Nat : 0 + x = x
        BY SMTT(60)
      <4> QED BY <1>3, <2>4, <4>1
    <3> QED BY <2>3, <3>1
  <2> QED BY <1>2, <2>2, <2>5, <2>6 DEF PlacedInv, InSpace, Lo, Hi
<1>7. CASE file[cur].type = "DYN" /\ HasRange(L) /\ b \in Biases(L)
  <2>1. L # << >>
    BY <1>7 DEF HasRange
  <2>2. 1 \in DOMAIN L /\ Len(L) \in DOMAIN L
    BY SMTT(60), <1>2, <2>1
  <2> DEFINE start == ALIGN_DOWN(v(1))  end == e(Len(L))
  <2>3. PICK q \in 0 .. Pages - 1 :
          /\ b = At(q) - start
          /\ At(q) + (end - start) <= At(Pages)
          /\ \A r \in PagesOf(At(q), At(q) + (end - start)) : prot[r] = "none"
    BY <1>5, <1>7 DEF Biases, At
  <2>4. q \in Int /\ 0 <= q /\ v(1) \in Int /\ end \in Int
    <3>1. v(1) \in Nat /\ end \in Nat
      BY <1>3, <2>2
    <3> HIDE DEF v, end
    <3> QED BY SMTT(60), <1>4, <2>3, <3>1
  <2>5. PageOf(v(1)) \in Int /\ start = At(PageOf(v(1))) /\ start \in Int /\ start <= v(1)
    <3>1. PageOf(v(1)) \in Int
      BY <2>4, PageOfRight
    <3>2. start = At(PageOf(v(1))) /\ start \in Int /\ start <= v(1)
      BY <2>4, AlignRight
    <3> QED BY <3>1, <3>2
  <2>6. At(q) \in Int /\ 0 <= At(q)
    <3>1. At(q) \in Int /\ (0 < q => At(0) + PageSize <= At(q))
      BY SMTT(60), <2>4, AtOrder
    <3> QED BY SMTT(60), <1>4, <1>5, <2>4, <3>1
  <2>7. b \in Int /\ b = ALIGN_DOWN(b)
    <3>1. b = At(q - PageOf(v(1))) /\ q - PageOf(v(1)) \in Int /\ b \in Int
      <4>1. At(q - PageOf(v(1))) = At(q) - At(PageOf(v(1)))
        BY <2>4, <2>5, AtSum
      <4> HIDE DEF start, end, v
      <4> QED BY SMTT(60), <2>3, <2>4, <2>5, <2>6, <4>1
    <3>2. PageOf(b) = q - PageOf(v(1))
      BY SMTT(60), <1>4, <3>1, PageOfRight
    <3> QED BY <3>1, <3>2, AlignRight
  <2>8. \A k \in DOMAIN L : v(1) <= v(k) /\ e(k) <= end
    <3> SUFFICES ASSUME NEW k \in DOMAIN L PROVE v(1) <= v(k) /\ e(k) <= end
      OBVIOUS
    <3>1. 1 <= k /\ k <= Len(L)
      BY SMTT(60), <1>2
    <3>2. v(1) <= v(k)
      BY <1>2, <2>2, <3>1, LinkedOrder
    <3>3. e(k) <= end
      BY <1>2, <2>2, <3>1, LinkedOrder
    <3> QED BY <3>2, <3>3
  <2>9. bias'[cur] = b
    BY <1>1, <1>2 DEF StateOK
  <2>10. \A k \in DOMAIN L : L[k].memsz \in Nat /\ e(k) = v(k) + L[k].memsz
    BY <1>2, LinkedFacts
  <2> HIDE DEF L, start, end, v, e
  <2>11. ASSUME NEW k \in DOMAIN L
         PROVE  /\ 0 <= b + v(k) /\ b + e(k) <= At(Pages)
                /\ At(q) <= b + v(k) /\ b + e(k) <= At(q) + (end - start)
                /\ b + v(k) + L[k].memsz = b + e(k) /\ b + v(k) \in Int /\ b + e(k) \in Int
    BY SMTT(60), <1>3, <1>5, <2>3, <2>4, <2>5, <2>6, <2>7, <2>8, <2>10
  <2>12. ASSUME NEW k \in DOMAIN L, NEW p \in PagesOf(b + v(k), b + v(k) + L[k].memsz)
         PROVE  prot[p] = "none"
    <3>1. p \in 0 .. Pages - 1 /\ At(p) < b + e(k) /\ b + v(k) < At(p) + PageSize
      BY <2>11, <2>12, PagesOfRight
    <3>2. At(p) \in Int
      BY SMTT(60), <3>1, AtOrder
    <3>3. At(p) < At(q) + (end - start) /\ At(q) < At(p) + PageSize
      BY SMTT(60), <1>4, <2>4, <2>5, <2>6, <2>11, <3>1, <3>2
    <3> QED BY <2>3, <3>1, <3>3, PagesOfRight
  <2>13. ASSUME cur = "interp", NEW j \in DOMAIN file["exe"].loads, NEW k \in DOMAIN L
         PROVE  PagesOf(Lo("exe", j), Hi("exe", j))
                  \cap PagesOf(b + v(k), b + v(k) + L[k].memsz) = {}
    <3>1. SegmentRight("exe", file["exe"].loads[j])
      BY <2>13 DEF FileRight
    <3>2. \A p \in PagesOf(Lo("exe", j), Hi("exe", j)) : prot[p] # "none"
      BY <3>1 DEF SegmentRight, Lo, Hi
    <3> QED BY <2>12, <3>2
  <2>14. cur = "interp" => bias'["exe"] = bias["exe"]
    BY <1>1 DEF StateOK, Files
  <2>15. \A k \in DOMAIN L : Lo(cur, k)' = b + v(k) /\ Hi(cur, k)' = b + v(k) + L[k].memsz
    BY <1>2, <2>9 DEF Lo, Hi, L, v
  <2>16. InSpace(cur)'
    BY <1>2, <1>5, <2>11, <2>15 DEF InSpace, L
  <2>17. cur = "interp" =>
           \A j \in DOMAIN file["exe"].loads :
             Lo("exe", j)' = Lo("exe", j) /\ Hi("exe", j)' = Hi("exe", j)
    BY <1>2, <2>14 DEF Lo, Hi
  <2>18. (bias[cur] = ALIGN_DOWN(bias[cur]))'
    BY <1>2, <2>7, <2>9 DEF ALIGN_DOWN
  <2> QED BY SMTT(60), <1>2, <2>13, <2>15, <2>16, <2>17, <2>18 DEF PlacedInv, L, PagesOf
<1> QED BY <1>1, <1>6, <1>7

(* The bytes of a placed segment are in its pages.                         *)
LEMMA SegmentRange ==
  ASSUME StateOK, NEW f \in Files, NEW k \in DOMAIN file[f].loads,
         0 <= Lo(f, k), Hi(f, k) <= Pages * PageSize,
         NEW i \in 0 .. file[f].loads[k].memsz - 1
  PROVE  Lo(f, k) + i \in Space /\ PageOf(Lo(f, k) + i) \in PagesOf(Lo(f, k), Hi(f, k))
<1> DEFINE m == file[f].loads[k].memsz  lo == Lo(f, k)  hi == Hi(f, k)
<1>1. file[f].loads[k].vaddr \in Nat /\ m \in Nat /\ bias[f] \in Int
  BY LinkedFacts DEF StateOK
<1>2. lo \in Int /\ hi = lo + m /\ hi \in Int
  BY SMTT(60), <1>1 DEF Lo, Hi
<1>3. PageSize \in Nat /\ Pages \in Nat
  BY LoaderAssumption
<1> HIDE DEF m, lo, hi
<1>4. i \in Int /\ 0 <= i /\ i < m
  BY SMTT(60), <1>1 DEF m
<1>5. lo + i \in Space
  BY SMTT(60), <1>1, <1>2, <1>3, <1>4 DEF Space, lo, hi
<1>6. /\ ALIGN_DOWN(lo) \in Int /\ ALIGN_DOWN(lo) <= lo
      /\ ALIGN_UP(hi) \in Int /\ hi <= ALIGN_UP(hi)
  BY <1>2, AlignRight
<1>7. ALIGN_DOWN(lo) <= lo + i /\ lo + i < ALIGN_UP(hi)
  BY SMTT(60), <1>1, <1>2, <1>4, <1>6
<1>8. 0 <= lo
  BY DEF lo
<1>9. PageOf(lo + i) \in PagesOf(lo, hi)
  BY <1>2, <1>5, <1>7, <1>8, TouchedPages
<1> QED BY <1>5, <1>9 DEF lo, hi

(* Memory and protection outside these pages are left alone.               *)
Spares(own) ==
  /\ \A a \in Space : PageOf(a) \notin own => mem'[a] = mem[a]
  /\ \A p \in (0 .. Pages - 1) \ own : prot'[p] = prot[p]

(* A segment whose pages the step leaves alone stays as it is.             *)
LEMMA SegmentKept ==
  ASSUME StateOK, NEW f \in Files, NEW k \in DOMAIN file[f].loads, NEW own,
         SegmentRight(f, file[f].loads[k]), 0 <= Lo(f, k), Hi(f, k) <= Pages * PageSize,
         PagesOf(Lo(f, k), Hi(f, k)) \cap own = {}, UNCHANGED <<file, bias>>, Spares(own)
  PROVE  SegmentRight(f, file[f].loads[k])'
<1> DEFINE ph == file[f].loads[k]
<1>1. ASSUME NEW i \in 0 .. ph.memsz - 1
      PROVE  mem'[Lo(f, k) + i] = mem[Lo(f, k) + i]
  <2>1. Lo(f, k) + i \in Space /\ PageOf(Lo(f, k) + i) \in PagesOf(Lo(f, k), Hi(f, k))
    BY SegmentRange
  <2> QED BY <2>1 DEF Spares
<1>2. ASSUME NEW p \in PagesOf(Lo(f, k), Hi(f, k))
      PROVE  prot'[p] = prot[p]
  <2>1. p \in 0 .. Pages - 1 /\ p \notin own
    BY PagesOfRight
  <2> QED BY <2>1 DEF Spares
<1> QED BY <1>1, <1>2 DEF SegmentRight, Lo, Hi
-----------------------------------------------------------------------------
(* The control of load_elf_binary: types, return values, what is open.     *)
LEMMA InitIInv == Init => IInv
<1> SUFFICES ASSUME Init PROVE IInv
  OBVIOUS
<1>1. PICK e \in Exes, l \in Interps : file = [f \in Files |-> IF f = "exe" THEN e ELSE l]
  BY DEF Init
<1>2. e \in ElfFile /\ l \in ElfFile
  BY LoaderAssumption
<1>3. file \in [Files -> ElfFile] /\ file["exe"] \in Exes /\ file["interp"] \in Interps
  BY <1>1, <1>2 DEF Files
<1>4. phdata \in [Files -> Seq(Phdr)] /\ bias \in [Files -> Int]
  BY SMTT(60) DEF Init
<1>5. prot \in [0 .. Pages - 1 -> {"none", "r", "rw"}]
  BY DEF Init
<1>6. TypeOK
  <2>1. StateOK
    BY SMTT(60), <1>3, <1>4, <1>5 DEF Init, StateOK, Files
  <2> QED BY <2>1 DEF Init, TypeOK
<1>7. PathInv /\ HeadersInv /\ MappedInv /\ pc # "map"
  BY DEF Init, PathInv, HeadersInv, MappedInv
<1> QED BY <1>6, <1>7 DEF IInv

(* load_elf_phdrs gives up, or maps the page and reads headers of the file *)
(* from it.                                                                *)
LEMMA PhdrsRead ==
  ASSUME StateOK, NEW f \in Files, NEW next, NEW fail, load_elf_phdrs(f, next, fail)
  PROVE  /\ phdata' \in [Files -> Seq(Phdr)]
         /\ \/ Goto(fail, retval) /\ phpages' = phpages
            \/ phpages' = phpages \cup {f} /\ pc' = next /\ UNCHANGED <<retval, refused>>
<1>1. ASSUME NEW k \in 0 .. Len(file[f].loads),
             phdata' = [phdata EXCEPT ![f] = SubSeq(file[f].loads, 1, k)]
      PROVE  phdata' \in [Files -> Seq(Phdr)]
  <2>1. file[f].loads \in Seq(Phdr)
    BY DEF StateOK, ElfFile
  <2>2. SubSeq(file[f].loads, 1, k) \in Seq(Phdr)
    BY SMTT(60), <2>1
  <2> QED BY <1>1, <2>2 DEF StateOK
<1> QED BY <1>1 DEF load_elf_phdrs, StateOK

(* Every load bias the kernel or the file may choose is a number.          *)
LEMMA BiasesType ==
  ASSUME StateOK, HasRange(phdata[cur]), NEW b \in Biases(phdata[cur])
  PROVE  b \in Int
<1>1. phdata[cur] \in Seq(Phdr)
  BY DEF StateOK
<1>2. phdata[cur][1].vaddr \in Int
  <2>1. phdata[cur][1] \in Phdr
    BY SMTT(60), <1>1 DEF HasRange
  <2> QED BY SMTT(60), <2>1 DEF Phdr
<1>3. ALIGN_DOWN(phdata[cur][1].vaddr) \in Int
  BY <1>2, AlignRight
<1>4. PICK q \in 0 .. Pages - 1 : b = q * PageSize - ALIGN_DOWN(phdata[cur][1].vaddr)
  BY DEF Biases
<1> QED BY SMTT(60), <1>3, <1>4, LoaderAssumption

(* Every step keeps the types of the loader's state.                       *)
LEMMA NextState ==
  ASSUME StateOK, [Next]_vars
  PROVE  StateOK'
<1> USE DEF ENOEXEC, ELIBBAD, ENOMEM, EIO, ENOENT
<1> "exe" \in Files /\ "interp" \in Files
  BY DEF Files
<1>1. CASE UNCHANGED vars
  BY <1>1 DEF StateOK, vars, input, memory
<1>2. CASE Open
  BY SMTT(60), <1>2 DEF StateOK, Open, Goto, input, memory
<1>3. CASE Header
  BY SMTT(60), <1>3 DEF StateOK, Header, Goto, input, memory
<1>4. CASE LoadPhdrs
  BY <1>4, PhdrsRead DEF StateOK, LoadPhdrs, Goto, input, memory
<1>5. CASE NoInterp
  BY <1>5 DEF StateOK, NoInterp, input, memory
<1>6. CASE Interp
  BY SMTT(60), <1>6 DEF StateOK, Interp, InterpError, Goto, input, memory
<1>7. CASE InterpHeader
  BY <1>7 DEF StateOK, InterpHeader, Goto, input, memory
<1>8. CASE InterpPhdrs
  BY <1>8, PhdrsRead DEF StateOK, InterpPhdrs, Goto, input, memory
<1>9. CASE DetermineBias
  <2>1. bias' \in [Files -> Int]
    BY SMTT(60), <1>9, BiasesType DEF StateOK, DetermineBias
  <2> QED BY SMTT(60), <1>9, <2>1 DEF StateOK, DetermineBias, Goto, input, memory
<1>10. CASE MapSegment
  <2>1. PICK o \in elf_map(bias[cur] + phdata[cur][n].vaddr, phdata[cur][n], cur) :
               /\ prot' = o.prot
               /\ IF o.ret < 0 THEN Goto("free", o.ret) /\ UNCHANGED n
                  ELSE retval' = 0 /\ n' = n + 1 /\ UNCHANGED <<pc, refused>>
    BY <1>10 DEF MapSegment
  <2>2. o.ret \in {0, ENOMEM, ENOEXEC} /\ o.prot \in [0 .. Pages - 1 -> {"none", "r", "rw"}]
    BY ElfMapOutcome DEF StateOK
  <2> QED BY SMTT(60), <1>10, <2>1, <2>2 DEF StateOK, MapSegment, Goto, input
<1>11. CASE StartInterp
  BY SMTT(60), <1>11 DEF StateOK, StartInterp, input, memory
<1>12. CASE Loaded
  BY SMTT(60), <1>12 DEF StateOK, Loaded, input, memory
<1>13. CASE OutFreePh
  BY <1>13 DEF StateOK, OutFreePh, FreedPages, input, memory
<1>14. CASE OutClose
  BY <1>14 DEF StateOK, OutClose, input, memory
<1>15. CASE Out
  BY <1>1, <1>15 DEF Out
<1> QED BY <1>1, <1>2, <1>3, <1>4, <1>5, <1>6, <1>7, <1>8, <1>9, <1>10, <1>11, <1>12, <1>13,
           <1>14, <1>15 DEF Next

(* Every step keeps the history flags Boolean, and an unnoticed failure    *)
(* stays known.                                                            *)
LEMMA NextFlags ==
  ASSUME TypeOK, [Next]_vars
  PROVE  /\ refused' \in BOOLEAN /\ unnoticed' \in BOOLEAN
         /\ unnoticed => unnoticed'
<1>1. CASE UNCHANGED vars
  BY <1>1 DEF TypeOK, vars
<1>2. CASE Open
  BY <1>2 DEF TypeOK, Open, Goto
<1>3. CASE Header
  BY <1>3 DEF TypeOK, Header, Goto
<1>4. CASE LoadPhdrs
  BY <1>4 DEF TypeOK, LoadPhdrs, load_elf_phdrs, Goto
<1>5. CASE NoInterp
  BY <1>5 DEF TypeOK, NoInterp
<1>6. CASE Interp
  <2>1. refused' = refused \/ refused' = TRUE
    BY <1>6 DEF Interp, Goto
  <2>2. unnoticed' = unnoticed \/ unnoticed' = TRUE
    BY <1>6 DEF Interp
  <2> QED BY <2>1, <2>2 DEF TypeOK
<1>7. CASE InterpHeader
  BY <1>7 DEF TypeOK, InterpHeader, Goto
<1>8. CASE InterpPhdrs
  BY <1>8 DEF TypeOK, InterpPhdrs, load_elf_phdrs, Goto
<1>9. CASE DetermineBias
  BY <1>9 DEF TypeOK, DetermineBias, Goto
<1>10. CASE MapSegment
  BY <1>10 DEF TypeOK, MapSegment, Goto
<1>11. CASE StartInterp \/ Loaded \/ OutFreePh \/ OutClose
  BY <1>11 DEF TypeOK, StartInterp, Loaded, OutFreePh, OutClose
<1>12. CASE Out
  BY <1>1, <1>12 DEF Out
<1> QED BY <1>1, <1>2, <1>3, <1>4, <1>5, <1>6, <1>7, <1>8, <1>9, <1>10, <1>11, <1>12 DEF Next

(* Every step keeps what the program counter says of the files.            *)
LEMMA NextPath ==
  ASSUME TypeOK, PathInv, [Next]_vars
  PROVE  PathInv'
<1> USE DEF ENOEXEC, ELIBBAD, ENOMEM, EIO, ENOENT
<1> "exe" \in Files /\ "interp" \in Files
  BY DEF Files
<1>1. CASE UNCHANGED vars
  BY <1>1 DEF PathInv, vars
<1>2. CASE Open
  BY SMTT(60), <1>2 DEF PathInv, Open, Goto
<1>3. CASE Header
  BY SMTT(60), <1>3 DEF PathInv, Header, Goto
<1>4. CASE LoadPhdrs
  <2>1. \/ Goto("close", retval) /\ phpages' = phpages
        \/ phpages' = phpages \cup {"exe"} /\ pc' = "interp" /\ UNCHANGED <<retval, refused>>
    BY <1>4, PhdrsRead DEF TypeOK, LoadPhdrs
  <2> QED BY SMTT(60), <1>4, <2>1 DEF PathInv, LoadPhdrs, Goto
<1>5. CASE NoInterp
  BY <1>5 DEF PathInv, NoInterp
<1>6. CASE Interp
  BY SMTT(60), <1>6 DEF PathInv, Interp, InterpError, Goto
<1>7. CASE InterpHeader
  BY SMTT(60), <1>7 DEF PathInv, InterpHeader, Goto
<1>8. CASE InterpPhdrs
  <2>1. \/ Goto("free", retval) /\ phpages' = phpages
        \/ phpages' = phpages \cup {"interp"} /\ pc' = "bias" /\ UNCHANGED <<retval, refused>>
    BY <1>8, PhdrsRead DEF TypeOK, InterpPhdrs
  <2> QED BY SMTT(60), <1>8, <2>1 DEF PathInv, InterpPhdrs, Goto
<1>9. CASE DetermineBias
  BY SMTT(60), <1>9 DEF PathInv, DetermineBias, Goto
<1>10. CASE MapSegment
  <2>1. PICK o \in elf_map(bias[cur] + phdata[cur][n].vaddr, phdata[cur][n], cur) :
               IF o.ret < 0 THEN Goto("free", o.ret) /\ UNCHANGED n
               ELSE retval' = 0 /\ n' = n + 1 /\ UNCHANGED <<pc, refused>>
    BY <1>10 DEF MapSegment
  <2>2. o.ret \in {0, ENOMEM, ENOEXEC}
    BY ElfMapOutcome
  <2> QED BY <1>10, <2>1, <2>2 DEF PathInv, MapSegment, Goto
<1>11. CASE StartInterp
  BY <1>11 DEF PathInv, StartInterp
<1>12. CASE Loaded
  BY SMTT(60), <1>12 DEF PathInv, Loaded
<1>13. CASE OutFreePh
  BY <1>13 DEF PathInv, OutFreePh, FreedPages
<1>14. CASE OutClose
  BY <1>14 DEF PathInv, OutClose
<1>15. CASE Out
  BY <1>1, <1>15 DEF Out
<1> QED BY <1>1, <1>2, <1>3, <1>4, <1>5, <1>6, <1>7, <1>8, <1>9, <1>10, <1>11, <1>12, <1>13,
           <1>14, <1>15 DEF Next
-----------------------------------------------------------------------------
(* Which headers are in memory, and which files are open.                  *)
LEMMA AllRead ==
  ASSUME StateOK, ~unnoticed', NEW f \in Files, NEW next, NEW fail,
         load_elf_phdrs(f, next, fail), fail # next
  PROVE  pc' = next => phdata' = [phdata EXCEPT ![f] = file[f].loads]
<1> SUFFICES ASSUME pc' = next PROVE phdata' = [phdata EXCEPT ![f] = file[f].loads]
  OBVIOUS
<1>1. PICK k \in 0 .. Len(file[f].loads) :
        /\ phdata' = [phdata EXCEPT ![f] = SubSeq(file[f].loads, 1, k)]
        /\ unnoticed' = (unnoticed \/ k < Len(file[f].loads))
  BY DEF load_elf_phdrs, Goto
<1>2. file[f].loads \in Seq(Phdr)
  BY DEF StateOK, ElfFile
<1>3. k = Len(file[f].loads)
  <2>1. ~(k < Len(file[f].loads))
    BY <1>1
  <2> QED BY SMTT(60), <1>2, <2>1
<1>4. SubSeq(file[f].loads, 1, k) = file[f].loads
  BY SMTT(60), <1>2, <1>3
<1> QED BY <1>1, <1>4

(* Every step keeps the headers in use those of the mapped page.           *)
LEMMA NextHeaders ==
  ASSUME TypeOK, ~unnoticed, ~unnoticed', HeadersInv, [Next]_vars
  PROVE  HeadersInv'
<1> "exe" \in Files /\ "interp" \in Files
  BY DEF Files
<1>1. CASE UNCHANGED vars
  BY <1>1 DEF HeadersInv, vars, input
<1>2. CASE Open
  BY <1>2 DEF HeadersInv, Open, Goto, input
<1>3. CASE Header
  BY <1>3 DEF HeadersInv, Header, Goto, input
<1>4. CASE LoadPhdrs
  <2>1. pc' = "interp" \/ pc' = "close"
    BY <1>4 DEF LoadPhdrs, load_elf_phdrs, Goto
  <2>2. pc' = "interp" => phdata' = [phdata EXCEPT !["exe"] = file["exe"].loads]
    BY <1>4, AllRead DEF LoadPhdrs, TypeOK
  <2>3. pc' = "interp" => phdata'["exe"] = file["exe"].loads
    BY <2>2 DEF TypeOK, StateOK
  <2> QED BY <1>4, <2>1, <2>3 DEF HeadersInv, LoadPhdrs, input
<1>5. CASE NoInterp
  BY <1>5 DEF HeadersInv, NoInterp, input
<1>6. CASE Interp
  BY <1>6 DEF HeadersInv, Interp, Goto, input
<1>7. CASE InterpHeader
  BY <1>7 DEF HeadersInv, InterpHeader, Goto, input
<1>8. CASE InterpPhdrs
  <2>1. pc' = "bias" \/ pc' = "free"
    BY <1>8 DEF InterpPhdrs, load_elf_phdrs, Goto
  <2>2. pc' = "bias" => phdata' = [phdata EXCEPT !["interp"] = file["interp"].loads]
    BY <1>8, AllRead DEF InterpPhdrs, TypeOK
  <2>3. pc' = "bias" => phdata'["interp"] = file["interp"].loads /\ phdata'["exe"] = phdata["exe"]
    BY <2>2 DEF TypeOK, StateOK
  <2> QED BY <1>8, <2>1, <2>3 DEF HeadersInv, InterpPhdrs, input
<1>9. CASE DetermineBias
  BY <1>9 DEF HeadersInv, DetermineBias, Goto, input
<1>10. CASE MapSegment
  BY <1>10 DEF HeadersInv, MapSegment, Goto, input
<1>11. CASE StartInterp
  BY <1>11 DEF HeadersInv, StartInterp, input
<1>12. CASE Loaded
  BY <1>12 DEF HeadersInv, Loaded, input
<1>13. CASE OutFreePh
  BY <1>13 DEF HeadersInv, OutFreePh, input
<1>14. CASE OutClose
  BY <1>14 DEF HeadersInv, OutClose, input
<1>15. CASE Out
  BY <1>1, <1>15 DEF Out
<1> QED BY <1>1, <1>2, <1>3, <1>4, <1>5, <1>6, <1>7, <1>8, <1>9, <1>10, <1>11, <1>12, <1>13,
           <1>14, <1>15 DEF Next
-----------------------------------------------------------------------------
(* Nothing is mapped or moved: what was right stays right.                 *)
LEMMA ImageKept ==
  ASSUME UNCHANGED <<file, bias, mem, prot>>
  PROVE  /\ \A f \in Files : FileRight(f) => FileRight(f)'
         /\ \A f \in Files : InSpace(f) => InSpace(f)'
<1>0. ASSUME NEW f, NEW ph, SegmentRight(f, ph)
      PROVE  SegmentRight(f, ph)'
  <2> DEFINE Right(m, b, q) ==
        /\ \A k \in 0 .. ph.memsz - 1 :
             m[b[f] + ph.vaddr + k] = IF k < ph.filesz THEN <<f, ph.offset + k>> ELSE Zero
        /\ \A p \in PagesOf(b[f] + ph.vaddr, b[f] + ph.vaddr + ph.memsz) :
             q[p] = IF ph.w THEN "rw" ELSE "r"
  <2>1. Right(mem, bias, prot)
    BY <1>0 DEF SegmentRight
  <2>2. Right(mem', bias', prot') => SegmentRight(f, ph)'
    BY DEF SegmentRight
  <2> HIDE DEF Right
  <2> QED BY <2>1, <2>2
<1>1. \A f \in Files : FileRight(f) => FileRight(f)'
  BY <1>0 DEF FileRight
<1>2. \A f \in Files : InSpace(f) => InSpace(f)'
  BY DEF InSpace, Lo, Hi
<1> QED BY <1>1, <1>2

(* A segment is mapped: it is right, and all that were right still are.    *)
LEMMA MapStep ==
  ASSUME TypeOK, ~unnoticed, ~unnoticed', HeadersInv, PlacedInv, MappedInv, MapSegment, pc' = "map"
  PROVE  PlacedInv' /\ MappedInv'
<1> DEFINE L == file[cur].loads  ph == L[n]  own == PagesOf(Lo(cur, n), Hi(cur, n))
<1>1. /\ phdata[cur] = L /\ cur \in Files /\ "exe" \in Files /\ bias[cur] \in Int /\ StateOK
      /\ L \in Seq(Phdr)
  <2>1. pc = "map"
    BY DEF MapSegment
  <2>2. StateOK /\ cur \in Files /\ "exe" \in Files /\ bias[cur] \in Int /\ L \in Seq(Phdr)
    BY DEF TypeOK, StateOK, Files, ElfFile
  <2>3. cur = "exe" \/ cur = "interp"
    BY <2>2 DEF Files
  <2>4. phdata[cur] = L
    BY <2>1, <2>3 DEF HeadersInv
  <2> QED BY <2>2, <2>4
<1>2. n \in DOMAIN L /\ n \in Nat
  <2>1. n <= Len(phdata[cur])
    BY DEF MapSegment
  <2>2. n \in Nat \ {0}
    BY <1>1 DEF StateOK
  <2> QED BY SMTT(60), <1>1, <2>1, <2>2
<1>3. UNCHANGED <<file, bias, cur>> /\ pc = "map"
  BY DEF MapSegment, input
<1>4. PICK o \in elf_map(bias[cur] + ph.vaddr, ph, cur) :
             /\ mem' = o.mem /\ prot' = o.prot
             /\ unnoticed' = (unnoticed \/ o.unnoticed)
             /\ IF o.ret < 0 THEN Goto("free", o.ret) /\ UNCHANGED n
                ELSE retval' = 0 /\ n' = n + 1 /\ UNCHANGED <<pc, refused>>
  BY <1>1 DEF MapSegment
<1>5. ~o.unnoticed
  BY <1>4
<1>6. ~(o.ret < 0) /\ n' = n + 1
  BY <1>4 DEF Goto
<1>7. o.ret = 0
  <2>1. o.ret \in {0, ENOMEM, ENOEXEC}
    BY ElfMapOutcome
  <2> QED BY SMTT(60), <1>6, <2>1 DEF ENOMEM, ENOEXEC
<1>8. /\ ph \in Phdr /\ file[cur].len \in Nat /\ 0 < ph.memsz /\ ph.filesz <= ph.memsz
      /\ ph.offset + ph.filesz <= file[cur].len
  BY <1>1, <1>2, LinkedFacts
<1>9. /\ 0 <= bias[cur] + ph.vaddr /\ bias[cur] + ph.vaddr + ph.memsz <= Pages * PageSize
      /\ bias[cur] = ALIGN_DOWN(bias[cur])
      /\ own = PagesOf(bias[cur] + ph.vaddr, bias[cur] + ph.vaddr + ph.memsz)
  BY <1>2 DEF PlacedInv, InSpace, Lo, Hi
<1>10. MapsOnly(o, cur, ph, bias[cur] + ph.vaddr)
  <2> DEFINE b == bias[cur]
  <2>1. b \in Int /\ o \in elf_map(b + ph.vaddr, ph, cur) /\ b = ALIGN_DOWN(b)
        /\ 0 <= b + ph.vaddr /\ b + ph.vaddr + ph.memsz <= Pages * PageSize
    BY <1>1, <1>4, <1>9
  <2> HIDE DEF b, ph
  <2>2. MapsOnly(o, cur, ph, b + ph.vaddr)
    BY <1>5, <1>7, <1>8, <2>1, ElfMapRight
  <2> QED BY <2>2 DEF b
<1> HIDE DEF own
<1>11. Spares(own)
  <2>1. /\ \A a \in Space : PageOf(a) \notin own => o.mem[a] = mem[a]
        /\ \A p \in (0 .. Pages - 1) \ own : o.prot[p] = prot[p]
    <3> HIDE DEF ph
    <3> QED BY <1>9, <1>10 DEF MapsOnly
  <2> QED BY <1>4, <2>1 DEF Spares
<1>12. ASSUME NEW k, k = n
       PROVE  SegmentRight(cur, L[k])'
  <2>1. /\ \A i \in 0 .. ph.memsz - 1 :
             o.mem[bias[cur] + ph.vaddr + i] = IF i < ph.filesz THEN <<cur, ph.offset + i>> ELSE Zero
        /\ \A p \in own : o.prot[p] = IF ph.w THEN "rw" ELSE "r"
    <3> HIDE DEF ph
    <3> QED BY <1>9, <1>10 DEF MapsOnly
  <2>2. mem' = o.mem /\ prot' = o.prot
    BY <1>4
  <2>3. L[k]' = ph /\ bias' = bias /\ cur' = cur
    BY <1>3, <1>12
  <2> DEFINE new == L[k]
  <2> HIDE DEF ph, new
  <2>4. SegmentRight(cur, new)'
    BY <1>9, <2>1, <2>2, <2>3 DEF SegmentRight, PagesOf, new
  <2> QED BY <2>4 DEF new
<1>13. ASSUME NEW k \in DOMAIN L, k < n
       PROVE  SegmentRight(cur, L[k])'
  <2>1. SegmentRight(cur, L[k])
    BY <1>3, <1>13 DEF MappedInv
  <2>2. PagesOf(Lo(cur, k), Hi(cur, k)) \cap own = {}
    BY <1>1, <1>2, <1>9, <1>13, SegmentsApart DEF own
  <2>3. 0 <= Lo(cur, k) /\ Hi(cur, k) <= Pages * PageSize
    BY <1>13 DEF PlacedInv, InSpace
  <2> QED BY <1>1, <1>3, <1>11, <2>1, <2>2, <2>3, SegmentKept
<1>14. ASSUME cur = "interp", NEW k \in DOMAIN file["exe"].loads
       PROVE  SegmentRight("exe", file["exe"].loads[k])'
  <2>1. SegmentRight("exe", file["exe"].loads[k])
    BY <1>3, <1>14 DEF MappedInv, FileRight
  <2>2. PagesOf(Lo("exe", k), Hi("exe", k)) \cap own = {}
    BY <1>2, <1>14 DEF PlacedInv, own
  <2>3. 0 <= Lo("exe", k) /\ Hi("exe", k) <= Pages * PageSize
    BY <1>3, <1>14 DEF MappedInv, InSpace
  <2> QED BY <1>1, <1>3, <1>11, <2>1, <2>2, <2>3, SegmentKept
<1>15. PlacedInv'
  BY <1>3 DEF PlacedInv, InSpace, Lo, Hi
<1>16. cur' = "interp" => FileRight("exe")' /\ InSpace("exe")'
  <2>1. cur = "interp" => InSpace("exe")
    BY <1>3 DEF MappedInv
  <2> QED BY <1>3, <1>14, <2>1 DEF FileRight, InSpace, Lo, Hi
<1>17. (\A k \in DOMAIN file[cur].loads : k < n => SegmentRight(cur, file[cur].loads[k]))'
  <2>1. \A k \in DOMAIN L : k < n + 1 => k < n \/ k = n
    BY SMTT(60), <1>1, <1>2
  <2> QED BY <1>3, <1>6, <1>13, <1>12, <2>1
<1> QED BY <1>15, <1>16, <1>17 DEF MappedInv

(* Every step keeps the mapped segments as the headers ask.                *)
LEMMA NextImage ==
  ASSUME IInv, ~unnoticed, ~unnoticed', HeadersInv', PathInv', [Next]_vars
  PROVE  (pc' = "map" => PlacedInv') /\ MappedInv'
<1> USE DEF ENOEXEC, ELIBBAD, ENOMEM, EIO, ENOENT
<1>1. /\ TypeOK /\ StateOK /\ PathInv /\ HeadersInv /\ (pc = "map" => PlacedInv) /\ MappedInv
      /\ "exe" \in Files /\ "interp" \in Files /\ cur \in Files
  BY DEF IInv, TypeOK, StateOK, Files
<1>2. CASE UNCHANGED vars
  <2>1. PlacedInv => PlacedInv'
    BY <1>2 DEF PlacedInv, InSpace, Lo, Hi, vars, input
  <2>2. MappedInv'
    <3>1. UNCHANGED <<file, bias, mem, prot, pc, cur, n, retval>>
      BY <1>2 DEF vars, input, memory
    <3>2. /\ FileRight("exe") => FileRight("exe")'
          /\ FileRight("interp") => FileRight("interp")'
          /\ InSpace("exe") => InSpace("exe")'
      BY <1>1, <3>1, ImageKept
    <3>3. \A k : SegmentRight(cur, file[cur].loads[k]) => SegmentRight(cur, file[cur].loads[k])'
      BY <3>1 DEF SegmentRight
    <3> QED BY <1>1, <3>1, <3>2, <3>3 DEF MappedInv
  <2> QED BY <1>1, <1>2, <2>1, <2>2 DEF vars
<1>3. CASE Open \/ Header \/ LoadPhdrs \/ NoInterp \/ Interp \/ InterpHeader \/ InterpPhdrs
  <2>1. /\ pc' \in {"out", "header", "close", "phdrs", "interp", "bias", "free", "ihdr", "iphdrs"}
        /\ cur' = "exe"
        /\ pc' \in {"free", "close", "out"} => refused' = TRUE
    <3>1. CASE Open \/ Header \/ NoInterp
      BY <1>1, <3>1 DEF Open, Header, NoInterp, Goto, HeadersInv
    <3>2. CASE LoadPhdrs \/ InterpPhdrs
      BY <1>1, <3>2 DEF LoadPhdrs, InterpPhdrs, load_elf_phdrs, Goto, HeadersInv
    <3>3. CASE Interp \/ InterpHeader
      BY <1>1, <3>3 DEF Interp, InterpHeader, Goto, HeadersInv
    <3> QED BY <1>3, <3>1, <3>2, <3>3
  <2>2. pc' \in {"free", "close", "out"} => retval' # 0
    BY SMTT(60), <2>1 DEF PathInv
  <2> QED BY <2>1, <2>2 DEF MappedInv
<1>4. CASE DetermineBias
  <2>1. CASE pc' = "map"
    <3>0. pc = "bias" /\ (cur = "exe" \/ cur = "interp")
      BY <1>1, <1>4 DEF DetermineBias, Files
    <3>1. phdata[cur] = file[cur].loads /\ n = 1 /\ pc = "bias"
      BY <1>1, <3>0 DEF HeadersInv
    <3>2. cur = "interp" => FileRight("exe") /\ InSpace("exe")
      BY <1>1, <3>1 DEF MappedInv
    <3>3. PlacedInv'
      BY <1>1, <1>4, <2>1, <3>1, <3>2, BiasPlaced
    <3>4. UNCHANGED <<file, cur, n, mem, prot>>
      BY <1>4 DEF DetermineBias, input, memory
    <3>5. cur = "interp" => bias'["exe"] = bias["exe"]
      BY <1>1, <1>4, <2>1 DEF DetermineBias, StateOK, Goto, Files
    <3>6. cur = "interp" => FileRight("exe")' /\ InSpace("exe")'
      <4>1. cur = "interp" => FileRight("exe")'
        BY <3>2, <3>4, <3>5 DEF FileRight, SegmentRight
      <4>2. cur = "interp" => InSpace("exe")'
        BY <3>2, <3>4, <3>5 DEF InSpace, Lo, Hi
      <4> QED BY <4>1, <4>2
    <3>7. \A k \in DOMAIN file[cur].loads : ~(k < 1)
      BY SMTT(60), <1>1 DEF StateOK, ElfFile
    <3> QED BY <2>1, <3>1, <3>3, <3>4, <3>6, <3>7 DEF MappedInv
  <2>2. CASE pc' # "map"
    <3>1. pc' = "free" /\ refused' = TRUE
      BY <1>4, <2>2 DEF DetermineBias, Goto
    <3>2. retval' # 0
      BY SMTT(60), <3>1 DEF PathInv
    <3> QED BY <3>1, <3>2 DEF MappedInv
  <2> QED BY <2>1, <2>2
<1>5. CASE MapSegment
  <2>1. CASE pc' = "map"
    <3>1. PlacedInv
      BY <1>1, <1>5 DEF MapSegment
    <3> QED BY <1>1, <1>5, <2>1, <3>1, MapStep
  <2>2. CASE pc' # "map"
    <3>1. pc' = "free" /\ refused' = TRUE
      BY <1>5, <2>2 DEF MapSegment, Goto
    <3>2. retval' # 0
      BY SMTT(60), <3>1 DEF PathInv
    <3> QED BY <3>1, <3>2 DEF MappedInv
  <2> QED BY <2>1, <2>2
<1>6. ASSUME pc = "map", n > Len(phdata[cur])
      PROVE  FileRight(cur) /\ InSpace(cur)
  <2>1. phdata[cur] = file[cur].loads /\ file[cur].loads \in Seq(Phdr) /\ n \in Nat
    BY <1>1, <1>6 DEF HeadersInv, StateOK, ElfFile, Files
  <2>2. \A k \in DOMAIN file[cur].loads : k < n
    BY SMTT(60), <1>6, <2>1
  <2> QED BY <1>1, <1>6, <2>2 DEF MappedInv, FileRight, PlacedInv
<1>7. CASE StartInterp
  <2>1. FileRight("exe") /\ InSpace("exe")
    BY <1>6, <1>7 DEF StartInterp
  <2>2. FileRight("exe")' /\ InSpace("exe")'
    BY <1>1, <1>7, <2>1, ImageKept DEF StartInterp, input, memory
  <2> QED BY <1>7, <2>2 DEF StartInterp, MappedInv
<1>8. CASE Loaded
  <2>1. FileRight("exe") /\ (file["exe"].interp # "no" => FileRight("interp"))
    BY <1>1, <1>6, <1>8 DEF Loaded, MappedInv, HeadersInv, Files
  <2>2. FileRight("exe")' /\ (file["exe"].interp # "no" => FileRight("interp")')
    BY <1>1, <1>8, <2>1, ImageKept DEF Loaded, input, memory
  <2> QED BY <1>8, <2>2 DEF Loaded, MappedInv, input
<1>9. CASE OutFreePh \/ OutClose
  <2>1. /\ pc \in {"free", "close"} /\ pc' \in {"close", "out"}
        /\ UNCHANGED <<file, bias, mem, prot, retval>>
    BY <1>9 DEF OutFreePh, OutClose, input, memory
  <2>2. retval = 0 => FileRight("exe") /\ (file["exe"].interp # "no" => FileRight("interp"))
    BY <1>1, <2>1 DEF MappedInv
  <2>3. retval = 0 => FileRight("exe")' /\ (file["exe"].interp # "no" => FileRight("interp")')
    BY <1>1, <2>1, <2>2, ImageKept
  <2> QED BY <2>1, <2>3 DEF MappedInv
<1>10. CASE Out
  BY <1>2, <1>10 DEF Out
<1> QED BY <1>2, <1>3, <1>4, <1>5, <1>7, <1>8, <1>9, <1>10 DEF Next

(* Every step keeps the inductive invariant.                               *)
LEMMA NextIInv == IInv /\ [Next]_vars => IInv'
<1> SUFFICES ASSUME IInv, [Next]_vars PROVE IInv'
  OBVIOUS
<1>1. TypeOK /\ PathInv
  BY DEF IInv
<1>2. TypeOK'
  BY <1>1, NextState, NextFlags DEF TypeOK
<1>3. PathInv'
  BY <1>1, NextPath
<1>4. ASSUME ~unnoticed'
      PROVE  HeadersInv' /\ (pc' = "map" => PlacedInv') /\ MappedInv'
  <2>1. ~unnoticed
    BY <1>1, <1>4, NextFlags
  <2>2. HeadersInv'
    BY <1>1, <1>4, <2>1, NextHeaders DEF IInv
  <2> QED BY <1>3, <1>4, <2>1, <2>2, NextImage
<1> QED BY <1>2, <1>3, <1>4 DEF IInv
-----------------------------------------------------------------------------
(* The inductive invariant holds in every reachable state.                 *)
THEOREM LoaderInvariant == Spec => []IInv
BY InitIInv, NextIInv, PTL DEF Spec

(* load_elf_binary returns an error exactly if one of its checks or calls  *)
(* failed, with both files closed and both header pages unmapped, and      *)
(* otherwise, unless a failure went unnoticed, leaves every segment of the *)
(* program and of its interpreter in memory as the headers say: for every  *)
(* page size, every number and shape of segments, and every failing call.  *)
THEOREM LoadsRight == Spec => []LoadedRight
<1>1. IInv => LoadedRight
  BY DEF IInv, PathInv, MappedInv, LoadedRight, NoErrorSwallowed, ImageRight, NothingLeaks
<1> QED BY <1>1, LoaderInvariant, PTL
=============================================================================
