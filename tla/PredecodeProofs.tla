-------------------------- MODULE PredecodeProofs ---------------------------
(* Predecode and Lift, for every size of the memory and every guest code:  *)
(* the function is found whole, cut into blocks where it has to be, and    *)
(* handed to the lifter in straight pieces.                                *)
EXTENDS Predecode, WellFoundedInduction, TLAPS

(* Leaves go to Zenon, with time for a slow machine; those that need       *)
(* arithmetic or sequences name the SMT solver.                            *)
USE ZenonT(60)

(* A set of numbers has a least element.                                   *)
LEMMA Least ==
  ASSUME NEW T, T \subseteq Nat, T # {}
  PROVE  \E x \in T : \A y \in T : x <= y
<1> DEFINE R == OpToRel(<, Nat)
<1>1. IsWellFoundedOn(R, Nat)
  BY NatLessThanWellFounded
<1>2. \A y, x \in Nat : y < x => <<y, x>> \in R
  BY SMTT(60) DEF OpToRel
<1> HIDE DEF R
<1>3. PICK x \in T : \A y \in T : ~(<<y, x>> \in R)
  BY <1>1, WFMin
<1>4. \A y \in T : x \in Nat /\ y \in Nat /\ ~(y < x)
  BY <1>2, <1>3
<1>5. \A y \in T : x <= y
  BY SMTT(60), <1>4
<1> QED BY <1>5
-----------------------------------------------------------------------------
(* What an encoding may be.                                                *)
LEMMA EncodingType ==
  ASSUME StateOK, NEW a \in Addr, NEW inst \in Encodings(a)
  PROVE  /\ inst \in Inst /\ inst # Unread
         /\ inst.op \in Jumps => Target(a, inst) \in 0 .. MemEnd
<1>1. /\ inst \in [op : Ops, size : Sizes, imm : -(MemEnd + 1) .. MemEnd, rd : {0, 1}]
      /\ inst.op \in Jumps => Target(a, inst) \in 0 .. MemEnd
  BY DEF Encodings
<1>2. arch = "x86_64" \/ arch = "rv64" \/ arch = "aarch64"
  BY DEF StateOK
<1> DEFINE Names == Jumps \cup {"jmp_indirect", "call", "ret", "jalr", "ecall", "bl", "br", "other", "bad"}
<1>3. Sizes \subseteq {1, 2}
  BY DEF Sizes
<1>4. Ops \subseteq Names
  BY SMTT(60), <1>2 DEF Ops, Jumps
<1>5. -(MemEnd + 1) .. MemEnd \subseteq Int
  BY SMTT(60), PredecodeAssumption
<1> HIDE DEF Names
<1>6. inst \in [op : Names, size : {1, 2}, imm : Int, rd : {0, 1}]
  BY <1>1, <1>3, <1>4, <1>5
<1> QED BY <1>1, <1>6, PredecodeAssumption DEF Inst, Names

(* What decoding returns.                                                  *)
LEMMA DecodeType ==
  ASSUME StateOK, NEW a \in Addr, NEW inst \in Encodings(a),
         decode_fn(a, inst).result # "FAILED"
  PROVE  LET res == decode_fn(a, inst)
         IN  /\ res.result \in {"NORMAL", "BRANCH", "COND_BRANCH", "CALL", "UNKNOWN_TGT"}
             /\ res.size \in 1 .. 2 /\ res.branch_target \in Nat
             /\ a + res.size \in Nat /\ res.size = inst.size
<1> DEFINE res == decode_fn(a, inst)
<1>1. inst \in Inst /\ (inst.op \in Jumps => Target(a, inst) \in 0 .. MemEnd)
  BY EncodingType
<1>2. inst.size \in {1, 2} /\ inst.imm \in Int /\ a \in Nat /\ MemEnd \in Nat
  BY SMTT(60), <1>1, PredecodeAssumption DEF Inst, Addr
<1>3. res = CASE arch = "x86_64"  -> DecodeX86_64(a, inst)
              [] arch = "rv64"    -> DecodeRV64(a, inst)
              [] arch = "aarch64" -> DecodeAArch64(a, inst)
  BY DEF decode_fn, FAILED
<1>4. \E r \in {"NORMAL", "BRANCH", "COND_BRANCH", "CALL", "UNKNOWN_TGT"} :
         \/ res = Result(r, inst, 0)
         \/ inst.op \in Jumps /\ res = Result(r, inst, Target(a, inst))
  <2>1. CASE arch = "x86_64"
    BY SMTT(60), <1>2, <1>3, <2>1 DEF DecodeX86_64, Target, Jumps
  <2>2. CASE arch = "rv64"
    BY SMTT(60), <1>2, <1>3, <2>2 DEF DecodeRV64, Target, Jumps
  <2>3. CASE arch = "aarch64"
    BY SMTT(60), <1>2, <1>3, <2>3 DEF DecodeAArch64, Target, Jumps
  <2> QED BY <2>1, <2>2, <2>3 DEF StateOK
<1> HIDE DEF res
<1>5. PICK r \in {"NORMAL", "BRANCH", "COND_BRANCH", "CALL", "UNKNOWN_TGT"}, t \in Nat :
        res = Result(r, inst, t)
  BY SMTT(60), <1>1, <1>2, <1>4
<1>6. res.result = r /\ res.size = inst.size /\ res.branch_target = t
  BY <1>5 DEF Result
<1>7. inst.size \in 1 .. 2 /\ a + inst.size \in Nat
  BY SMTT(60), <1>2
<1> QED BY <1>5, <1>6, <1>7 DEF res

(* Decoding depends on the architecture and on the bytes alone, and so     *)
(* does where the guest goes on.                                           *)
LEMMA SuccessorsKept ==
  ASSUME UNCHANGED config, NEW a, mem'[a] = mem[a]
  PROVE  /\ decode_fn(a, mem[a])' = decode_fn(a, mem[a])
         /\ Successors(a)' = Successors(a)
         /\ Decodes(a)' <=> Decodes(a)
         /\ MayDecode(a)' <=> MayDecode(a)
<1>1. arch' = arch /\ callret' = callret
  BY DEF config
<1>2. decode_fn(a, mem[a])' = decode_fn(a, mem[a])
  BY SMTT(60), <1>1 DEF decode_fn
<1>3. Successors(a)' = Successors(a)
  BY SMTT(60), <1>1, <1>2 DEF Successors
<1>4. Decodes(a)' <=> Decodes(a)
  BY <1>2 DEF Decodes
<1>5. MayDecode(a)' <=> MayDecode(a)
  BY <1>2 DEF MayDecode
<1> QED BY <1>2, <1>3, <1>4, <1>5
-----------------------------------------------------------------------------
InstRec == [addr : Addr, size : 1 .. 2, new_block : BOOLEAN]

(* The parts of the state that the provers need by themselves.             *)
LEMMA Types ==
  ASSUME StateOK
  PROVE  /\ insts \in Seq(InstRec) /\ Len(insts) \in Nat /\ DOMAIN insts = 1 .. Len(insts)
         /\ addr_map \in [Addr -> 0 .. Len(insts)] /\ addr_queue \in Seq(Nat)
         /\ cur_addr \in Nat /\ new_block \in BOOLEAN /\ mem \in [Addr -> Inst \cup {Unread}]
         /\ Entry \in Addr /\ Entry \in Nat /\ granularity \in 0 .. 2
         /\ DOMAIN addr_queue = 1 .. Len(addr_queue) /\ Len(addr_queue) \in Nat
         /\ \A k \in DOMAIN insts : insts[k] \in InstRec
<1>1. /\ insts \in Seq(InstRec) /\ addr_map \in [Addr -> 0 .. Len(insts)] /\ addr_queue \in Seq(Nat)
      /\ cur_addr \in Nat /\ new_block \in BOOLEAN /\ mem \in [Addr -> Inst \cup {Unread}]
      /\ Entry \in Addr /\ granularity \in 0 .. 2
  BY PredecodeAssumption DEF StateOK, TypeOK, InstRec
<1>2. Len(insts) \in Nat /\ DOMAIN insts = 1 .. Len(insts)
      /\ \A k \in DOMAIN insts : insts[k] \in InstRec
  BY SMTT(60), <1>1
<1>3. DOMAIN addr_queue = 1 .. Len(addr_queue) /\ Len(addr_queue) \in Nat
  BY SMTT(60), <1>1
<1>4. Entry \in Nat
  BY SMTT(60), PredecodeAssumption DEF Addr
<1> QED BY <1>1, <1>2, <1>3, <1>4

(* A known address has its place in insts.                                 *)
LEMMA KnownPlace ==
  ASSUME StateOK, NEW a, Known(a)
  PROVE  a \in Addr /\ addr_map[a] \in DOMAIN insts
<1>1. a \in Addr /\ addr_map[a] # 0
  BY DEF Known
<1>2. addr_map[a] \in 0 .. Len(insts) /\ Len(insts) \in Nat /\ DOMAIN insts = 1 .. Len(insts)
  BY <1>1, Types
<1> QED BY SMTT(60), <1>1, <1>2

-----------------------------------------------------------------------------
(* Reading back is a recursion along the pieces.  Up is what it computes   *)
(* for the first n of them; it exists, and depends on these n alone.       *)
Start == [at |-> Entry, start |-> TRUE, seq |-> << >>]
Up(s, n, f) == f = [j \in 0 .. n |-> IF j = 0 THEN Start ELSE ReadPiece(f[j - 1], s[j])]

LEMMA UpExists ==
  ASSUME NEW s, NEW n \in Nat
  PROVE  \E f : Up(s, n, f)
<1> DEFINE T == {m \in Nat : ~\E f : Up(s, m, f)}
<1> SUFFICES ASSUME T # {} PROVE FALSE
  OBVIOUS
<1>1. PICK x \in T : \A y \in T : x <= y
  BY Least
<1>2. x \in Nat /\ ~\E f : Up(s, x, f)
  BY <1>1
<1>3. CASE x = 0
  <2> DEFINE f == [j \in 0 .. 0 |-> Start]
  <2>1. \A j \in 0 .. 0 : j = 0
    BY SMTT(60)
  <2>2. f = [j \in 0 .. 0 |-> IF j = 0 THEN Start ELSE ReadPiece(f[j - 1], s[j])]
    BY <2>1
  <2> QED BY <1>2, <1>3, <2>2 DEF Up
<1>4. CASE x # 0
  <2>1. x - 1 \in Nat /\ ~(x <= x - 1)
    BY SMTT(60), <1>2, <1>4
  <2>2. PICK f : Up(s, x - 1, f)
    BY <1>1, <2>1
  <2> DEFINE G(j) == IF j = 0 THEN Start ELSE ReadPiece(f[j - 1], s[j])
             g == [j \in 0 .. x |-> G(j)]
  <2>3. \A j \in 0 .. x - 1 : j \in 0 .. x
    BY SMTT(60), <1>2
  <2>4. \A j \in 0 .. x - 1 : f[j] = G(j)
    BY <2>2 DEF Up
  <2>5. \A j \in 0 .. x - 1 : g[j] = f[j]
    BY <2>3, <2>4
  <2>6. \A j \in 0 .. x : j # 0 => j - 1 \in 0 .. x - 1
    BY SMTT(60), <1>2
  <2> HIDE DEF g
  <2>7. \A j \in 0 .. x : G(j) = IF j = 0 THEN Start ELSE ReadPiece(g[j - 1], s[j])
    BY <2>5, <2>6
  <2>8. Up(s, x, g)
    BY <2>7 DEF Up, g
  <2> QED BY <1>2, <2>8
<1> QED BY <1>3, <1>4

LEMMA UpUnique ==
  ASSUME NEW S, NEW s \in Seq(S), NEW piece \in S, NEW f, Up(s, Len(s), f),
         NEW h, Up(Append(s, piece), Len(s) + 1, h)
  PROVE  f[Len(s)] = h[Len(s)]
<1> DEFINE t == Append(s, piece)  m == Len(s)  T == {j \in 0 .. m : f[j] # h[j]}
<1>0. m \in Nat /\ m \in 0 .. m /\ \A j \in 1 .. m : s[j] = t[j]
  BY SMTT(60)
<1> SUFFICES ASSUME T # {} PROVE FALSE
  BY <1>0
<1>u. Up(s, m, f) /\ Up(t, m + 1, h)
  OBVIOUS
<1> HIDE DEF t, m
<1>1. T \subseteq Nat
  <2>1. 0 .. m \subseteq Nat
    BY SMTT(60), <1>0
  <2> QED BY <2>1
<1>2. PICK x \in T : \A y \in T : x <= y
  BY <1>1, Least
<1>3. x \in 0 .. m /\ f[x] # h[x]
  BY <1>2
<1>4. x \in 0 .. m + 1 /\ (x # 0 => x - 1 \in 0 .. m /\ x \in 1 .. m /\ ~(x <= x - 1))
  BY SMTT(60), <1>0, <1>3
<1>5. f[x] = IF x = 0 THEN Start ELSE ReadPiece(f[x - 1], s[x])
  BY <1>3, <1>u DEF Up
<1>6. h[x] = IF x = 0 THEN Start ELSE ReadPiece(h[x - 1], t[x])
  BY <1>4, <1>u DEF Up
<1>7. x # 0 => f[x - 1] = h[x - 1]
  BY <1>2, <1>4
<1> QED BY <1>0, <1>3, <1>4, <1>5, <1>6, <1>7

LEMMA ReadUp ==
  ASSUME NEW s, Len(s) \in Nat
  PROVE  \E f : Up(s, Len(s), f) /\ ReadBack(s) = f[Len(s)]
<1>1. \E f : Up(s, Len(s), f)
  BY UpExists
<1>2. ReadBack(s) = (CHOOSE f : Up(s, Len(s), f))[Len(s)]
  BY DEF ReadBack, Up, Start
<1> QED BY <1>1, <1>2

(* A piece more is read after the ones before it.                          *)
LEMMA ReadAppend ==
  ASSUME NEW S, NEW s \in Seq(S), NEW piece \in S
  PROVE  ReadBack(Append(s, piece)) = ReadPiece(ReadBack(s), piece)
<1> DEFINE t == Append(s, piece)  m == Len(s)
<1>1. /\ m \in Nat /\ Len(t) = m + 1 /\ m + 1 \in Nat /\ t[m + 1] = piece
      /\ m + 1 \in 0 .. m + 1 /\ m + 1 # 0 /\ (m + 1) - 1 = m
  BY SMTT(60)
<1>2. PICK f : Up(s, m, f) /\ ReadBack(s) = f[m]
  BY <1>1, ReadUp
<1> HIDE DEF t
<1>3. PICK h : Up(t, m + 1, h) /\ ReadBack(t) = h[m + 1]
  BY <1>1, ReadUp
<1>4. f[m] = h[m]
  BY <1>2, <1>3, UpUnique DEF t
<1>5. h[m + 1] = ReadPiece(h[m], piece)
  BY <1>1, <1>3 DEF Up
<1> QED BY <1>2, <1>3, <1>4, <1>5 DEF t

LEMMA ReadEmpty == ReadBack(<< >>) = Start
<1>1. Len(<< >>) = 0 /\ 0 \in Nat /\ 0 \in 0 .. 0
  BY SMTT(60)
<1>2. PICK f : Up(<< >>, 0, f) /\ ReadBack(<< >>) = f[0]
  BY <1>1, ReadUp
<1> QED BY <1>1, <1>2 DEF Up

(* What a reader has read, as a record.                                    *)
Reader(acc, at, start, seq) == acc = [at |-> at, start |-> start, seq |-> seq]
HasRead(acc, at, start, seq) == acc.at = at /\ acc.start = start /\ acc.seq = seq

LEMMA ReaderIs ==
  ASSUME NEW S, NEW at \in Nat, NEW start \in BOOLEAN, NEW seq \in S, NEW acc,
         Reader(acc, at, start, seq)
  PROVE  /\ acc \in [at : Nat, start : BOOLEAN, seq : S]
         /\ HasRead(acc, at, start, seq)
<1>1. acc \in [at : Nat, start : BOOLEAN, seq : S]
  BY SMTT(60) DEF Reader
<1>2. acc.at = at
  BY SMTT(60) DEF Reader
<1>3. acc.start = start
  BY SMTT(60) DEF Reader
<1>4. acc.seq = seq
  BY SMTT(60) DEF Reader
<1> QED BY <1>1, <1>2, <1>3, <1>4 DEF HasRead
-----------------------------------------------------------------------------
LEMMA InitIInv == Init => IInv
<1> SUFFICES ASSUME Init PROVE IInv
  OBVIOUS
<1> USE PredecodeAssumption
<1>0. /\ insts = << >> /\ addr_queue = <<Entry>> /\ Len(insts) = 0 /\ DOMAIN insts = {}
      /\ Entry \in Nat /\ addr_map = [a \in Addr |-> 0] /\ \A a \in Addr : addr_map[a] = 0
  BY SMTT(60) DEF Init, Addr
<1>1. StateOK
  <2>1. /\ insts \in Seq(InstRec) /\ addr_queue \in Seq(Nat) /\ 0 \in 0 .. Len(insts)
        /\ i \in 1 .. Len(insts) + 1
    BY SMTT(60), <1>0 DEF Init
  <2>2. /\ addr_map \in [Addr -> 0 .. Len(insts)] /\ mem \in [Addr -> Inst \cup {Unread}]
        /\ block_map \in [Addr -> Seq(Addr) \cup {Unread}]
    BY <1>0, <2>1 DEF Init
  <2> QED BY <1>0, <2>1, <2>2 DEF StateOK, TypeOK, Init, InstRec
<1>2. \A a \in Addr : ~Known(a) /\ ~Decodes(a)
  BY <1>0 DEF Known, Decodes, Init
<1>3. MapInv
  BY <1>0, <1>2 DEF MapInv
<1>4. OrderInv
  BY <1>0 DEF OrderInv, Init
<1>5. addr_queue[1] = Entry /\ DOMAIN addr_queue = {1}
  BY SMTT(60), <1>0
<1>6. NeededInv
  BY <1>2, <1>5 DEF NeededInv, Needed, Init
<1>7. PendingInv
  BY <1>0, <1>2, <1>5 DEF PendingInv, Pending, Init
<1>8. LiftInv
  <2>1. ~(i > 1)
    BY SMTT(60) DEF Init
  <2> QED BY <2>1 DEF LiftInv, Init
<1>9. HashInv
  <2>1. sha = << >> /\ << >> \in Seq(Piece) /\ << >> \in Seq(Addr \X Inst)
    BY SMTT(60) DEF Init
  <2>2. ReadBack(sha) = [at |-> Entry, start |-> TRUE, seq |-> << >>]
    BY <2>1, ReadEmpty DEF Start
  <2>3. /\ ReadBack(sha).seq = << >> /\ ReadBack(sha).start
        /\ ReadBack(sha) \in [at : Nat, start : BOOLEAN, seq : Seq(Addr \X Inst)]
    <3>1. PICK e, S : e = << >> /\ S = Seq(Addr \X Inst) /\ e \in S
      BY <2>1
    <3>2. Reader(ReadBack(sha), Entry, TRUE, e)
      BY <2>2, <3>1 DEF Reader
    <3>3. /\ ReadBack(sha).seq = e /\ ReadBack(sha).start
          /\ ReadBack(sha) \in [at : Nat, start : BOOLEAN, seq : S]
      <4>1. Entry \in Nat /\ TRUE \in BOOLEAN
        BY <1>0
      <4>2. /\ HasRead(ReadBack(sha), Entry, TRUE, e)
            /\ ReadBack(sha) \in [at : Nat, start : BOOLEAN, seq : S]
        BY <3>1, <3>2, <4>1, ReaderIs
      <4> QED BY <4>2 DEF HasRead
    <3> QED BY <3>1, <3>3
  <2>4. << >> = [k \in DOMAIN insts |-> <<insts[k].addr, mem[insts[k].addr]>>]
    BY <1>0, SMTT(60)
  <2> QED BY <2>1, <2>3, <2>4 DEF HashInv, HashDetermines, Init
<1> QED BY <1>1, <1>3, <1>4, <1>6, <1>7, <1>8, <1>9 DEF IInv
-----------------------------------------------------------------------------
(* JoinBlock marks the instruction at the current address.                 *)
LEMMA Join ==
  ASSUME StateOK, JoinBlock
  PROVE  /\ insts' \in Seq(InstRec) /\ Len(insts') = Len(insts) /\ DOMAIN insts' = DOMAIN insts
         /\ \A k \in DOMAIN insts :
              /\ insts'[k].addr = insts[k].addr /\ insts'[k].size = insts[k].size
              /\ insts[k].new_block => insts'[k].new_block
         /\ Known(cur_addr) /\ insts'[addr_map[cur_addr]].new_block
         /\ UNCHANGED <<config, mem, addr_map, addr_queue, sha, cur_addr, new_block, lifter>>
         /\ pc = "block" /\ EndBlock
<1> DEFINE n == addr_map[cur_addr]
<1>1. /\ Known(cur_addr) /\ insts' = [insts EXCEPT ![n].new_block = TRUE]
      /\ UNCHANGED <<config, mem, addr_map, addr_queue, sha, cur_addr, new_block, lifter>>
      /\ pc = "block" /\ EndBlock
  BY DEF JoinBlock, MarkBlock
<1>2. n \in DOMAIN insts /\ insts \in Seq(InstRec)
  BY <1>1, Types, KnownPlace
<1> HIDE DEF n
<1>3. \A k \in DOMAIN insts : insts[k] \in InstRec
  BY Types
<1>4. insts' = [insts EXCEPT ![n] = [insts[n] EXCEPT !.new_block = TRUE]]
  BY <1>1
<1>5. PICK r : r = [insts[n] EXCEPT !.new_block = TRUE]
  OBVIOUS
<1>6. r \in InstRec /\ r.addr = insts[n].addr /\ r.size = insts[n].size /\ r.new_block
  BY <1>2, <1>3, <1>5 DEF InstRec
<1>7. insts' = [insts EXCEPT ![n] = r]
  BY <1>4, <1>5
<1>8. insts' \in Seq(InstRec) /\ Len(insts') = Len(insts) /\ DOMAIN insts' = DOMAIN insts
  BY SMTT(60), <1>2, <1>6, <1>7
<1>9. \A k \in DOMAIN insts : insts'[k] = IF k = n THEN r ELSE insts[k]
  BY <1>7
<1> QED BY <1>1, <1>2, <1>6, <1>8, <1>9 DEF n

(* PopBlock moves the head of the queue to cur_addr.                       *)
LEMMA Pop ==
  ASSUME StateOK, PopBlock
  PROVE  /\ 1 \in DOMAIN addr_queue /\ cur_addr' = addr_queue[1] /\ cur_addr' \in Nat
         /\ addr_queue' \in Seq(Nat)
         /\ \A j \in DOMAIN addr_queue' :
              j + 1 \in DOMAIN addr_queue /\ addr_queue'[j] = addr_queue[j + 1]
         /\ \A j \in DOMAIN addr_queue :
              j = 1 \/ \E k \in DOMAIN addr_queue' : addr_queue'[k] = addr_queue[j]
         /\ addr_queue = <<Entry>> => addr_queue' = << >>
         /\ pc = "queue" /\ pc' = "block" /\ new_block' = TRUE
         /\ UNCHANGED <<config, mem, insts, addr_map, sha, lifter>>
<1>1. /\ addr_queue # << >> /\ cur_addr' = Head(addr_queue) /\ addr_queue' = Tail(addr_queue)
      /\ pc = "queue" /\ pc' = "block" /\ new_block' = TRUE
      /\ UNCHANGED <<config, mem, insts, addr_map, sha, lifter>>
  BY DEF PopBlock
<1>2. addr_queue \in Seq(Nat)
  BY Types
<1>3. /\ 1 \in DOMAIN addr_queue /\ cur_addr' = addr_queue[1] /\ cur_addr' \in Nat
      /\ addr_queue' \in Seq(Nat)
      /\ DOMAIN addr_queue = 1 .. Len(addr_queue) /\ Len(addr_queue) \in Nat
      /\ DOMAIN addr_queue' = 1 .. Len(addr_queue) - 1
      /\ \A j \in 1 .. Len(addr_queue) - 1 : addr_queue'[j] = addr_queue[j + 1]
  BY SMTT(60), <1>1, <1>2
<1>4. \A j \in DOMAIN addr_queue' : j + 1 \in DOMAIN addr_queue /\ addr_queue'[j] = addr_queue[j + 1]
  BY SMTT(60), <1>3
<1>5. ASSUME NEW j \in DOMAIN addr_queue, j # 1
      PROVE  \E k \in DOMAIN addr_queue' : addr_queue'[k] = addr_queue[j]
  <2>1. j - 1 \in 1 .. Len(addr_queue) - 1 /\ (j - 1) + 1 = j
    BY SMTT(60), <1>3, <1>5
  <2>2. addr_queue'[j - 1] = addr_queue[j]
    BY <1>3, <2>1
  <2> QED BY <1>3, <2>1, <2>2
<1>6. addr_queue = <<Entry>> => addr_queue' = << >>
  BY SMTT(60), <1>1
<1> QED BY <1>1, <1>3, <1>4, <1>5, <1>6

(* Where the guest goes on, by the result of decoding.                     *)
SuccessorsOf(res, next) ==
  CASE res.result = "NORMAL"          -> {next}
    [] res.result = "BRANCH"          -> {res.branch_target}
    [] res.result = "COND_BRANCH"     -> {res.branch_target, next}
    [] res.result = "CALL" /\ callret -> {next}
    [] OTHER                          -> {}

(* What is pushed, and the next in line, are the successors.               *)
LEMMA PushedRight ==
  ASSUME NEW res, NEW next \in Nat, res.branch_target \in Nat,
         res.result \in {"NORMAL", "BRANCH", "COND_BRANCH", "CALL", "UNKNOWN_TGT"}
  PROVE  LET P == Pushed(res, next)
         IN  /\ P \in Seq(Nat)
             /\ \A j \in DOMAIN P : P[j] \in SuccessorsOf(res, next)
             /\ \A b \in SuccessorsOf(res, next) :
                  \/ \E j \in DOMAIN P : P[j] = b
                  \/ res.result = "NORMAL" /\ b = next
             /\ res.result = "NORMAL" => next \in SuccessorsOf(res, next)
<1> DEFINE P == Pushed(res, next)  t == res.branch_target  Succ == SuccessorsOf(res, next)
<1>1. /\ P = CASE res.result = "BRANCH"          -> <<t>>
               [] res.result = "COND_BRANCH"     -> <<t, next>>
               [] res.result = "CALL" /\ callret -> <<next>>
               [] OTHER                          -> << >>
      /\ Succ = CASE res.result = "NORMAL"          -> {next}
                  [] res.result = "BRANCH"          -> {t}
                  [] res.result = "COND_BRANCH"     -> {t, next}
                  [] res.result = "CALL" /\ callret -> {next}
                  [] OTHER                          -> {}
  BY DEF Pushed, SuccessorsOf
<1> HIDE DEF P, Succ, t
<1>2. next \in Nat /\ t \in Nat
  BY DEF t
<1>3. CASE res.result = "NORMAL"
  <2>1. P = << >> /\ Succ = {next}
    BY <1>1, <1>3
  <2>2. DOMAIN P = {} /\ P \in Seq(Nat)
    BY SMTT(60), <2>1
  <2> QED BY <1>3, <2>1, <2>2 DEF P, Succ
<1>4. CASE res.result = "BRANCH"
  <2>1. P = <<t>> /\ Succ = {t}
    BY <1>1, <1>4
  <2>2. DOMAIN P = {1} /\ P[1] = t /\ P \in Seq(Nat)
    BY SMTT(60), <1>2, <2>1
  <2> QED BY <1>4, <2>1, <2>2 DEF P, Succ
<1>5. CASE res.result = "COND_BRANCH"
  <2>1. P = <<t, next>> /\ Succ = {t, next}
    BY <1>1, <1>5
  <2>2. DOMAIN P = {1, 2} /\ P[1] = t /\ P[2] = next /\ P \in Seq(Nat)
    BY SMTT(60), <1>2, <2>1
  <2> QED BY <1>5, <2>1, <2>2 DEF P, Succ
<1>6. CASE res.result = "CALL" /\ callret
  <2>1. P = <<next>> /\ Succ = {next}
    BY <1>1, <1>6
  <2>2. DOMAIN P = {1} /\ P[1] = next /\ P \in Seq(Nat)
    BY SMTT(60), <1>2, <2>1
  <2> QED BY <1>6, <2>1, <2>2 DEF P, Succ
<1>7. CASE (res.result = "CALL" /\ ~callret) \/ res.result = "UNKNOWN_TGT"
  <2>1. P = << >> /\ Succ = {}
    BY <1>1, <1>7
  <2>2. DOMAIN P = {} /\ P \in Seq(Nat)
    BY SMTT(60), <2>1
  <2> QED BY <1>7, <2>1, <2>2 DEF P, Succ
<1> QED BY <1>3, <1>4, <1>5, <1>6, <1>7

(* Reading at cur_addr changes nothing that was read before.               *)
LEMMA ReadOnce ==
  ASSUME StateOK, NEW inst, DecodeInst(inst)
  PROVE  /\ cur_addr \in Addr /\ ~Known(cur_addr) /\ pc = "block"
         /\ mem[cur_addr] = Unread \/ mem[cur_addr] = inst
         /\ mem'[cur_addr] = inst /\ \A a \in Addr : a # cur_addr => mem'[a] = mem[a]
         /\ \A a \in Addr : mem[a] # Unread => mem'[a] = mem[a]
         /\ UNCHANGED config /\ UNCHANGED lifter
<1>1. /\ cur_addr \in Addr /\ ~Known(cur_addr) /\ pc = "block" /\ mem[cur_addr] \in {Unread, inst}
      /\ mem' = [mem EXCEPT ![cur_addr] = inst] /\ UNCHANGED config /\ UNCHANGED lifter
  BY DEF DecodeInst
<1>2. mem \in [Addr -> Inst \cup {Unread}]
  BY Types
<1> QED BY <1>1, <1>2

(* An instruction was decoded: it is the last of insts.                    *)
LEMMA DecodeOk ==
  ASSUME StateOK, NEW inst, inst \in Encodings(cur_addr), DecodeInst(inst),
         decode_fn(cur_addr, inst).result # "FAILED"
  PROVE  LET res == decode_fn(cur_addr, inst)
             n   == Len(insts) + 1
         IN  /\ n \in Nat /\ n # 0 /\ Len(insts') = n /\ insts' \in Seq(InstRec)
             /\ DOMAIN insts' = DOMAIN insts \cup {n} /\ n \notin DOMAIN insts
             /\ \A k \in DOMAIN insts : insts'[k] = insts[k]
             /\ insts'[n].addr = cur_addr /\ insts'[n].size = res.size
             /\ insts'[n].new_block = new_block
             /\ addr_map' \in [Addr -> 0 .. n] /\ addr_map'[cur_addr] = n
             /\ \A a \in Addr : a # cur_addr => addr_map'[a] = addr_map[a]
             /\ cur_addr' = cur_addr + res.size /\ cur_addr' \in Nat /\ new_block' = FALSE
             /\ Append1(res, cur_addr + res.size)
<1> DEFINE res == decode_fn(cur_addr, inst)  n == Len(insts) + 1
           rec == [addr |-> cur_addr, size |-> res.size, new_block |-> new_block]
<1>1. /\ insts' = Append(insts, rec) /\ addr_map' = [addr_map EXCEPT ![cur_addr] = n]
      /\ cur_addr' = cur_addr + res.size /\ new_block' = FALSE
      /\ Append1(res, cur_addr + res.size) /\ cur_addr \in Addr
  BY DEF DecodeInst
<1>2. res.size \in 1 .. 2 /\ cur_addr + res.size \in Nat
  BY <1>1, DecodeType
<1> HIDE DEF res
<1>3. rec \in InstRec /\ rec.addr = cur_addr /\ rec.size = res.size /\ rec.new_block = new_block
  BY <1>1, <1>2, Types DEF InstRec
<1>4. insts \in Seq(InstRec) /\ addr_map \in [Addr -> 0 .. Len(insts)] /\ Len(insts) \in Nat
  BY Types
<1> HIDE DEF rec
<1>5. /\ n \in Nat /\ n # 0 /\ Len(insts') = n /\ insts' \in Seq(InstRec)
      /\ DOMAIN insts' = DOMAIN insts \cup {n} /\ n \notin DOMAIN insts
      /\ \A k \in DOMAIN insts : insts'[k] = insts[k]
      /\ insts'[n] = rec
  BY SMTT(60), <1>1, <1>3, <1>4
<1>6. \A a \in Addr : addr_map[a] \in 0 .. n /\ n \in 0 .. n
  BY SMTT(60), <1>4
<1>7. /\ addr_map' \in [Addr -> 0 .. n] /\ addr_map'[cur_addr] = n
      /\ \A a \in Addr : a # cur_addr => addr_map'[a] = addr_map[a]
  BY <1>1, <1>4, <1>6
<1> QED BY <1>1, <1>2, <1>3, <1>5, <1>7 DEF res

(* What the queue and the location are after it.                           *)
LEMMA DecodeGoes ==
  ASSUME StateOK, NEW inst, NEW a, a = cur_addr, inst \in Encodings(a), DecodeInst(inst),
         decode_fn(a, inst).result # "FAILED"
  PROVE  /\ addr_queue' \in Seq(Nat)
         /\ \A j \in DOMAIN addr_queue :
              j \in DOMAIN addr_queue' /\ addr_queue'[j] = addr_queue[j]
         /\ pc' \in {"block", "lift", "queue"}
         /\ pc' # "lift" => \A j \in DOMAIN addr_queue' : \/ j \in DOMAIN addr_queue
                                                       \/ addr_queue'[j] \in Successors(a)'
         /\ pc' = "block" => cur_addr' \in Successors(a)'
         /\ granularity = 2 =>
              /\ pc' # "lift"
              /\ \A b \in Successors(a)' :
                   \/ \E j \in DOMAIN addr_queue' : addr_queue'[j] = b
                   \/ pc' = "block" /\ b = cur_addr'
<1> DEFINE res == decode_fn(a, inst)  next == a + res.size
           P == Pushed(res, next)  Succ == SuccessorsOf(res, next)
<1>1. Successors(a)' = Succ
  <2>1. arch' = arch /\ callret' = callret /\ mem'[a] = inst
    BY ReadOnce DEF config
  <2>2. decode_fn(a, mem[a])' = res
    BY SMTT(60), <2>1 DEF decode_fn
  <2> QED BY SMTT(60), <2>1, <2>2 DEF Successors, SuccessorsOf
<1>2. /\ res.branch_target \in Nat /\ next \in Nat
      /\ res.result \in {"NORMAL", "BRANCH", "COND_BRANCH", "CALL", "UNKNOWN_TGT"}
  BY ReadOnce, DecodeType
<1>3. Append1(res, next) /\ cur_addr' = next /\ pc = "block"
  BY DecodeOk, ReadOnce
<1> HIDE DEF res, next
<1>4. /\ P \in Seq(Nat) /\ \A j \in DOMAIN P : P[j] \in Succ
      /\ \A b \in Succ : \/ \E j \in DOMAIN P : P[j] = b
                         \/ res.result = "NORMAL" /\ b = next
      /\ res.result = "NORMAL" => next \in Succ
  BY <1>2, PushedRight
<1> HIDE DEF P, Succ
<1>5. addr_queue \in Seq(Nat) /\ granularity \in 0 .. 2
  BY Types
<1>6. CASE granularity <= 0
  <2>1. pc' = "lift" /\ addr_queue' = addr_queue /\ granularity # 2
    <3>1. granularity <= 1 /\ granularity # 2
      BY SMTT(60), <1>5, <1>6
    <3> QED BY <1>3, <1>6, <3>1 DEF Append1, EndBlock
  <2> QED BY <1>5, <2>1
<1>7. CASE ~(granularity <= 0)
  <2>1. /\ addr_queue' = addr_queue \o P
        /\ res.result = "NORMAL" => pc' = "block"
        /\ res.result # "NORMAL" => EndBlock
    BY <1>3, <1>7 DEF Append1, P
  <2>2. pc' \in {"block", "lift", "queue"} /\ (granularity = 2 => pc' # "lift")
        /\ (pc' = "block" <=> res.result = "NORMAL")
    <3>1. granularity = 2 => ~(granularity <= 1)
      BY SMTT(60)
    <3> QED BY <2>1, <3>1 DEF EndBlock
  <2>3. /\ addr_queue' \in Seq(Nat)
        /\ DOMAIN addr_queue' = 1 .. Len(addr_queue) + Len(P)
        /\ DOMAIN addr_queue = 1 .. Len(addr_queue) /\ DOMAIN P = 1 .. Len(P)
        /\ Len(addr_queue) \in Nat /\ Len(P) \in Nat
        /\ \A j \in 1 .. Len(addr_queue) : addr_queue'[j] = addr_queue[j]
        /\ \A j \in 1 .. Len(P) : addr_queue'[Len(addr_queue) + j] = P[j]
    BY SMTT(60), <1>4, <1>5, <2>1
  <2>4. \A j \in DOMAIN addr_queue : j \in DOMAIN addr_queue' /\ addr_queue'[j] = addr_queue[j]
    BY SMTT(60), <2>3
  <2>5. ASSUME NEW j \in DOMAIN addr_queue', j \notin DOMAIN addr_queue
        PROVE  addr_queue'[j] \in Succ
    <3>1. j - Len(addr_queue) \in DOMAIN P /\ Len(addr_queue) + (j - Len(addr_queue)) = j
      BY SMTT(60), <2>3, <2>5
    <3> QED BY <1>4, <2>3, <3>1
  <2>6. ASSUME NEW b \in Succ
        PROVE  \/ \E j \in DOMAIN addr_queue' : addr_queue'[j] = b
               \/ pc' = "block" /\ b = cur_addr'
    <3>1. \A j \in DOMAIN P : Len(addr_queue) + j \in DOMAIN addr_queue'
      BY SMTT(60), <2>3
    <3>2. ASSUME NEW j \in DOMAIN P, P[j] = b
          PROVE  Len(addr_queue) + j \in DOMAIN addr_queue' /\ addr_queue'[Len(addr_queue) + j] = b
      BY <2>3, <3>1, <3>2
    <3>3. res.result = "NORMAL" /\ b = next => pc' = "block" /\ b = cur_addr'
      BY <1>3, <2>2
    <3> QED BY <1>4, <3>2, <3>3
  <2>7. pc' = "block" => cur_addr' \in Succ
    BY <1>3, <1>4, <2>2
  <2>8. addr_queue' \in Seq(Nat)
    BY <2>3
  <2> QED BY <1>1, <2>2, <2>4, <2>5, <2>6, <2>7, <2>8
<1> QED BY <1>6, <1>7

(* A read that does not decode.                                            *)
LEMMA DecodeBad ==
  ASSUME StateOK, NEW inst, DecodeInst(inst), decode_fn(cur_addr, inst).result = "FAILED"
  PROVE  EndBlock /\ UNCHANGED found
  BY DEF DecodeInst, FailedBlock
-----------------------------------------------------------------------------
(* Skipping ends, at the next instruction that starts a block.             *)
LEMMA NextBlockRight ==
  ASSUME StateOK, NEW k \in DOMAIN insts
  PROVE  /\ NextBlock(k) \in k + 1 .. Len(insts) + 1
         /\ NextBlock(k) <= Len(insts) => insts[NextBlock(k)].new_block
<1> DEFINE T == {j \in k + 1 .. Len(insts) + 1 : j <= Len(insts) => insts[j].new_block}
           Is(j) == /\ j <= Len(insts) => insts[j].new_block
                    /\ \A l \in k + 1 .. j - 1 : ~insts[l].new_block
<1>1. k \in 1 .. Len(insts) /\ Len(insts) \in Nat
  BY Types
<1>2. Len(insts) + 1 \in k + 1 .. Len(insts) + 1 /\ ~(Len(insts) + 1 <= Len(insts))
      /\ k + 1 .. Len(insts) + 1 \subseteq Nat
  BY SMTT(60), <1>1
<1>3. Len(insts) + 1 \in T /\ T \subseteq Nat
  BY <1>2
<1>4. PICK x \in T : \A y \in T : x <= y
  BY <1>3, Least
<1>5. ASSUME NEW l \in k + 1 .. x - 1 PROVE ~insts[l].new_block
  <2>1. x \in k + 1 .. Len(insts) + 1
    BY <1>4
  <2>2. l \in k + 1 .. Len(insts) + 1 /\ ~(x <= l)
    BY SMTT(60), <1>1, <1>5, <2>1
  <2>3. l \notin T
    BY <1>4, <2>2
  <2> QED BY <2>2, <2>3
<1>6. x \in k + 1 .. Len(insts) + 1 /\ Is(x)
  BY <1>4, <1>5
<1>7. NextBlock(k) = CHOOSE j \in k + 1 .. Len(insts) + 1 : Is(j)
  BY DEF NextBlock
<1> HIDE DEF T, Is
<1>8. NextBlock(k) \in k + 1 .. Len(insts) + 1 /\ Is(NextBlock(k))
  BY <1>6, <1>7
<1> QED BY <1>8 DEF Is

(* One instruction is handed to the lifter.                                *)
LEMMA Lifted ==
  ASSUME StateOK, MapInv, OrderInv, LiftInv, NEW ok \in BOOLEAN, LiftInst(ok)
  PROVE  LET block == IF insts[i].new_block THEN insts[i].addr ELSE block_addr
             old   == IF block_map[block] = Unread THEN << >> ELSE block_map[block]
             new   == IF ok THEN Append(old, insts[i].addr) ELSE old
         IN  /\ i \in DOMAIN insts /\ i \in Nat /\ pc = "lift" /\ block \in Addr
             /\ old \in Seq(Addr) /\ new \in Seq(Addr)
             /\ block_addr' = block
             /\ block_map' = [block_map EXCEPT ![block] = new]
             /\ entry_ip' = IF entry_ip = Unread THEN block ELSE entry_ip
             /\ \/ ~ok /\ i = 1 /\ pc' = "done" /\ fn' = "null" /\ i' = i
                \/ ok /\ pc' = "lift" /\ fn' = fn /\ i' = i + 1
                \/ ~ok /\ i # 1 /\ pc' = "lift" /\ fn' = fn /\ i' = NextBlock(i)
             /\ UNCHANGED <<config, mem, found>>
<1> DEFINE block == IF insts[i].new_block THEN insts[i].addr ELSE block_addr
           old == IF block_map[block] = Unread THEN << >> ELSE block_map[block]
           new == IF ok THEN Append(old, insts[i].addr) ELSE old
<1>1. /\ pc = "lift" /\ i <= Len(insts) /\ block_addr' = block
      /\ block_map' = [block_map EXCEPT ![block] = new]
      /\ entry_ip' = IF entry_ip = Unread THEN block ELSE entry_ip
      /\ UNCHANGED <<config, mem, found>>
  BY DEF LiftInst, AddInst
<1>2. \/ ~ok /\ i = 1 /\ pc' = "done" /\ fn' = "null" /\ i' = i
      \/ ok /\ pc' = "lift" /\ fn' = fn /\ i' = i + 1
      \/ ~ok /\ i # 1 /\ pc' = "lift" /\ fn' = fn /\ i' = NextBlock(i)
  BY <1>1 DEF LiftInst, LiftFails
<1>3. i \in DOMAIN insts /\ i \in Nat
  <2>1. i \in 1 .. Len(insts) + 1 /\ Len(insts) \in Nat /\ DOMAIN insts = 1 .. Len(insts)
    BY Types DEF StateOK, TypeOK
  <2> QED BY SMTT(60), <1>1, <2>1
<1>4. block \in Addr
  <2>1. insts[i] \in InstRec
    BY <1>3, Types
  <2>2. insts[i].addr \in Addr
    BY <2>1 DEF InstRec
  <2> QED BY <1>1, <1>3, <2>2 DEF LiftInv
<1> HIDE DEF block
<1>5. old \in Seq(Addr)
  <2>1. block_map[block] \in Seq(Addr) \cup {Unread}
    BY <1>4 DEF StateOK
  <2>2. << >> \in Seq(Addr)
    BY SMTT(60)
  <2> QED BY <2>1, <2>2
<1>6. new \in Seq(Addr)
  <2>1. insts[i] \in InstRec
    BY <1>3, Types
  <2>2. insts[i].addr \in Addr
    BY <2>1 DEF InstRec
  <2> HIDE DEF old
  <2>3. Append(old, insts[i].addr) \in Seq(Addr)
    BY SMTT(60), <1>5, <2>2
  <2> QED BY <1>5, <2>3
<1> QED BY <1>1, <1>2, <1>3, <1>4, <1>5, <1>6 DEF block
-----------------------------------------------------------------------------
(* The disjuncts of Next.                                                  *)
LEMMA Steps ==
  ASSUME Next
  PROVE  \/ PopBlock \/ QueueEmpty \/ JoinBlock \/ DecodeNothing \/ LiftDone \/ Done
         \/ \E inst \in Encodings(cur_addr) : DecodeInst(inst)
         \/ \E ok \in BOOLEAN : LiftInst(ok)
  BY DEF Next, Step

(* Every step keeps the types.                                             *)
LEMMA NextState ==
  ASSUME IInv, Next
  PROVE  StateOK'
<1>0. StateOK /\ MapInv /\ OrderInv /\ LiftInv
  BY DEF IInv
<1>1. CASE PopBlock
  <2>1. cur_addr' \in Nat /\ addr_queue' \in Seq(Nat) /\ pc' = "block" /\ new_block' = TRUE
        /\ UNCHANGED <<config, mem, insts, addr_map, sha, lifter>>
    BY <1>0, <1>1, Pop
  <2> QED BY <1>0, <2>1 DEF StateOK, TypeOK, config, lifter
<1>2. CASE QueueEmpty
  BY <1>0, <1>2 DEF StateOK, TypeOK, config, lifter, found, QueueEmpty
<1>3. CASE JoinBlock
  <2>1. insts' \in Seq(InstRec) /\ Len(insts') = Len(insts) /\ EndBlock
        /\ UNCHANGED <<config, mem, addr_map, addr_queue, sha, cur_addr, new_block, lifter>>
    BY <1>0, <1>3, Join
  <2>2. pc' \in {"queue", "block", "lift", "done"}
    BY <2>1 DEF EndBlock
  <2> QED BY <1>0, <2>1, <2>2 DEF StateOK, TypeOK, config, lifter, InstRec
<1>4. CASE DecodeNothing
  BY <1>0, <1>4 DEF StateOK, TypeOK, config, lifter, found, DecodeNothing, EndBlock
<1>5. CASE LiftDone
  <2>1. fn' \in {"none", "null", "fn"} /\ pc' = "done"
    BY <1>5 DEF LiftDone
  <2> QED BY <1>0, <1>5, <2>1 DEF StateOK, TypeOK, config, found, LiftDone
<1>6. CASE Done
  BY <1>0, <1>6 DEF StateOK, TypeOK, config, lifter, found, Done, vars
<1>7. ASSUME NEW inst \in Encodings(cur_addr), DecodeInst(inst) PROVE StateOK'
  <2>1. /\ cur_addr \in Addr /\ mem' = [mem EXCEPT ![cur_addr] = inst]
        /\ UNCHANGED config /\ UNCHANGED lifter
    BY <1>7 DEF DecodeInst
  <2>2. inst \in Inst
    BY <1>0, <2>1, EncodingType
  <2>3. mem' \in [Addr -> Inst \cup {Unread}]
    BY <1>0, <2>1, <2>2 DEF StateOK
  <2>4. CASE decode_fn(cur_addr, inst).result = "FAILED"
    BY <1>0, <1>7, <2>1, <2>3, <2>4, DecodeBad DEF StateOK, TypeOK, config, lifter, found, EndBlock
  <2>5. CASE decode_fn(cur_addr, inst).result # "FAILED"
    <3>1. /\ insts' \in Seq(InstRec) /\ Len(insts') = Len(insts) + 1
          /\ addr_map' \in [Addr -> 0 .. Len(insts) + 1]
          /\ cur_addr' \in Nat /\ new_block' = FALSE
      BY <1>0, <1>7, <2>5, DecodeOk
    <3>2. addr_queue' \in Seq(Nat) /\ pc' \in {"block", "lift", "queue"}
      BY <1>0, <1>7, <2>5, DecodeGoes
    <3>3. i' \in 1 .. Len(insts') + 1
      <4>1. i' = i /\ i \in 1 .. Len(insts) + 1 /\ Len(insts) \in Nat
        BY <1>0, <2>1, Types DEF StateOK, TypeOK, lifter
      <4> QED BY SMTT(60), <3>1, <4>1
    <3> QED BY <1>0, <2>1, <2>3, <3>1, <3>2, <3>3 DEF StateOK, TypeOK, config, lifter, InstRec
  <2> QED BY <2>4, <2>5
<1>8. ASSUME NEW ok \in BOOLEAN, LiftInst(ok) PROVE StateOK'
  <2> DEFINE block == IF insts[i].new_block THEN insts[i].addr ELSE block_addr
             old == IF block_map[block] = Unread THEN << >> ELSE block_map[block]
             new == IF ok THEN Append(old, insts[i].addr) ELSE old
  <2>1. /\ i \in DOMAIN insts /\ i \in Nat /\ block \in Addr /\ new \in Seq(Addr)
        /\ block_map' = [block_map EXCEPT ![block] = new]
        /\ entry_ip' = IF entry_ip = Unread THEN block ELSE entry_ip
        /\ \/ pc' = "done" /\ fn' = "null" /\ i' = i
           \/ pc' = "lift" /\ fn' = fn /\ i' = i + 1
           \/ pc' = "lift" /\ fn' = fn /\ i' = NextBlock(i)
        /\ UNCHANGED <<config, mem, found>>
    BY <1>0, <1>8, Lifted
  <2> HIDE DEF block, new
  <2>2. block_map' \in [Addr -> Seq(Addr) \cup {Unread}] /\ entry_ip' \in Addr \cup {Unread}
    BY <1>0, <2>1 DEF StateOK, TypeOK
  <2>3. i' \in 1 .. Len(insts) + 1
    <3>1. NextBlock(i) \in i + 1 .. Len(insts) + 1 /\ Len(insts) \in Nat /\ i \in 1 .. Len(insts)
      BY <1>0, <2>1, Types, NextBlockRight
    <3> QED BY SMTT(60), <2>1, <3>1
  <2> QED BY <1>0, <2>1, <2>2, <2>3 DEF StateOK, TypeOK, config, found
<1> QED BY <1>1, <1>2, <1>3, <1>4, <1>5, <1>6, <1>7, <1>8, Steps
-----------------------------------------------------------------------------
(* insts and addr_map, where they are left alone or marked.                *)
LEMMA MapKept ==
  ASSUME StateOK, MapInv, UNCHANGED <<config, mem, addr_map>>, DOMAIN insts' = DOMAIN insts,
         \A k \in DOMAIN insts : insts'[k].addr = insts[k].addr /\ insts'[k].size = insts[k].size
  PROVE  MapInv'
<1>1. \A a \in Addr : /\ Known(a)' <=> Known(a)
                      /\ Decodes(a)' <=> Decodes(a)
                      /\ decode_fn(a, mem[a])' = decode_fn(a, mem[a])
  BY SuccessorsKept DEF Known
<1>2. ASSUME NEW a \in Addr, Known(a)
      PROVE  LET inst == insts'[addr_map'[a]]
             IN  inst.addr = a /\ inst.size = decode_fn(a, mem[a])'.size
  <2>1. addr_map[a] \in DOMAIN insts
    BY <1>2, KnownPlace
  <2>2. insts[addr_map[a]].addr = a /\ insts[addr_map[a]].size = decode_fn(a, mem[a]).size
    BY <1>2 DEF MapInv
  <2> QED BY <1>1, <2>1, <2>2
<1>3. \A k \in DOMAIN insts' : addr_map'[insts'[k].addr] = k
  BY DEF MapInv
<1>4. \A a \in Addr : Known(a)' <=> Decodes(a)'
  BY <1>1 DEF MapInv
<1> QED BY <1>1, <1>2, <1>3, <1>4 DEF MapInv

(* What was decoded before DecodeInst is decoded the same way after it.    *)
LEMMA DecodedKept ==
  ASSUME StateOK, NEW inst, DecodeInst(inst), NEW a, Decodes(a)
  PROVE  /\ Decodes(a)' /\ Successors(a)' = Successors(a)
         /\ decode_fn(a, mem[a])' = decode_fn(a, mem[a])
<1>1. mem'[a] = mem[a] /\ UNCHANGED config
  BY ReadOnce DEF Decodes
<1> QED BY <1>1, SuccessorsKept

LEMMA KnownDecodes ==
  ASSUME StateOK, MapInv, NEW k \in DOMAIN insts
  PROVE  insts[k].addr \in Addr /\ Known(insts[k].addr) /\ Decodes(insts[k].addr)
<1>1. insts[k] \in InstRec /\ DOMAIN insts = 1 .. Len(insts) /\ Len(insts) \in Nat
  BY Types
<1>2. insts[k].addr \in Addr
  BY <1>1 DEF InstRec
<1>3. k # 0
  BY SMTT(60), <1>1
<1>4. Known(insts[k].addr)
  BY <1>2, <1>3 DEF MapInv, Known
<1> QED BY <1>2, <1>4 DEF MapInv

(* The instruction just decoded is known, and nothing else is new.         *)
LEMMA DecodeKnown ==
  ASSUME StateOK, MapInv, NEW inst, NEW c, c = cur_addr, inst \in Encodings(c), DecodeInst(inst),
         decode_fn(c, inst).result # "FAILED"
  PROVE  /\ c \in Addr /\ ~Known(c) /\ Known(c)' /\ Decodes(c)'
         /\ decode_fn(c, mem[c])' = decode_fn(c, inst)
         /\ addr_map'[c] = Len(insts) + 1
         /\ \A a \in Addr : a # c => /\ Known(a)' <=> Known(a)
                                     /\ Decodes(a)' <=> Decodes(a)
                                     /\ MayDecode(a)' <=> MayDecode(a)
                                     /\ Successors(a)' = Successors(a)
                                     /\ decode_fn(a, mem[a])' = decode_fn(a, mem[a])
                                     /\ addr_map'[a] = addr_map[a]
<1>1. /\ c \in Addr /\ ~Known(c) /\ mem'[c] = inst /\ UNCHANGED config
      /\ \A a \in Addr : a # c => mem'[a] = mem[a]
  BY ReadOnce
<1>2. /\ addr_map'[c] = Len(insts) + 1 /\ Len(insts) + 1 # 0
      /\ \A a \in Addr : a # c => addr_map'[a] = addr_map[a]
  BY DecodeOk
<1>3. inst # Unread
  BY <1>1, EncodingType
<1>4. decode_fn(c, mem[c])' = decode_fn(c, inst)
  <2>1. arch' = arch
    BY <1>1 DEF config
  <2> QED BY SMTT(60), <1>1, <2>1 DEF decode_fn
<1>5. Known(c)' /\ Decodes(c)'
  BY <1>1, <1>2, <1>3, <1>4 DEF Known, Decodes
<1>6. \A a \in Addr : a # c => Known(a)' <=> Known(a)
  BY <1>2 DEF Known
<1> QED BY <1>1, <1>2, <1>4, <1>5, <1>6, SuccessorsKept

(* A read that fails makes nothing known.                                  *)
LEMMA BadKnown ==
  ASSUME StateOK, MapInv, NEW inst, NEW c, c = cur_addr, inst \in Encodings(c), DecodeInst(inst),
         decode_fn(c, inst).result = "FAILED"
  PROVE  /\ UNCHANGED found /\ UNCHANGED config /\ EndBlock /\ pc = "block"
         /\ c \in Addr /\ ~Known(c) /\ ~MayDecode(c)' /\ ~Decodes(c) /\ ~Decodes(c)'
         /\ \A a \in Addr : a # c => /\ MayDecode(a)' <=> MayDecode(a)
                                     /\ Decodes(a)' <=> Decodes(a)
                                     /\ Successors(a)' = Successors(a)
                                     /\ decode_fn(a, mem[a])' = decode_fn(a, mem[a])
<1>1. /\ c \in Addr /\ ~Known(c) /\ mem'[c] = inst /\ UNCHANGED config /\ pc = "block"
      /\ \A a \in Addr : a # c => mem'[a] = mem[a]
  BY ReadOnce
<1>2. EndBlock /\ UNCHANGED found
  BY DecodeBad
<1>3. inst # Unread
  BY <1>1, EncodingType
<1>4. decode_fn(c, mem[c])' = decode_fn(c, inst)
  <2>1. arch' = arch
    BY <1>1 DEF config
  <2> QED BY SMTT(60), <1>1, <2>1 DEF decode_fn
<1>5. ~MayDecode(c)' /\ ~Decodes(c)'
  BY <1>1, <1>3, <1>4 DEF MayDecode, Decodes
<1>6. ~Decodes(c)
  BY <1>1 DEF MapInv
<1> QED BY <1>1, <1>2, <1>5, <1>6, SuccessorsKept

(* Every step keeps insts and addr_map inverse to each other.              *)
LEMMA NextMap ==
  ASSUME IInv, Next
  PROVE  MapInv'
<1>0. StateOK /\ MapInv
  BY DEF IInv
<1>1. CASE PopBlock
  BY <1>0, <1>1, MapKept DEF PopBlock
<1>2. CASE QueueEmpty
  BY <1>0, <1>2, MapKept DEF QueueEmpty, found
<1>3. CASE JoinBlock
  BY <1>0, <1>3, Join, MapKept
<1>4. CASE DecodeNothing
  BY <1>0, <1>4, MapKept DEF DecodeNothing, found
<1>5. CASE LiftDone
  BY <1>0, <1>5, MapKept DEF LiftDone, found
<1>6. CASE Done
  BY <1>0, <1>6, MapKept DEF Done, vars, found
<1>7. ASSUME NEW inst \in Encodings(cur_addr), DecodeInst(inst) PROVE MapInv'
  <2>0. PICK c : c = cur_addr
    OBVIOUS
  <2>1. CASE decode_fn(c, inst).result = "FAILED"
    <3>1. /\ UNCHANGED <<insts, addr_map>> /\ ~Known(c) /\ ~Decodes(c)'
          /\ \A a \in Addr : a # c => /\ Decodes(a)' <=> Decodes(a)
                                      /\ decode_fn(a, mem[a])' = decode_fn(a, mem[a])
      BY <1>0, <1>7, <2>0, <2>1, BadKnown DEF found
    <3>2. \A a \in Addr : Known(a)' <=> Known(a)
      BY <3>1 DEF Known
    <3> QED BY <1>0, <3>1, <3>2 DEF MapInv
  <2>2. CASE decode_fn(c, inst).result # "FAILED"
    <3>1. /\ c \in Addr /\ Known(c)' /\ Decodes(c)' /\ ~Known(c)
          /\ decode_fn(c, mem[c])' = decode_fn(c, inst)
          /\ \A a \in Addr : a # c => /\ Known(a)' <=> Known(a)
                                      /\ Decodes(a)' <=> Decodes(a)
                                      /\ decode_fn(a, mem[a])' = decode_fn(a, mem[a])
                                      /\ addr_map'[a] = addr_map[a]
      BY <1>0, <1>7, <2>0, <2>2, DecodeKnown
    <3>2. PICK n : /\ n = Len(insts) + 1 /\ DOMAIN insts' = DOMAIN insts \cup {n}
                   /\ n \notin DOMAIN insts /\ addr_map'[c] = n
                   /\ \A k \in DOMAIN insts : insts'[k] = insts[k]
                   /\ insts'[n].addr = c /\ insts'[n].size = decode_fn(c, inst).size
      BY <1>0, <1>7, <2>0, <2>2, DecodeOk
    <3>3. ASSUME NEW a \in Addr, Known(a)'
          PROVE  insts'[addr_map'[a]].addr = a /\ insts'[addr_map'[a]].size = decode_fn(a, mem[a])'.size
      <4>1. CASE a = c
        BY <3>1, <3>2, <4>1
      <4>2. CASE a # c
        <5>1. Known(a) /\ addr_map'[a] = addr_map[a] /\ addr_map[a] \in DOMAIN insts
              /\ decode_fn(a, mem[a])' = decode_fn(a, mem[a])
          BY <1>0, <3>1, <3>3, <4>2, KnownPlace
        <5>2. insts[addr_map[a]].addr = a /\ insts[addr_map[a]].size = decode_fn(a, mem[a]).size
          BY <1>0, <5>1 DEF MapInv
        <5> QED BY <3>2, <5>1, <5>2
      <4> QED BY <4>1, <4>2
    <3>4. ASSUME NEW k \in DOMAIN insts' PROVE addr_map'[insts'[k].addr] = k
      <4>1. CASE k = n
        BY <3>2, <4>1
      <4>2. CASE k \in DOMAIN insts
        <5>1. insts[k].addr \in Addr /\ Known(insts[k].addr) /\ addr_map[insts[k].addr] = k
          BY <1>0, <4>2, KnownDecodes DEF MapInv
        <5> QED BY <3>1, <3>2, <4>2, <5>1
      <4> QED BY <3>2, <4>1, <4>2
    <3>5. \A a \in Addr : Known(a)' <=> Decodes(a)'
      BY <1>0, <3>1 DEF MapInv
    <3> QED BY <3>3, <3>4, <3>5 DEF MapInv
  <2> QED BY <2>1, <2>2
<1>8. ASSUME NEW ok \in BOOLEAN, LiftInst(ok) PROVE MapInv'
  BY <1>0, <1>8, MapKept DEF LiftInst, found
<1> QED BY <1>1, <1>2, <1>3, <1>4, <1>5, <1>6, <1>7, <1>8, Steps
-----------------------------------------------------------------------------
(* The order of insts, where they are left alone.                          *)
LEMMA OrderKept ==
  ASSUME OrderInv, UNCHANGED insts, pc' # "block" \/ new_block',
         insts = << >> =>
           \/ pc' = "queue" /\ addr_queue' \in {<<Entry>>, << >>}
           \/ pc' = "block" /\ cur_addr' = Entry /\ new_block' /\ addr_queue' = << >>
           \/ pc' \in {"lift", "done"}
  PROVE  OrderInv'
  BY DEF OrderInv

(* A sequence that is not empty has a first and a last element.            *)
LEMMA Ends1 ==
  ASSUME NEW S, NEW s \in Seq(S)
  PROVE  /\ DOMAIN s = 1 .. Len(s) /\ Len(s) \in Nat
         /\ s # << >> => 1 \in DOMAIN s /\ Len(s) \in DOMAIN s
         /\ s = << >> => Len(s) = 0 /\ DOMAIN s = {}
         /\ \A k \in DOMAIN s : k > 1 => k - 1 \in DOMAIN s
  BY SMTT(60)

(* Every step keeps the instructions of a block in line.                   *)
LEMMA NextOrder ==
  ASSUME IInv, Next
  PROVE  OrderInv'
<1>0. StateOK /\ MapInv /\ OrderInv
  BY DEF IInv
<1>a. insts \in Seq(InstRec)
  BY <1>0, Types
<1>1. CASE PopBlock
  <2>1. /\ cur_addr' = addr_queue[1] /\ (addr_queue = <<Entry>> => addr_queue' = << >>)
        /\ pc = "queue" /\ pc' = "block" /\ new_block' = TRUE /\ UNCHANGED insts
        /\ 1 \in DOMAIN addr_queue
    BY <1>0, <1>1, Pop
  <2>2. addr_queue # << >> /\ (addr_queue = <<Entry>> => addr_queue[1] = Entry)
    <3>1. <<Entry>>[1] = Entry
      BY SMTT(60)
    <3> QED BY <1>1, <3>1 DEF PopBlock
  <2>3. insts = << >> => addr_queue = <<Entry>>
    BY <1>0, <2>1, <2>2 DEF OrderInv
  <2> QED BY <1>0, <2>1, <2>2, <2>3, OrderKept
<1>2. CASE QueueEmpty
  <2>1. pc' = "lift" /\ UNCHANGED insts
    BY <1>2 DEF QueueEmpty, found
  <2> QED BY <1>0, <2>1, OrderKept
<1>3. CASE JoinBlock
  <2>1. /\ DOMAIN insts' = DOMAIN insts /\ insts' \in Seq(InstRec)
        /\ \A k \in DOMAIN insts :
             /\ insts'[k].addr = insts[k].addr /\ insts'[k].size = insts[k].size
             /\ insts[k].new_block => insts'[k].new_block
        /\ Known(cur_addr) /\ EndBlock
    BY <1>0, <1>3, Join
  <2>2. insts # << >> /\ 1 \in DOMAIN insts
    <3>1. addr_map[cur_addr] \in DOMAIN insts
      BY <1>0, <2>1, KnownPlace
    <3> QED BY <1>a, <3>1, Ends1
  <2>3. insts' # << >>
    BY <2>1, <2>2, Ends1
  <2>4. insts'[1].addr = Entry /\ insts'[1].new_block
    BY <1>0, <2>1, <2>2 DEF OrderInv
  <2>5. ASSUME NEW k \in DOMAIN insts', ~insts'[k].new_block
        PROVE  k > 1 /\ insts'[k].addr = insts'[k - 1].addr + insts'[k - 1].size
    <3>1. k \in DOMAIN insts /\ ~insts[k].new_block
      BY <2>1, <2>5
    <3>2. k > 1 /\ insts[k].addr = insts[k - 1].addr + insts[k - 1].size
      BY <1>0, <3>1 DEF OrderInv
    <3>3. k - 1 \in DOMAIN insts
      BY <1>a, <3>1, <3>2, Ends1
    <3> QED BY <2>1, <3>1, <3>2, <3>3
  <2>6. pc' # "block"
    BY <2>1 DEF EndBlock
  <2> QED BY <2>3, <2>4, <2>5, <2>6 DEF OrderInv
<1>4. CASE DecodeNothing
  <2>1. pc = "block" /\ cur_addr \notin Addr /\ EndBlock /\ UNCHANGED insts
    BY <1>4 DEF DecodeNothing, found
  <2>2. insts # << >>
    BY <1>0, <2>1, Types DEF OrderInv
  <2>3. pc' # "block"
    BY <2>1 DEF EndBlock
  <2> QED BY <1>0, <2>1, <2>2, <2>3, OrderKept
<1>5. CASE LiftDone
  <2>1. pc' = "done" /\ UNCHANGED insts
    BY <1>5 DEF LiftDone, found
  <2> QED BY <1>0, <2>1, OrderKept
<1>6. CASE Done
  <2>1. pc = "done" /\ pc' = pc /\ UNCHANGED insts
    BY <1>6 DEF Done, vars, found
  <2> QED BY <1>0, <2>1, OrderKept
<1>7. ASSUME NEW inst \in Encodings(cur_addr), DecodeInst(inst) PROVE OrderInv'
  <2>1. CASE decode_fn(cur_addr, inst).result = "FAILED"
    <3>1. EndBlock /\ UNCHANGED <<insts, addr_queue>> /\ pc = "block"
      BY <1>0, <1>7, <2>1, DecodeBad, ReadOnce DEF found
    <3>2. insts = << >> => addr_queue' = << >>
      BY <1>0, <3>1 DEF OrderInv
    <3>3. pc' = "lift" \/ pc' = "queue"
      BY <3>1 DEF EndBlock
    <3> QED BY <1>0, <3>1, <3>2, <3>3, OrderKept
  <2>2. CASE decode_fn(cur_addr, inst).result # "FAILED"
    <3>1. PICK n : /\ n = Len(insts) + 1 /\ Len(insts') = n /\ insts' \in Seq(InstRec)
                   /\ DOMAIN insts' = DOMAIN insts \cup {n} /\ n \notin DOMAIN insts
                   /\ \A k \in DOMAIN insts : insts'[k] = insts[k]
                   /\ insts'[n].addr = cur_addr /\ insts'[n].new_block = new_block
                   /\ cur_addr' = insts'[n].addr + insts'[n].size
      BY <1>0, <1>7, <2>2, DecodeOk
    <3>2. pc = "block"
      BY <1>0, <1>7, ReadOnce
    <3>3. /\ insts = << >> => n = 1
          /\ insts # << >> => n > 1 /\ n - 1 = Len(insts) /\ Len(insts) \in DOMAIN insts
                              /\ 1 \in DOMAIN insts
      BY SMTT(60), <1>a, <3>1
    <3>4. insts' # << >>
      BY <3>1, Ends1
    <3>5. insts'[1].addr = Entry /\ insts'[1].new_block
      <4>1. CASE insts = << >>
        BY <1>0, <3>1, <3>2, <3>3, <4>1 DEF OrderInv
      <4>2. CASE insts # << >>
        BY <1>0, <3>1, <3>3, <4>2 DEF OrderInv
      <4> QED BY <4>1, <4>2
    <3>6. ASSUME NEW k \in DOMAIN insts', ~insts'[k].new_block
          PROVE  k > 1 /\ insts'[k].addr = insts'[k - 1].addr + insts'[k - 1].size
      <4>1. CASE k = n
        <5>1. insts # << >> /\ cur_addr = insts[Len(insts)].addr + insts[Len(insts)].size
          BY <1>0, <3>1, <3>2, <3>6, <4>1 DEF OrderInv
        <5> QED BY <3>1, <3>3, <4>1, <5>1
      <4>2. CASE k \in DOMAIN insts
        <5>1. k > 1 /\ insts[k].addr = insts[k - 1].addr + insts[k - 1].size
          BY <1>0, <3>1, <3>6, <4>2 DEF OrderInv
        <5>2. k - 1 \in DOMAIN insts
          BY <1>a, <4>2, <5>1, Ends1
        <5> QED BY <3>1, <4>2, <5>1, <5>2
      <4> QED BY <3>1, <4>1, <4>2
    <3> QED BY <3>1, <3>4, <3>5, <3>6 DEF OrderInv
  <2> QED BY <2>1, <2>2
<1>8. ASSUME NEW ok \in BOOLEAN, LiftInst(ok) PROVE OrderInv'
  <2>1. pc' \in {"lift", "done"} /\ UNCHANGED insts
    BY <1>8 DEF LiftInst, found
  <2> QED BY <1>0, <2>1, OrderKept
<1> QED BY <1>1, <1>2, <1>3, <1>4, <1>5, <1>6, <1>7, <1>8, Steps
-----------------------------------------------------------------------------
(* Needed, in the next state.                                              *)
NeededNext(b) == b = Entry \/ \E a \in Addr : Known(a)' /\ b \in Successors(a)'

LEMMA NeededFrom ==
  ASSUME pc' = "block" => NeededNext(cur_addr'),
         pc' \in {"queue", "block"} => \A j \in DOMAIN addr_queue' : NeededNext(addr_queue'[j]),
         \A S \in SUBSET Addr : ClosedSoFar(S)' => \A a \in Addr : Known(a)' => a \in S
  PROVE  NeededInv'
  BY DEF NeededInv, Needed, NeededNext

(* A step that neither reads nor finds an instruction.                     *)
LEMMA NeededSame ==
  ASSUME NeededInv, UNCHANGED <<config, mem, addr_map>>,
         pc' = "block" => Needed(cur_addr'),
         pc' \in {"queue", "block"} => \A j \in DOMAIN addr_queue' : Needed(addr_queue'[j])
  PROVE  NeededInv'
<1>1. \A a : /\ Known(a)' <=> Known(a)
             /\ Decodes(a)' <=> Decodes(a)
             /\ Successors(a)' = Successors(a)
  BY SuccessorsKept DEF Known
<1>2. \A b : Needed(b) => NeededNext(b)
  BY <1>1 DEF Needed, NeededNext
<1>3. ASSUME NEW S \in SUBSET Addr, ClosedSoFar(S)'
      PROVE  \A a \in Addr : Known(a)' => a \in S
  <2>1. ClosedSoFar(S)
    BY <1>1, <1>3 DEF ClosedSoFar
  <2> QED BY <1>1, <2>1 DEF NeededInv
<1> QED BY <1>2, <1>3, NeededFrom

(* Every step looks only at what the function needs.                       *)
LEMMA NextNeeded ==
  ASSUME IInv, Next
  PROVE  NeededInv'
<1>0. StateOK /\ MapInv /\ NeededInv
  BY DEF IInv
<1>1. CASE PopBlock
  <2>1. /\ 1 \in DOMAIN addr_queue /\ cur_addr' = addr_queue[1] /\ pc = "queue"
        /\ \A j \in DOMAIN addr_queue' :
             j + 1 \in DOMAIN addr_queue /\ addr_queue'[j] = addr_queue[j + 1]
        /\ UNCHANGED <<config, mem, addr_map>>
    BY <1>0, <1>1, Pop
  <2>2. \A j \in DOMAIN addr_queue : Needed(addr_queue[j])
    BY <1>0, <2>1 DEF NeededInv
  <2> QED BY <1>0, <2>1, <2>2, NeededSame
<1>2. CASE QueueEmpty
  <2>1. pc' = "lift" /\ UNCHANGED <<config, mem, addr_map>>
    BY <1>2 DEF QueueEmpty, found
  <2> QED BY <1>0, <2>1, NeededSame
<1>3. CASE JoinBlock
  <2>1. pc = "block" /\ EndBlock /\ UNCHANGED <<config, mem, addr_map, addr_queue>>
    BY <1>3 DEF JoinBlock
  <2>2. \A j \in DOMAIN addr_queue' : Needed(addr_queue'[j])
    BY <1>0, <2>1 DEF NeededInv
  <2>3. pc' # "block"
    BY <2>1 DEF EndBlock
  <2> QED BY <1>0, <2>1, <2>2, <2>3, NeededSame
<1>4. CASE DecodeNothing
  <2>1. pc = "block" /\ EndBlock /\ UNCHANGED <<config, mem, addr_map, addr_queue>>
    BY <1>4 DEF DecodeNothing, found
  <2>2. \A j \in DOMAIN addr_queue' : Needed(addr_queue'[j])
    BY <1>0, <2>1 DEF NeededInv
  <2>3. pc' # "block"
    BY <2>1 DEF EndBlock
  <2> QED BY <1>0, <2>1, <2>2, <2>3, NeededSame
<1>5. CASE LiftDone
  <2>1. pc' = "done" /\ UNCHANGED <<config, mem, addr_map>>
    BY <1>5 DEF LiftDone, found
  <2> QED BY <1>0, <2>1, NeededSame
<1>6. CASE Done
  <2>1. pc' = "done" /\ UNCHANGED <<config, mem, addr_map>>
    BY <1>6 DEF Done, vars, found
  <2> QED BY <1>0, <2>1, NeededSame
<1>7. ASSUME NEW inst \in Encodings(cur_addr), DecodeInst(inst) PROVE NeededInv'
  <2>0. PICK c : c = cur_addr
    OBVIOUS
  <2>a. pc = "block" /\ Needed(c) /\ \A j \in DOMAIN addr_queue : Needed(addr_queue[j])
    BY <1>0, <1>7, <2>0, ReadOnce DEF NeededInv
  <2>1. CASE decode_fn(c, inst).result = "FAILED"
    <3>1. /\ UNCHANGED <<addr_map, addr_queue>> /\ EndBlock /\ ~Known(c) /\ ~Decodes(c) /\ ~Decodes(c)'
          /\ \A a \in Addr : a # c => /\ Decodes(a)' <=> Decodes(a)
                                      /\ Successors(a)' = Successors(a)
      BY <1>0, <1>7, <2>0, <2>1, BadKnown DEF found
    <3>2. \A a : /\ Known(a)' <=> Known(a)
                 /\ Decodes(a)' <=> Decodes(a)
      BY <3>1 DEF Known, Decodes
    <3>3. \A b : Needed(b) => NeededNext(b)
      BY <3>1, <3>2 DEF Needed, NeededNext
    <3>4. ASSUME NEW S \in SUBSET Addr, ClosedSoFar(S)'
          PROVE  \A a \in Addr : Known(a)' => a \in S
      <4>1. ClosedSoFar(S)
        BY <3>1, <3>2, <3>4 DEF ClosedSoFar
      <4> QED BY <1>0, <3>2, <4>1 DEF NeededInv
    <3>5. pc' # "block"
      BY <3>1 DEF EndBlock
    <3> QED BY <2>a, <3>1, <3>3, <3>4, <3>5, NeededFrom
  <2>2. CASE decode_fn(c, inst).result # "FAILED"
    <3>1. /\ c \in Addr /\ Known(c)' /\ Decodes(c)' /\ ~Known(c)
          /\ \A a \in Addr : a # c => /\ Known(a)' <=> Known(a)
                                      /\ Decodes(a)' <=> Decodes(a)
                                      /\ Successors(a)' = Successors(a)
      BY <1>0, <1>7, <2>0, <2>2, DecodeKnown
    <3>2. ~Decodes(c) /\ \A a \in Addr : Known(a) => Decodes(a)
      BY <1>0, <3>1 DEF MapInv
    <3>3. \A b : Needed(b) => NeededNext(b)
      BY <3>1 DEF Needed, NeededNext
    <3>4. \A b : b \in Successors(c)' => NeededNext(b)
      BY <3>1 DEF NeededNext
    <3>5. ASSUME NEW S \in SUBSET Addr, ClosedSoFar(S)'
          PROVE  \A a \in Addr : Known(a)' => a \in S
      <4>1. \A a : Decodes(a) => a \in Addr /\ Decodes(a)' /\ Successors(a)' = Successors(a)
        BY <3>1, <3>2 DEF Decodes
      <4>2. /\ Decodes(Entry)' => Entry \in S
            /\ \A a \in S : Decodes(a)' => \A b \in Successors(a)' : Decodes(b)' => b \in S
        BY <3>5 DEF ClosedSoFar
      <4>3. ClosedSoFar(S)
        BY <4>1, <4>2 DEF ClosedSoFar
      <4>4. \A a \in Addr : Known(a) => a \in S
        BY <1>0, <4>3 DEF NeededInv
      <4>5. c \in S
        BY <2>a, <3>1, <3>2, <4>1, <4>2, <4>4 DEF Needed
      <4> QED BY <3>1, <4>4, <4>5
    <3>6. /\ \A j \in DOMAIN addr_queue : addr_queue'[j] = addr_queue[j]
          /\ pc' \in {"block", "lift", "queue"}
          /\ pc' # "lift" => \A j \in DOMAIN addr_queue' : \/ j \in DOMAIN addr_queue
                                                        \/ addr_queue'[j] \in Successors(c)'
          /\ pc' = "block" => cur_addr' \in Successors(c)'
      BY <1>0, <1>7, <2>0, <2>2, DecodeGoes
    <3>7. pc' = "block" => NeededNext(cur_addr')
      BY <3>4, <3>6
    <3>8. pc' \in {"queue", "block"} => \A j \in DOMAIN addr_queue' : NeededNext(addr_queue'[j])
      BY <2>a, <3>3, <3>4, <3>6
    <3> QED BY <3>5, <3>7, <3>8, NeededFrom
  <2> QED BY <2>1, <2>2
<1>8. ASSUME NEW ok \in BOOLEAN, LiftInst(ok) PROVE NeededInv'
  <2>1. pc' \in {"lift", "done"} /\ UNCHANGED <<config, mem, addr_map>>
    BY <1>8 DEF LiftInst, found
  <2> QED BY <1>0, <2>1, NeededSame
<1> QED BY <1>1, <1>2, <1>3, <1>4, <1>5, <1>6, <1>7, <1>8, Steps
-----------------------------------------------------------------------------
(* Pending, in the next state.                                             *)
PendingNext(b, k) ==
  \/ ~MayDecode(b)'
  \/ Known(b)' /\ (insts'[addr_map'[b]].new_block \/ addr_map'[b] = k + 1)
  \/ pc' \in {"queue", "block"} /\ \E j \in DOMAIN addr_queue' : addr_queue'[j] = b
  \/ pc' = "block" /\ b = cur_addr' /\ (new_block' \/ k = Len(insts'))

LEMMA PendingFrom ==
  ASSUME granularity' = 2 =>
           /\ PendingNext(Entry, 0)
           /\ \A a \in Addr : Known(a)' => \A b \in Successors(a)' : PendingNext(b, addr_map'[a])
  PROVE  PendingInv'
  BY DEF PendingInv, Pending, PendingNext

(* A step that neither reads nor finds an instruction.                     *)
LEMMA PendingSame ==
  ASSUME PendingInv, UNCHANGED <<config, mem, addr_map>>,
         \A b, k : granularity = 2 /\ Pending(b, k) => PendingNext(b, k)
  PROVE  PendingInv'
<1>1. \A a : /\ Known(a)' <=> Known(a)
             /\ Successors(a)' = Successors(a)
  BY SuccessorsKept DEF Known
<1>2. granularity' = granularity /\ addr_map' = addr_map
  BY DEF config
<1> QED BY <1>1, <1>2, PendingFrom DEF PendingInv

(* A step that leaves alone what was found.                                *)
LEMMA KnownStays ==
  ASSUME UNCHANGED <<config, mem, addr_map, insts>>, NEW b, NEW k, Pending(b, k),
         ~(pc \in {"queue", "block"} /\ \E j \in DOMAIN addr_queue : addr_queue[j] = b),
         ~(pc = "block" /\ b = cur_addr)
  PROVE  PendingNext(b, k)
<1>1. (Known(b)' <=> Known(b)) /\ (MayDecode(b)' <=> MayDecode(b))
  BY SuccessorsKept DEF Known
<1> QED BY <1>1 DEF Pending, PendingNext

(* Every step leaves what is still to be found in the queue or in line.    *)
LEMMA NextPending ==
  ASSUME IInv, Next
  PROVE  PendingInv'
<1>0. StateOK /\ MapInv /\ PendingInv
  BY DEF IInv
<1>a. granularity = 2 /\ EndBlock => pc' = "queue"
  <2>1. granularity = 2 => ~(granularity <= 1)
    BY SMTT(60)
  <2> QED BY <2>1 DEF EndBlock
<1>1. CASE PopBlock
  <2>1. /\ cur_addr' = addr_queue[1] /\ pc = "queue" /\ pc' = "block" /\ new_block' = TRUE
        /\ \A j \in DOMAIN addr_queue :
             j = 1 \/ \E l \in DOMAIN addr_queue' : addr_queue'[l] = addr_queue[j]
        /\ UNCHANGED <<config, mem, addr_map, insts>>
    BY <1>0, <1>1, Pop
  <2>2. ASSUME NEW b, NEW k, Pending(b, k) PROVE PendingNext(b, k)
    <3>1. CASE \E j \in DOMAIN addr_queue : addr_queue[j] = b
      BY <2>1, <3>1 DEF PendingNext
    <3>2. CASE ~\E j \in DOMAIN addr_queue : addr_queue[j] = b
      BY <2>1, <2>2, <3>2, KnownStays
    <3> QED BY <3>1, <3>2
  <2> QED BY <1>0, <2>1, <2>2, PendingSame
<1>2. CASE QueueEmpty
  <2>1. pc = "queue" /\ addr_queue = << >> /\ UNCHANGED <<config, mem, addr_map, insts>>
    BY <1>2 DEF QueueEmpty, found
  <2>2. DOMAIN addr_queue = {}
    BY <1>0, <2>1, Types, Ends1
  <2>3. \A b, k : Pending(b, k) => PendingNext(b, k)
    BY <2>1, <2>2, KnownStays
  <2> QED BY <1>0, <2>1, <2>3, PendingSame
<1>3. CASE JoinBlock
  <2>1. /\ \A k \in DOMAIN insts : insts[k].new_block => insts'[k].new_block
        /\ Known(cur_addr) /\ insts'[addr_map[cur_addr]].new_block /\ EndBlock
        /\ UNCHANGED <<config, mem, addr_map, addr_queue, cur_addr>>
    BY <1>0, <1>3, Join
  <2>2. ASSUME NEW b, NEW k, granularity = 2, Pending(b, k) PROVE PendingNext(b, k)
    <3>1. (Known(b)' <=> Known(b)) /\ (MayDecode(b)' <=> MayDecode(b))
      BY <2>1, SuccessorsKept DEF Known
    <3>2. Known(b) => addr_map[b] \in DOMAIN insts
      BY <1>0, KnownPlace
    <3>3. pc' = "queue"
      BY <1>a, <2>1, <2>2
    <3> QED BY <2>1, <2>2, <3>1, <3>2, <3>3 DEF Pending, PendingNext
  <2> QED BY <1>0, <2>1, <2>2, PendingSame
<1>4. CASE DecodeNothing
  <2>1. /\ cur_addr \notin Addr /\ EndBlock
        /\ UNCHANGED <<config, mem, addr_map, insts, addr_queue>>
    BY <1>4 DEF DecodeNothing, found
  <2>2. ASSUME NEW b, NEW k, granularity = 2, Pending(b, k) PROVE PendingNext(b, k)
    <3>1. (Known(b)' <=> Known(b)) /\ (MayDecode(b)' <=> MayDecode(b))
      BY <2>1, SuccessorsKept DEF Known
    <3>2. b = cur_addr => ~MayDecode(b)
      BY <2>1 DEF MayDecode
    <3>3. pc' = "queue"
      BY <1>a, <2>1, <2>2
    <3> QED BY <2>1, <2>2, <3>1, <3>2, <3>3 DEF Pending, PendingNext
  <2> QED BY <1>0, <2>1, <2>2, PendingSame
<1>5. CASE LiftDone
  <2>1. pc = "lift" /\ UNCHANGED <<config, mem, addr_map, insts>>
    BY <1>5 DEF LiftDone, found
  <2>2. \A b, k : Pending(b, k) => PendingNext(b, k)
    BY <2>1, KnownStays
  <2> QED BY <1>0, <2>1, <2>2, PendingSame
<1>6. CASE Done
  <2>1. pc = "done" /\ UNCHANGED <<config, mem, addr_map, insts>>
    BY <1>6 DEF Done, vars, found
  <2>2. \A b, k : Pending(b, k) => PendingNext(b, k)
    BY <2>1, KnownStays
  <2> QED BY <1>0, <2>1, <2>2, PendingSame
<1>7. ASSUME NEW inst \in Encodings(cur_addr), DecodeInst(inst) PROVE PendingInv'
  <2>0. PICK c : c = cur_addr
    OBVIOUS
  <2>a. granularity' = granularity /\ pc = "block"
    BY <1>0, <1>7, ReadOnce DEF config
  <2>1. CASE decode_fn(c, inst).result = "FAILED"
    <3>1. /\ UNCHANGED <<addr_map, addr_queue, insts>> /\ EndBlock
          /\ c \in Addr /\ ~Known(c) /\ ~MayDecode(c)'
          /\ \A a \in Addr : a # c => /\ MayDecode(a)' <=> MayDecode(a)
                                      /\ Successors(a)' = Successors(a)
      BY <1>0, <1>7, <2>0, <2>1, BadKnown DEF found
    <3>2. \A a : Known(a)' <=> Known(a)
      BY <3>1 DEF Known
    <3>3. \A b : MayDecode(b)' => MayDecode(b)
      BY <3>1 DEF MayDecode
    <3>4. \A b, k : granularity = 2 /\ Pending(b, k) => PendingNext(b, k)
      BY <1>a, <2>0, <3>1, <3>2, <3>3 DEF Pending, PendingNext
    <3> QED BY <1>0, <2>a, <3>1, <3>2, <3>4, PendingFrom DEF PendingInv
  <2>2. CASE decode_fn(c, inst).result # "FAILED"
    <3>1. /\ c \in Addr /\ Known(c)' /\ ~Known(c)
          /\ \A a \in Addr : a # c => /\ Known(a)' <=> Known(a)
                                      /\ MayDecode(a)' <=> MayDecode(a)
                                      /\ Successors(a)' = Successors(a)
                                      /\ addr_map'[a] = addr_map[a]
      BY <1>0, <1>7, <2>0, <2>2, DecodeKnown
    <3>2. PICK n : /\ n = Len(insts) + 1 /\ Len(insts') = n /\ addr_map'[c] = n
                   /\ \A k \in DOMAIN insts : insts'[k] = insts[k]
                   /\ insts'[n].new_block = new_block
      BY <1>0, <1>7, <2>0, <2>2, DecodeOk
    <3>3. /\ \A j \in DOMAIN addr_queue :
               j \in DOMAIN addr_queue' /\ addr_queue'[j] = addr_queue[j]
          /\ pc' \in {"block", "lift", "queue"}
          /\ granularity = 2 =>
              /\ pc' # "lift"
              /\ \A b \in Successors(c)' :
                   \/ \E j \in DOMAIN addr_queue' : addr_queue'[j] = b
                   \/ pc' = "block" /\ b = cur_addr'
      BY <1>0, <1>7, <2>0, <2>2, DecodeGoes
    <3>4. MayDecode(c)
      BY <1>0, <1>7, <2>0, <2>2, <3>1, ReadOnce DEF MayDecode
    <3>5. \A b : MayDecode(b)' => MayDecode(b)
      BY <3>1, <3>4 DEF MayDecode
    <3>6. ASSUME NEW b, NEW k, granularity = 2, Pending(b, k) PROVE PendingNext(b, k)
      <4>1. CASE ~MayDecode(b)
        BY <3>5, <4>1 DEF PendingNext
      <4>2. CASE Known(b) /\ (insts[addr_map[b]].new_block \/ addr_map[b] = k + 1)
        <5>1. b \in Addr /\ b # c /\ addr_map[b] \in DOMAIN insts
          BY <1>0, <3>1, <4>2, KnownPlace
        <5> QED BY <3>1, <3>2, <4>2, <5>1 DEF PendingNext
      <4>3. CASE \E j \in DOMAIN addr_queue : addr_queue[j] = b
        BY <3>3, <3>6, <4>3 DEF PendingNext
      <4>4. CASE b = cur_addr /\ (new_block \/ k = Len(insts))
        BY <2>0, <3>1, <3>2, <4>4 DEF PendingNext
      <4> QED BY <3>6, <4>1, <4>2, <4>3, <4>4 DEF Pending
    <3>7. ASSUME granularity = 2, NEW b \in Successors(c)' PROVE PendingNext(b, addr_map'[c])
      BY <3>2, <3>3, <3>7 DEF PendingNext
    <3> QED BY <1>0, <2>a, <3>1, <3>6, <3>7, PendingFrom DEF PendingInv
  <2> QED BY <2>1, <2>2
<1>8. ASSUME NEW ok \in BOOLEAN, LiftInst(ok) PROVE PendingInv'
  <2>1. pc = "lift" /\ UNCHANGED <<config, mem, addr_map, insts>>
    BY <1>8 DEF LiftInst, found
  <2>2. \A b, k : Pending(b, k) => PendingNext(b, k)
    BY <2>1, KnownStays
  <2> QED BY <1>0, <2>1, <2>2, PendingSame
<1> QED BY <1>1, <1>2, <1>3, <1>4, <1>5, <1>6, <1>7, <1>8, Steps
-----------------------------------------------------------------------------
(* The addresses q of a block are those of a run of insts from place m on. *)
RunFrom(m, q) ==
  \A k \in DOMAIN q : /\ m + k - 1 \in DOMAIN insts
                      /\ q[k] = insts[m + k - 1].addr
                      /\ k > 1 => ~insts[m + k - 1].new_block

LEMMA RunGrows ==
  ASSUME NEW m \in Nat, NEW S, NEW q \in Seq(S), RunFrom(m, q), NEW n \in DOMAIN insts,
         m + Len(q) = n, q # << >> => ~insts[n].new_block
  PROVE  RunFrom(m, Append(q, insts[n].addr))
<1> DEFINE ad == insts[n].addr  new == Append(q, ad)
<1> HIDE DEF ad
<1>1. /\ DOMAIN new = 1 .. Len(q) + 1 /\ new[Len(q) + 1] = ad /\ Len(q) \in Nat
      /\ \A k \in 1 .. Len(q) : new[k] = q[k]
      /\ DOMAIN q = 1 .. Len(q) /\ (Len(q) + 1 > 1 => q # << >>)
  BY SMTT(60)
<1>2. m + (Len(q) + 1) - 1 = n
  BY SMTT(60), <1>1
<1>3. \A k \in 1 .. Len(q) + 1 : k \in 1 .. Len(q) \/ k = Len(q) + 1
  BY SMTT(60), <1>1
<1> HIDE DEF new
<1>4. ASSUME NEW k \in DOMAIN new
      PROVE  /\ m + k - 1 \in DOMAIN insts
             /\ new[k] = insts[m + k - 1].addr
             /\ k > 1 => ~insts[m + k - 1].new_block
  <2>1. CASE k \in 1 .. Len(q)
    BY <1>1, <2>1 DEF RunFrom
  <2>2. CASE k = Len(q) + 1
    BY <1>1, <1>2, <2>2 DEF ad
  <2> QED BY <1>1, <1>3, <1>4, <2>1, <2>2
<1>5. RunFrom(m, new)
  BY <1>4 DEF RunFrom
<1> QED BY <1>5 DEF new, ad

(* The block that an instruction is added to, and what becomes of it.      *)
LEMMA LiftBlock ==
  ASSUME StateOK, MapInv, OrderInv, LiftInv, NEW ok \in BOOLEAN, LiftInst(ok)
  PROVE  \E block \in Addr, old \in Seq(Addr), new \in Seq(Addr) :
           /\ block_addr' = block /\ block_map' = [block_map EXCEPT ![block] = new]
           /\ entry_ip' = Entry /\ Known(block) /\ addr_map[block] + Len(old) = i
           /\ RunFrom(addr_map[block], new)
           /\ ok => Len(new) = Len(old) + 1
           /\ ~ok => new = old
           /\ block_map[block] # Unread => old = block_map[block]
           /\ i = 1 => block = Entry
<1> DEFINE ad == insts[i].addr
           block == IF insts[i].new_block THEN ad ELSE block_addr
           old == IF block_map[block] = Unread THEN << >> ELSE block_map[block]
           new == IF ok THEN Append(old, ad) ELSE old
<1>1. /\ i \in DOMAIN insts /\ i \in Nat /\ pc = "lift" /\ block \in Addr
      /\ old \in Seq(Addr) /\ new \in Seq(Addr)
      /\ block_addr' = block /\ block_map' = [block_map EXCEPT ![block] = new]
      /\ entry_ip' = IF entry_ip = Unread THEN block ELSE entry_ip
  BY Lifted
<1>2. i <= Len(insts) /\ (i = 1 \/ i > 1) /\ insts # << >> /\ ~(i < i) /\ i + 0 = i
  <2>1. insts \in Seq(InstRec)
    BY Types
  <2>2. DOMAIN insts = 1 .. Len(insts) /\ Len(insts) \in Nat /\ (insts = << >> => Len(insts) = 0)
    BY SMTT(60), <2>1
  <2> QED BY SMTT(60), <1>1, <2>2
<1>3. i = 1 => block = Entry
  BY <1>2 DEF OrderInv
<1>4. entry_ip' = Entry
  <2>1. Entry # Unread
    BY PredecodeAssumption
  <2> QED BY <1>1, <1>2, <1>3, <2>1 DEF LiftInv
<1>5. /\ Known(block) /\ addr_map[block] + Len(old) = i
      /\ old # << >> => ~insts[i].new_block
      /\ block_map[block] # Unread => old = block_map[block]
  <2>1. CASE insts[i].new_block
    <3>1. block = ad /\ Known(ad) /\ addr_map[ad] = i
      BY <1>1, <2>1, KnownDecodes DEF MapInv
    <3>2. block_map[block] = Unread
      <4>1. \A b \in Addr : block_map[b] # Unread => addr_map[b] < i
        BY <1>1 DEF LiftInv
      <4>2. addr_map[block] = i
        BY <3>1
      <4> HIDE DEF block
      <4> QED BY <1>1, <1>2, <4>1, <4>2
    <3>3. old = << >> /\ Len(<< >>) = 0
      BY SMTT(60), <3>2
    <3> QED BY <1>2, <3>1, <3>2, <3>3
  <2>2. CASE ~insts[i].new_block
    <3>1. block = block_addr
      BY <2>2
    <3>2. block_map[block] # Unread /\ addr_map[block] + Len(block_map[block]) = i
      BY <1>1, <1>2, <2>2, <3>1 DEF LiftInv
    <3>3. Known(block)
      BY <1>1, <3>2 DEF LiftInv
    <3> QED BY <2>2, <3>2, <3>3
  <2> QED BY <2>1, <2>2
<1>6. RunFrom(addr_map[block], old)
  <2>1. CASE block_map[block] = Unread
    <3>1. DOMAIN << >> = {}
      BY SMTT(60)
    <3> QED BY <2>1, <3>1 DEF RunFrom
  <2>2. CASE block_map[block] # Unread
    <3>1. RunFrom(addr_map[block], block_map[block])
      BY <1>1, <2>2 DEF LiftInv, RunFrom
    <3> QED BY <2>2, <3>1
  <2> QED BY <2>1, <2>2
<1>7. addr_map[block] \in Nat
  <2>1. addr_map[block] \in 0 .. Len(insts) /\ Len(insts) \in Nat
    BY <1>1, Types
  <2>2. 0 .. Len(insts) \subseteq Nat
    BY SMTT(60), <2>1
  <2> QED BY <2>1, <2>2
<1> HIDE DEF block, old
<1>8. RunFrom(addr_map[block], Append(old, ad))
  BY <1>1, <1>5, <1>6, <1>7, RunGrows
<1>9. Len(Append(old, ad)) = Len(old) + 1
  BY SMTT(60), <1>1
<1>10. /\ RunFrom(addr_map[block], new)
       /\ ok => Len(new) = Len(old) + 1
       /\ ~ok => new = old
  BY <1>6, <1>8, <1>9
<1> HIDE DEF new
<1> QED BY <1>1, <1>3, <1>4, <1>5, <1>10

(* A step of Predecode starts Lift with nothing lifted.                    *)
LEMMA LiftStarts ==
  ASSUME StateOK', OrderInv', LiftInv, pc \in {"queue", "block"}, UNCHANGED lifter, pc' # "done"
  PROVE  LiftInv'
<1>1. i' = 1 /\ i = 1 /\ pc # "done" /\ ~(1 > 1)
  <2>1. ~(1 > 1)
    BY SMTT(60)
  <2> QED BY <2>1 DEF LiftInv, lifter
<1>2. entry_ip' = Unread /\ \A b \in Addr : block_map'[b] = Unread
  BY <1>1 DEF LiftInv, lifter
<1>3. fn' # "fn"
  BY <1>1 DEF LiftInv, lifter
<1>4. 1 <= Len(insts') => insts'[1].new_block
  <2>1. insts' \in Seq(InstRec)
    BY DEF StateOK, TypeOK, InstRec
  <2>2. 1 <= Len(insts') => insts' # << >>
    BY SMTT(60), <2>1
  <2> QED BY <2>2 DEF OrderInv
<1> QED BY <1>1, <1>2, <1>3, <1>4 DEF LiftInv

(* LiftInv in the next state, where what was found is left alone.          *)
LEMMA LiftFrom ==
  ASSUME UNCHANGED found, pc' \in {"lift", "done"},
         pc' = "done" \/ i' # 1,
         i' > 1 => entry_ip' = Entry /\ block_map'[Entry] \notin {Unread, << >>},
         fn' = "fn" => i' > 1,
         \A b \in Addr : block_map'[b] # Unread =>
           Known(b) /\ (pc' = "lift" => addr_map[b] < i') /\ RunFrom(addr_map[b], block_map'[b]),
         pc' = "lift" /\ i' <= Len(insts) /\ ~insts[i'].new_block =>
           /\ block_addr' \in Addr /\ block_map'[block_addr'] \notin {Unread, << >>}
           /\ addr_map[block_addr'] + Len(block_map'[block_addr']) = i'
  PROVE  LiftInv'
<1>1. UNCHANGED <<insts, addr_map>>
  BY DEF found
<1>2. \A b : Known(b)' <=> Known(b)
  BY <1>1 DEF Known
<1>3. ASSUME NEW b \in Addr, block_map'[b] # Unread
      PROVE  /\ Known(b)' /\ (pc' = "lift" => addr_map'[b] < i')
             /\ \A k \in DOMAIN block_map'[b] :
                  /\ addr_map'[b] + k - 1 \in DOMAIN insts'
                  /\ block_map'[b][k] = insts'[addr_map'[b] + k - 1].addr
                  /\ k > 1 => ~insts'[addr_map'[b] + k - 1].new_block
  BY <1>1, <1>2, <1>3 DEF RunFrom
<1> QED BY <1>1, <1>3 DEF LiftInv

(* One instruction of Lift.                                                *)
LEMMA LiftStep ==
  ASSUME StateOK, MapInv, OrderInv, LiftInv, NEW ok \in BOOLEAN, LiftInst(ok)
  PROVE  LiftInv'
<1>1. /\ i \in DOMAIN insts /\ i \in Nat /\ pc = "lift"
      /\ \/ ~ok /\ i = 1 /\ pc' = "done" /\ fn' = "null" /\ i' = i
         \/ ok /\ pc' = "lift" /\ fn' = fn /\ i' = i + 1
         \/ ~ok /\ i # 1 /\ pc' = "lift" /\ fn' = fn /\ i' = NextBlock(i)
      /\ UNCHANGED found
  BY Lifted
<1>2. PICK block \in Addr, old \in Seq(Addr), new \in Seq(Addr) :
        /\ block_addr' = block /\ block_map' = [block_map EXCEPT ![block] = new]
        /\ entry_ip' = Entry /\ Known(block) /\ addr_map[block] + Len(old) = i
        /\ RunFrom(addr_map[block], new)
        /\ ok => Len(new) = Len(old) + 1
        /\ ~ok => new = old
        /\ block_map[block] # Unread => old = block_map[block]
        /\ i = 1 => block = Entry
  BY LiftBlock
<1>3. /\ block_map'[block] = new /\ new # Unread
      /\ \A b \in Addr : b # block => block_map'[b] = block_map[b]
  BY <1>2, PredecodeAssumption DEF StateOK
<1>4. /\ i \in 1 .. Len(insts) /\ Len(insts) \in Nat /\ Entry \in Addr
      /\ addr_map[block] \in 0 .. Len(insts)
  BY <1>1, Types
<1>5. /\ NextBlock(i) \in i + 1 .. Len(insts) + 1
      /\ NextBlock(i) <= Len(insts) => insts[NextBlock(i)].new_block
  BY <1>1, NextBlockRight
<1>6. /\ pc' = "lift" => i' \in Nat /\ i' > i /\ i' > 1 /\ i' # 1
      /\ pc' = "done" => i' = 1 /\ ~(i' > 1)
  BY SMTT(60), <1>1, <1>4, <1>5
<1>7. /\ addr_map[block] <= i /\ addr_map[block] \in Nat
      /\ ok => Len(new) # 0 /\ addr_map[block] + Len(new) = i + 1
  <2>1. Len(old) \in Nat
    BY SMTT(60)
  <2>2. PICK m, l, n : m = addr_map[block] /\ l = Len(old) /\ n = Len(new)
    OBVIOUS
  <2> QED BY SMTT(60), <1>2, <1>4, <2>1, <2>2
<1>8. ok => new # << >>
  <2>1. Len(<< >>) = 0
    BY SMTT(60)
  <2> QED BY <1>7, <2>1
<1>9. i' > 1 => block_map'[Entry] \notin {Unread, << >>}
  <2>1. CASE i = 1
    BY <1>1, <1>2, <1>3, <1>6, <1>8, <2>1
  <2>2. CASE i # 1
    <3>1. i > 1
      BY SMTT(60), <1>4, <2>2
    <3>2. block_map[Entry] \notin {Unread, << >>}
      BY <3>1 DEF LiftInv
    <3> QED BY <1>2, <1>3, <1>4, <1>8, <3>2
  <2> QED BY <2>1, <2>2
<1>10. ASSUME NEW b \in Addr, block_map'[b] # Unread
       PROVE  /\ Known(b) /\ (pc' = "lift" => addr_map[b] < i')
              /\ RunFrom(addr_map[b], block_map'[b])
  <2>1. CASE b = block
    <3>1. pc' = "lift" => addr_map[block] < i'
      BY SMTT(60), <1>4, <1>6, <1>7
    <3> QED BY <1>2, <1>3, <2>1, <3>1
  <2>2. CASE b # block
    <3>1. block_map'[b] = block_map[b] /\ block_map[b] # Unread
      BY <1>3, <1>10, <2>2
    <3>2. Known(b) /\ addr_map[b] < i /\ RunFrom(addr_map[b], block_map[b])
      BY <1>1, <3>1 DEF LiftInv, RunFrom
    <3>3. addr_map[b] \in 0 .. Len(insts)
      BY Types
    <3>4. pc' = "lift" => addr_map[b] < i'
      BY SMTT(60), <1>4, <1>6, <3>2, <3>3
    <3> QED BY <3>1, <3>2, <3>4
  <2> QED BY <2>1, <2>2
<1>11. ASSUME pc' = "lift", i' <= Len(insts), ~insts[i'].new_block
       PROVE  /\ block_addr' \in Addr /\ block_map'[block_addr'] \notin {Unread, << >>}
              /\ addr_map[block_addr'] + Len(block_map'[block_addr']) = i'
  <2>1. ok /\ i' = i + 1
    BY <1>1, <1>5, <1>11
  <2> QED BY <1>2, <1>3, <1>7, <1>8, <2>1
<1>12. pc' \in {"lift", "done"} /\ (pc' = "done" \/ i' # 1) /\ (fn' = "fn" => i' > 1)
  BY <1>1, <1>6
<1> QED BY <1>1, <1>2, <1>9, <1>10, <1>11, <1>12, LiftFrom

(* Every step keeps the lifted blocks runs of insts.                       *)
LEMMA NextLift ==
  ASSUME IInv, Next
  PROVE  LiftInv'
<1>0. StateOK /\ MapInv /\ OrderInv /\ LiftInv /\ StateOK' /\ OrderInv'
  BY NextState, NextOrder DEF IInv
<1>1. CASE PopBlock
  <2>1. pc = "queue" /\ pc' = "block" /\ UNCHANGED lifter
    BY <1>1 DEF PopBlock
  <2> QED BY <1>0, <2>1, LiftStarts
<1>2. CASE QueueEmpty
  <2>1. pc = "queue" /\ pc' = "lift" /\ UNCHANGED lifter
    BY <1>2 DEF QueueEmpty
  <2> QED BY <1>0, <2>1, LiftStarts
<1>3. CASE JoinBlock
  <2>1. pc = "block" /\ pc' # "done" /\ UNCHANGED lifter
    BY <1>3 DEF JoinBlock, EndBlock
  <2> QED BY <1>0, <2>1, LiftStarts
<1>4. CASE DecodeNothing
  <2>1. pc = "block" /\ pc' # "done" /\ UNCHANGED lifter
    BY <1>4 DEF DecodeNothing, EndBlock
  <2> QED BY <1>0, <2>1, LiftStarts
<1>5. CASE LiftDone
  <2>1. /\ pc = "lift" /\ pc' = "done" /\ UNCHANGED found
        /\ UNCHANGED <<i, block_addr, block_map, entry_ip>>
        /\ fn' = "fn" => entry_ip # Unread
    BY <1>5 DEF LiftDone
  <2>2. i # 1 => i > 1
    <3>1. i \in 1 .. Len(insts) + 1 /\ Len(insts) \in Nat
      BY <1>0, Types DEF StateOK, TypeOK
    <3> QED BY SMTT(60), <3>1
  <2>3. fn' = "fn" => i > 1
    BY <1>0, <2>1, <2>2 DEF LiftInv
  <2>4. \A b \in Addr : block_map[b] # Unread =>
          Known(b) /\ RunFrom(addr_map[b], block_map[b])
    BY <1>0, <2>1 DEF LiftInv, RunFrom
  <2>5. i > 1 => entry_ip = Entry /\ block_map[Entry] \notin {Unread, << >>}
    BY <1>0 DEF LiftInv
  <2> QED BY <2>1, <2>3, <2>4, <2>5, LiftFrom
<1>6. CASE Done
  BY <1>0, <1>6 DEF LiftInv, Known, Done, vars, config, found, lifter
<1>7. ASSUME NEW inst \in Encodings(cur_addr), DecodeInst(inst) PROVE LiftInv'
  <2>1. pc = "block" /\ UNCHANGED lifter
    BY <1>0, <1>7, ReadOnce
  <2>2. pc' # "done"
    <3>1. CASE decode_fn(cur_addr, inst).result = "FAILED"
      BY <1>0, <1>7, <3>1, DecodeBad DEF EndBlock
    <3>2. CASE decode_fn(cur_addr, inst).result # "FAILED"
      BY <1>0, <1>7, <3>2, DecodeGoes
    <3> QED BY <3>1, <3>2
  <2> QED BY <1>0, <2>1, <2>2, LiftStarts
<1>8. ASSUME NEW ok \in BOOLEAN, LiftInst(ok) PROVE LiftInv'
  BY <1>0, <1>8, LiftStep
<1> QED BY <1>1, <1>2, <1>3, <1>4, <1>5, <1>6, <1>7, <1>8, Steps
-----------------------------------------------------------------------------
(* What was found, as it can be read back.                                 *)
LEMMA HashKept ==
  ASSUME HashInv, UNCHANGED sha, DOMAIN insts' = DOMAIN insts,
         \A k \in DOMAIN insts : /\ insts'[k].addr = insts[k].addr
                                 /\ mem'[insts[k].addr] = mem[insts[k].addr],
         gap' \in {"none", "last", "hidden"}, gap = "hidden" => gap' = "hidden",
         gap' = "none" => /\ pc' = "queue" => ReadBack(sha).start
                          /\ pc' = "block" => ReadBack(sha).start /\ new_block'
  PROVE  HashInv'
<1>1. [k \in DOMAIN insts |-> <<insts[k].addr, mem[insts[k].addr]>>]
        = [k \in DOMAIN insts' |-> <<insts'[k].addr, mem'[insts'[k].addr]>>]
  OBVIOUS
<1>2. HashDetermines'
  BY <1>1 DEF HashInv, HashDetermines
<1> QED BY <1>2 DEF HashInv

(* An instruction goes on to the next unless it is one of the jumps.       *)
LEMMA GoesToNext ==
  ASSUME StateOK, NEW a, NEW inst \in Encodings(a), decode_fn(a, inst).result # "FAILED"
  PROVE  decode_fn(a, inst).result = "NORMAL" <=> inst.op = "other"
<1>1. inst.op # "bad" /\ inst.op \in Ops
  BY DEF decode_fn, FAILED, Encodings
<1>2. decode_fn(a, inst) = CASE arch = "x86_64"  -> DecodeX86_64(a, inst)
                             [] arch = "rv64"    -> DecodeRV64(a, inst)
                             [] arch = "aarch64" -> DecodeAArch64(a, inst)
  BY DEF decode_fn, FAILED
<1>3. \A r, t : Result(r, inst, t).result = r
  BY DEF Result
<1>4. arch \in {"x86_64", "rv64", "aarch64"}
  BY DEF StateOK
<1>5. CASE arch = "x86_64"
  <2>1. decode_fn(a, inst) = DecodeX86_64(a, inst)
        /\ inst.op \in {"jcc", "jmp", "jmp_indirect", "call", "ret", "other"}
    BY <1>1, <1>2, <1>5 DEF Ops
  <2> QED BY <1>3, <2>1, SMTT(60) DEF DecodeX86_64
<1>6. CASE arch = "rv64"
  <2>1. decode_fn(a, inst) = DecodeRV64(a, inst)
        /\ inst.op \in {"branch", "jal", "jalr", "ecall", "other"}
    BY <1>1, <1>2, <1>6 DEF Ops
  <2> QED BY <1>3, <2>1, SMTT(60) DEF DecodeRV64
<1>7. CASE arch = "aarch64"
  <2>1. decode_fn(a, inst) = DecodeAArch64(a, inst)
        /\ inst.op \in {"bcond", "b", "bl", "br", "other"}
    BY <1>1, <1>2, <1>7 DEF Ops
  <2> QED BY <1>3, <2>1, SMTT(60) DEF DecodeAArch64
<1> QED BY <1>4, <1>5, <1>6, <1>7

(* An instruction that was decoded has the next follow it in its block, or *)
(* ends the block.                                                         *)
LEMMA DecodeEnds ==
  ASSUME StateOK, NEW inst, DecodeInst(inst), decode_fn(cur_addr, inst).result # "FAILED"
  PROVE  /\ pc' = "block" => decode_fn(cur_addr, inst).result = "NORMAL"
         /\ pc' = "queue" => decode_fn(cur_addr, inst).result # "NORMAL"
<1> DEFINE res == decode_fn(cur_addr, inst)
<1>1. Append1(res, cur_addr + res.size) /\ pc = "block"
  BY DEF DecodeInst
<1>2. granularity <= 0 => granularity <= 1
  BY SMTT(60), Types
<1> HIDE DEF res
<1>3. /\ pc' = "block" => res.result = "NORMAL"
      /\ pc' = "queue" => res.result # "NORMAL"
  BY <1>1, <1>2 DEF Append1, EndBlock
<1> QED BY <1>3 DEF res

(* What is hashed are offsets and instructions.                            *)
LEMMA HashedType ==
  ASSUME sha \in Seq(Piece), NEW inst \in Inst, Entry \in Nat, cur_addr \in Nat,
         new_block \in BOOLEAN
  PROVE  /\ cur_addr - Entry \in Piece /\ inst \in Piece
         /\ sha \o Hashed(inst) \in Seq(Piece)
         /\ new_block => sha \o Hashed(inst) = Append(Append(sha, cur_addr - Entry), inst)
                         /\ Append(sha, cur_addr - Entry) \in Seq(Piece)
         /\ ~new_block => sha \o Hashed(inst) = Append(sha, inst)
<1>1. cur_addr - Entry \in Int
  BY SMTT(60)
<1>2. PICK o : o = cur_addr - Entry
  OBVIOUS
<1>3. o \in Piece /\ inst \in Piece
  BY <1>1, <1>2 DEF Piece
<1>4. CASE new_block
  <2>1. Hashed(inst) = <<o>> \o <<inst>>
    BY <1>2, <1>4 DEF Hashed
  <2>2. /\ sha \o (<<o>> \o <<inst>>) = Append(Append(sha, o), inst)
        /\ Append(sha, o) \in Seq(Piece) /\ Append(Append(sha, o), inst) \in Seq(Piece)
    BY SMTT(60), <1>3
  <2> QED BY <1>2, <1>3, <1>4, <2>1, <2>2
<1>5. CASE ~new_block
  <2>1. Hashed(inst) = << >> \o <<inst>>
    BY <1>5 DEF Hashed
  <2>2. sha \o (<< >> \o <<inst>>) = Append(sha, inst) /\ Append(sha, inst) \in Seq(Piece)
    BY SMTT(60), <1>3
  <2> QED BY <1>2, <1>3, <1>5, <2>1, <2>2
<1> QED BY <1>4, <1>5

(* Reading back an instruction at cur_addr.                                *)
LEMMA ReadInst ==
  ASSUME HashInv, gap = "none", pc = "block", ~Known(cur_addr), new_block \in BOOLEAN,
         NEW inst \in Inst, Entry \in Nat, cur_addr \in Nat
  PROVE  ReadBack(sha \o Hashed(inst)) =
           ReadPiece([at |-> cur_addr, start |-> FALSE, seq |-> ReadBack(sha).seq], inst)
<1> DEFINE acc == ReadBack(sha)  o == cur_addr - Entry
<1>1. /\ sha \in Seq(Piece) /\ acc \in [at : Nat, start : BOOLEAN, seq : Seq(Addr \X Inst)]
      /\ acc.start <=> new_block
      /\ ~new_block => acc.at = cur_addr
  BY DEF HashInv
<1>2. Entry + o = cur_addr
  BY SMTT(60)
<1>3. o \in Piece /\ inst \in Piece
  BY <1>1, HashedType
<1>4. CASE new_block
  <2>1. sha \o Hashed(inst) = Append(Append(sha, o), inst) /\ Append(sha, o) \in Seq(Piece)
    BY <1>1, <1>4, HashedType
  <2> HIDE DEF o
  <2>2. ReadBack(Append(Append(sha, o), inst)) = ReadPiece(ReadBack(Append(sha, o)), inst)
    BY <1>3, <2>1, ReadAppend
  <2>3. ReadBack(Append(sha, o)) = ReadPiece(acc, o)
    BY <1>1, <1>3, ReadAppend
  <2> HIDE DEF acc
  <2>4. ReadPiece(acc, o) = [at |-> cur_addr, start |-> FALSE, seq |-> acc.seq]
    BY <1>1, <1>2, <1>4 DEF ReadPiece
  <2> QED BY <2>1, <2>2, <2>3, <2>4 DEF acc
<1>5. CASE ~new_block
  <2>1. sha \o Hashed(inst) = Append(sha, inst)
    BY <1>1, <1>5, HashedType
  <2>2. ReadBack(Append(sha, inst)) = ReadPiece(acc, inst)
    BY <1>1, <1>3, ReadAppend
  <2> HIDE DEF acc
  <2>3. acc = [at |-> cur_addr, start |-> FALSE, seq |-> acc.seq]
    <3>1. PICK S : acc \in [at : Nat, start : BOOLEAN, seq : S]
      BY <1>1
    <3> QED BY <1>1, <1>5, <3>1
  <2> QED BY <2>1, <2>2, <2>3 DEF acc
<1> QED BY <1>4, <1>5

(* The reader knows the addresses that Predecode knows.                    *)
LEMMA SeenIsKnown ==
  ASSUME StateOK, MapInv, NEW inst, inst \in Encodings(cur_addr), DecodeInst(inst),
         decode_fn(cur_addr, inst).result # "FAILED", NEW x
  PROVE  (\E k \in DOMAIN insts' : insts'[k].addr = x) <=> Known(x)'
<1>1. PICK n : /\ n # 0 /\ DOMAIN insts' = DOMAIN insts \cup {n}
               /\ \A k \in DOMAIN insts : insts'[k] = insts[k]
               /\ insts'[n].addr = cur_addr /\ addr_map'[cur_addr] = n
               /\ \A a \in Addr : a # cur_addr => addr_map'[a] = addr_map[a]
  BY DecodeOk
<1>2. cur_addr \in Addr
  BY ReadOnce
<1>3. Known(x)' <=> x = cur_addr \/ Known(x)
  BY <1>1, <1>2 DEF Known
<1>4. ASSUME Known(x) PROVE \E k \in DOMAIN insts : insts[k].addr = x
  BY <1>4, KnownPlace DEF MapInv
<1>5. ASSUME NEW k \in DOMAIN insts, insts[k].addr = x PROVE Known(x)
  BY <1>5, KnownDecodes
<1> QED BY <1>1, <1>3, <1>4, <1>5

(* An instruction is decoded and hashed.                                   *)
LEMMA HashStep ==
  ASSUME StateOK, MapInv, HashInv, NEW inst, NEW c, c = cur_addr, inst \in Encodings(c),
         DecodeInst(inst), decode_fn(c, inst).result # "FAILED"
  PROVE  HashInv'
<1>1. /\ c \in Addr /\ pc = "block" /\ ~Known(c) /\ mem'[c] = inst
      /\ \A a \in Addr : a # c => mem'[a] = mem[a]
  BY ReadOnce
<1>2. inst \in Inst /\ decode_fn(c, inst).size = inst.size
  BY <1>1, EncodingType, DecodeType
<1>3. sha' = sha \o Hashed(inst) /\ GoesOn /\ gap \in {"none", "last", "hidden"}
  BY DEF DecodeInst, HashInv
<1>t. new_block \in BOOLEAN /\ Entry \in Nat /\ cur_addr \in Nat /\ sha \in Seq(Piece)
  BY Types DEF HashInv
<1>s. sha' \in Seq(Piece)
  BY <1>2, <1>3, <1>t, HashedType
<1>h. CASE gap # "none"
  <2>1. gap' = "hidden"
    BY <1>3, <1>h DEF GoesOn
  <2> QED BY <1>s, <2>1 DEF HashInv, HashDetermines
<1>n. CASE gap = "none"
  <2>1. gap' = "none"
    BY <1>3, <1>n DEF GoesOn
  <2>4. PICK n : /\ n = Len(insts) + 1 /\ DOMAIN insts' = DOMAIN insts \cup {n}
                 /\ insts' \in Seq(InstRec) /\ \A k \in DOMAIN insts : insts'[k] = insts[k]
                 /\ insts'[n].addr = c /\ cur_addr' = c + inst.size /\ cur_addr' \in Nat
                 /\ new_block' = FALSE
    BY <1>2, DecodeOk
  <2> DEFINE P == [k \in DOMAIN insts |-> <<insts[k].addr, mem[insts[k].addr]>>]
             Q == [k \in DOMAIN insts' |-> <<insts'[k].addr, mem'[insts'[k].addr]>>]
             next == c + inst.size
             Seen(s) == \E k \in DOMAIN s : s[k][1] = next
  <2>5. /\ ReadBack(sha') = ReadPiece([at |-> c, start |-> FALSE, seq |-> P], inst)
        /\ P \in Seq(Addr \X Inst)
    <3>2. ReadBack(sha).seq = P
      BY <1>n DEF HashInv, HashDetermines
    <3>3. ReadBack(sha) \in [at : Nat, start : BOOLEAN, seq : Seq(Addr \X Inst)]
      BY <1>n DEF HashInv
    <3> HIDE DEF P
    <3>4. ReadBack(sha).seq \in Seq(Addr \X Inst)
      BY <3>3
    <3>5. ReadBack(sha \o Hashed(inst)) =
            ReadPiece([at |-> cur_addr, start |-> FALSE, seq |-> ReadBack(sha).seq], inst)
      BY <1>1, <1>2, <1>n, <1>t, ReadInst
    <3> QED BY <1>3, <3>2, <3>4, <3>5
  <2>6. \A k \in DOMAIN insts : insts[k].addr \in Addr /\ insts[k].addr # c
    BY <1>1, KnownDecodes
  <2>7. /\ DOMAIN P = DOMAIN insts /\ DOMAIN Q = DOMAIN insts' /\ Q[n] = <<c, inst>>
        /\ \A k \in DOMAIN insts : Q[k] = P[k]
    BY <1>1, <2>4, <2>6
  <2>8. Len(P) = Len(insts) /\ <<c, inst>> \in Addr \X Inst
    <3>1. DOMAIN insts = 1 .. Len(insts) /\ Len(insts) \in Nat
      BY Types
    <3>2. DOMAIN P = DOMAIN insts /\ P \in Seq(Addr \X Inst)
      BY <2>5, <2>7
    <3> HIDE DEF P
    <3>3. Len(P) = Len(insts)
      BY SMTT(60), <3>1, <3>2
    <3> QED BY <1>1, <1>2, <3>3
  <2>s. Seen(Q) <=> Known(cur_addr)'
    <3>1. (\E k \in DOMAIN insts' : insts'[k].addr = next) <=> Known(next)'
      BY SeenIsKnown
    <3>2. Known(next)' <=> Known(cur_addr)'
      BY <2>4 DEF Known
    <3>3. \A k \in DOMAIN insts' : Q[k][1] = insts'[k].addr
      OBVIOUS
    <3> QED BY <2>7, <3>1, <3>2, <3>3
  <2> HIDE DEF P, Q
  <2>9. Append(P, <<c, inst>>) \in Seq(Addr \X Inst)
    BY SMTT(60), <2>5, <2>8
  <2>10. Q = Append(P, <<c, inst>>)
    <3>1. Q \in Seq(Addr \X Inst)
      <4>1. PICK m \in Nat : DOMAIN Q = 1 .. m
        BY <2>4, <2>7, Ends1
      <4>2. \A k \in DOMAIN Q : Q[k] \in Addr \X Inst
        <5>1. \A k \in DOMAIN insts : P[k] \in Addr \X Inst
          BY SMTT(60), <2>5, <2>7
        <5> QED BY <2>4, <2>7, <2>8, <5>1
      <4>3. Q = [k \in DOMAIN Q |-> Q[k]]
        BY DEF Q
      <4> QED BY SMTT(60), <4>1, <4>2, <4>3
    <3>2. DOMAIN Q = DOMAIN P \cup {Len(P) + 1} /\ (\A k \in DOMAIN P : Q[k] = P[k])
          /\ Q[Len(P) + 1] = <<c, inst>>
      BY <2>4, <2>7, <2>8
    <3>3. PICK x, S : x = <<c, inst>> /\ S = Addr \X Inst
      OBVIOUS
    <3>4. P \in Seq(S) /\ Q \in Seq(S) /\ x \in S /\ Q[Len(P) + 1] = x
      BY <2>5, <2>8, <3>1, <3>2, <3>3
    <3>5. Q = Append(P, x)
      BY SMTT(60), <3>2, <3>4
    <3> QED BY <3>3, <3>5
  <2>11. /\ ReadBack(sha') \in [at : Nat, start : BOOLEAN, seq : Seq(Addr \X Inst)]
         /\ ReadBack(sha').seq = Q /\ ReadBack(sha').at = cur_addr'
         /\ ReadBack(sha').start <=> inst.op # "other" \/ Seen(Q)
    <3>1. PICK S : S = Seq(Addr \X Inst) /\ Q \in S
      BY <2>9, <2>10
    <3>2. PICK st \in BOOLEAN : st <=> inst.op # "other" \/ Seen(Q)
      OBVIOUS
    <3>3. ReadPiece([at |-> c, start |-> FALSE, seq |-> P], inst)
            = [at |-> next, start |-> inst.op # "other" \/ Seen(Q), seq |-> Q]
      BY <2>10 DEF ReadPiece
    <3>4. Reader(ReadBack(sha'), next, st, Q) /\ next \in Nat
      BY <2>4, <2>5, <3>2, <3>3 DEF Reader
    <3> HIDE DEF next, Seen
    <3>5. ReadBack(sha') \in [at : Nat, start : BOOLEAN, seq : S]
      BY <3>1, <3>2, <3>4, ReaderIs
    <3>6. ReadBack(sha').seq = Q /\ ReadBack(sha').at = next /\ ReadBack(sha').start = st
      <4>1. HasRead(ReadBack(sha'), next, st, Q)
        BY <3>1, <3>2, <3>4, ReaderIs
      <4> QED BY <4>1 DEF HasRead
    <3> QED BY <2>4, <3>1, <3>2, <3>5, <3>6 DEF next
  <2>12. /\ pc' = "block" => inst.op = "other"
         /\ pc' = "queue" => inst.op # "other"
    BY GoesToNext, DecodeEnds
  <2>13. HashDetermines'
    BY <2>11 DEF HashDetermines, Q
  <2> HIDE DEF Seen
  <2> QED BY <1>s, <2>1, <2>4, <2>s, <2>11, <2>12, <2>13 DEF HashInv
<1> QED BY <1>h, <1>n

(* Every step keeps what was found readable from what was hashed.          *)
LEMMA NextHash ==
  ASSUME IInv, Next
  PROVE  HashInv'
<1>0. /\ StateOK /\ MapInv /\ HashInv /\ gap \in {"none", "last", "hidden"}
      /\ gap = "none" /\ pc = "queue" => ReadBack(sha).start
      /\ gap = "none" /\ pc = "block" => (ReadBack(sha).start <=> new_block \/ Known(cur_addr))
  BY DEF IInv, HashInv
<1>1. CASE PopBlock
  <2>1. new_block' = TRUE /\ UNCHANGED <<mem, insts, sha, gap>> /\ pc = "queue" /\ pc' = "block"
    BY <1>1 DEF PopBlock
  <2> QED BY <1>0, <2>1, HashKept
<1>2. CASE QueueEmpty
  <2>1. pc' = "lift" /\ UNCHANGED <<mem, insts, sha, gap>>
    BY <1>2 DEF QueueEmpty, found
  <2> QED BY <1>0, <2>1, HashKept
<1>3. CASE JoinBlock
  <2>1. /\ DOMAIN insts' = DOMAIN insts /\ UNCHANGED <<mem, sha>> /\ EndBlock
        /\ \A k \in DOMAIN insts : insts'[k].addr = insts[k].addr
    BY <1>0, <1>3, Join
  <2>2. pc' # "block"
    BY <2>1 DEF EndBlock
  <2>3. UNCHANGED gap /\ pc = "block" /\ Known(cur_addr)
    BY <1>3 DEF JoinBlock
  <2> QED BY <1>0, <2>1, <2>2, <2>3, HashKept
<1>4. CASE DecodeNothing
  <2>1. /\ pc' # "block" /\ UNCHANGED <<mem, insts, sha>> /\ RunsOut
        /\ pc = "block" /\ ~Known(cur_addr)
    BY <1>4 DEF DecodeNothing, EndBlock, found, Known
  <2>2. /\ gap' \in {"none", "last", "hidden"} /\ (gap = "hidden" => gap' = "hidden")
        /\ gap' = "none" => ReadBack(sha).start
    BY <1>0, <2>1 DEF RunsOut
  <2> QED BY <1>0, <2>1, <2>2, HashKept
<1>5. CASE LiftDone
  <2>1. pc' = "done" /\ UNCHANGED <<mem, insts, sha, gap>>
    BY <1>5 DEF LiftDone, found
  <2> QED BY <1>0, <2>1, HashKept
<1>6. CASE Done
  <2>1. pc' = "done" /\ UNCHANGED <<mem, insts, sha, gap>>
    BY <1>6 DEF Done, vars, found
  <2> QED BY <1>0, <2>1, HashKept
<1>7. ASSUME NEW inst \in Encodings(cur_addr), DecodeInst(inst) PROVE HashInv'
  <2>0. PICK c : c = cur_addr
    OBVIOUS
  <2>1. CASE decode_fn(c, inst).result = "FAILED"
    <3>1. /\ UNCHANGED <<insts, sha>> /\ EndBlock /\ ~Known(c) /\ pc = "block"
          /\ \A a \in Addr : a # c => mem'[a] = mem[a]
      BY <1>0, <1>7, <2>0, <2>1, BadKnown, ReadOnce DEF found
    <3>2. \A k \in DOMAIN insts : insts[k].addr \in Addr /\ insts[k].addr # c
      BY <1>0, <3>1, KnownDecodes
    <3>3. pc' # "block"
      BY <3>1 DEF EndBlock
    <3>4. RunsOut
      BY <1>7, <2>0, <2>1 DEF DecodeInst
    <3>5. /\ gap' \in {"none", "last", "hidden"} /\ (gap = "hidden" => gap' = "hidden")
          /\ gap' = "none" => ReadBack(sha).start
      BY <1>0, <2>0, <3>1, <3>4 DEF RunsOut
    <3> QED BY <1>0, <3>1, <3>2, <3>3, <3>5, HashKept
  <2>2. CASE decode_fn(c, inst).result # "FAILED"
    BY <1>0, <1>7, <2>0, <2>2, HashStep
  <2> QED BY <2>1, <2>2
<1>8. ASSUME NEW ok \in BOOLEAN, LiftInst(ok) PROVE HashInv'
  <2>1. pc' \in {"lift", "done"} /\ UNCHANGED <<mem, insts, sha, gap>>
    BY <1>8 DEF LiftInst, found
  <2> QED BY <1>0, <2>1, HashKept
<1> QED BY <1>1, <1>2, <1>3, <1>4, <1>5, <1>6, <1>7, <1>8, Steps
-----------------------------------------------------------------------------
(* Nothing happens.                                                        *)
LEMMA Stutter ==
  ASSUME IInv, UNCHANGED vars
  PROVE  IInv'
<1>0. StateOK /\ MapInv /\ OrderInv /\ NeededInv /\ PendingInv /\ LiftInv /\ HashInv
  BY DEF IInv
<1>1. UNCHANGED config /\ UNCHANGED mem /\ UNCHANGED found /\ UNCHANGED pc /\ UNCHANGED lifter
      /\ UNCHANGED gap
  BY DEF vars, config, found, lifter
<1>2. /\ UNCHANGED <<config, mem, addr_map, insts>> /\ UNCHANGED <<cur_addr, new_block, addr_queue>>
      /\ UNCHANGED pc
  BY <1>1 DEF found
<1>3. StateOK'
  BY <1>0, <1>1 DEF StateOK, TypeOK, config, found, lifter
<1>4. MapInv'
  BY <1>0, <1>2, MapKept
<1>5. OrderInv'
  BY <1>0, <1>2 DEF OrderInv
<1>6. NeededInv'
  <2>1. /\ pc' = "block" => Needed(cur_addr')
        /\ pc' \in {"queue", "block"} => \A j \in DOMAIN addr_queue' : Needed(addr_queue'[j])
    BY <1>0, <1>2 DEF NeededInv
  <2> QED BY <1>0, <1>2, <2>1, NeededSame
<1>7. PendingInv'
  <2>1. \A b : (Known(b)' <=> Known(b)) /\ (MayDecode(b)' <=> MayDecode(b))
    BY <1>2, SuccessorsKept DEF Known
  <2>2. \A b, k : Pending(b, k) => PendingNext(b, k)
    BY <1>2, <2>1 DEF Pending, PendingNext
  <2> QED BY <1>0, <1>2, <2>2, PendingSame
<1>8. LiftInv'
  BY <1>0, <1>1, <1>2 DEF LiftInv, Known, lifter
<1>9. HashInv'
  <2>1. UNCHANGED <<sha, insts, mem, gap, pc, new_block, cur_addr, addr_map>>
    BY <1>1 DEF found
  <2>2. HashDetermines' <=> HashDetermines
    BY <2>1 DEF HashDetermines
  <2>3. Known(cur_addr)' <=> Known(cur_addr)
    BY <2>1 DEF Known
  <2> QED BY <1>0, <2>1, <2>2, <2>3 DEF HashInv
<1> QED BY <1>3, <1>4, <1>5, <1>6, <1>7, <1>8, <1>9 DEF IInv

(* On the way, insts and addr_map stay inverse to each other, blocks stay  *)
(* in line, what is found is needed, what is needed is found, queued or    *)
(* next in line, what was hashed reads back as what was found, and the     *)
(* lifted blocks are runs of insts.                                        *)
THEOREM Invariant == Spec => []IInv
<1>1. Init => IInv
  BY InitIInv
<1>2. IInv /\ [Next]_vars => IInv'
  <2>1. ASSUME IInv, Next PROVE IInv'
    BY <2>1, NextState, NextMap, NextOrder, NextNeeded, NextPending, NextLift, NextHash DEF IInv
  <2> QED BY <2>1, Stutter
<1> QED BY <1>1, <1>2, PTL DEF Spec

(* Predecode's and Lift's state keeps its types, for every guest code.     *)
THEOREM TypesKept == Spec => []TypeOK
<1>1. IInv => TypeOK
  BY DEF IInv, StateOK
<1> QED BY <1>1, Invariant, PTL

(* What Lift hands to the lifter are straight pieces of guest code, also   *)
(* after instructions that the lifter rejects, and a lifted function       *)
(* executes at least the instruction at its entry.                         *)
THEOREM LiftIsSound == Spec => []LiftSound
<1>1. ASSUME IInv PROVE LiftSound
  <2>0. StateOK /\ MapInv /\ OrderInv /\ LiftInv
    BY <1>1 DEF IInv
  <2>1. BlocksStraight
    <3> SUFFICES ASSUME NEW b \in Addr, block_map[b] # Unread, NEW k \in DOMAIN block_map[b]
                 PROVE  block_map[b][k] =
                          IF k = 1 THEN b
                          ELSE block_map[b][k - 1] + insts[addr_map[block_map[b][k - 1]]].size
      BY DEF BlocksStraight
    <3>1. pc \in {"lift", "done"}
      <4>1. pc \in {"queue", "block", "lift", "done"}
        BY <2>0 DEF StateOK, TypeOK
      <4> QED BY <2>0, <4>1 DEF LiftInv
    <3>2. PICK m : m = addr_map[b]
      OBVIOUS
    <3>3. Known(b) /\ RunFrom(m, block_map[b])
      BY <2>0, <3>1, <3>2 DEF LiftInv, RunFrom
    <3>4. m \in DOMAIN insts /\ insts[m].addr = b
      BY <2>0, <3>2, <3>3, KnownPlace DEF MapInv
    <3>5. m \in Nat
      <4>1. m \in 1 .. Len(insts) /\ Len(insts) \in Nat
        BY <2>0, <3>4, Types
      <4> QED BY SMTT(60), <4>1
    <3>6. block_map[b] \in Seq(Addr)
      BY <2>0 DEF StateOK
    <3>7. k \in Nat /\ (k # 1 => k > 1 /\ k - 1 \in DOMAIN block_map[b])
      <4>1. PICK q \in Seq(Addr) : q = block_map[b]
        BY <3>6
      <4>2. \A l \in DOMAIN q : l \in Nat /\ (l # 1 => l > 1 /\ l - 1 \in DOMAIN q)
        BY SMTT(60)
      <4> QED BY <4>1, <4>2
    <3>8. CASE k = 1
      <4>1. m + 1 - 1 = m
        BY SMTT(60), <3>5
      <4> QED BY <3>3, <3>4, <3>8, <4>1 DEF RunFrom
    <3>9. CASE k # 1
      <4>1. PICK p : p = m + k - 1
        OBVIOUS
      <4>2. m + (k - 1) - 1 = p - 1
        BY SMTT(60), <3>5, <3>7, <4>1
      <4>3. /\ p \in DOMAIN insts /\ block_map[b][k] = insts[p].addr /\ ~insts[p].new_block
            /\ p - 1 \in DOMAIN insts /\ block_map[b][k - 1] = insts[p - 1].addr
        BY <3>3, <3>7, <3>9, <4>1, <4>2 DEF RunFrom
      <4>4. insts[p].addr = insts[p - 1].addr + insts[p - 1].size
        BY <2>0, <4>3 DEF OrderInv
      <4>5. addr_map[insts[p - 1].addr] = p - 1
        BY <2>0, <4>3 DEF MapInv
      <4> QED BY <3>9, <4>3, <4>4, <4>5
    <3> QED BY <3>8, <3>9
  <2>2. FunctionProgresses
    BY <2>0 DEF LiftInv, FunctionProgresses
  <2> QED BY <2>1, <2>2 DEF LiftSound
<1> QED BY <1>1, Invariant, PTL

(* The hash fixes the code: from the bytes that Predecode hashes the       *)
(* instructions and their places can be read back, for all guest code in   *)
(* which no block but the last runs into bytes that do not decode.         *)
THEOREM HashIsDetermining == Spec => []HashDetermines
<1>1. IInv => HashDetermines
  BY DEF IInv, HashInv
<1> QED BY <1>1, Invariant, PTL
-----------------------------------------------------------------------------
(* Counting the instructions.                                              *)
INSTANCE FiniteSetTheorems

(* Every instruction found is in insts once.                               *)
LEMMA Once ==
  ASSUME StateOK, MapInv
  PROVE  Len(insts) = Cardinality({a \in Addr : Known(a)})
<1> DEFINE T == {a \in Addr : Known(a)}  F == [k \in 1 .. Len(insts) |-> insts[k].addr]
<1>1. Len(insts) \in Nat /\ DOMAIN insts = 1 .. Len(insts)
  BY Types
<1>2. \A k \in 1 .. Len(insts) : insts[k].addr \in T /\ addr_map[insts[k].addr] = k
  BY <1>1, KnownDecodes DEF MapInv
<1>3. \A a \in T : addr_map[a] \in 1 .. Len(insts) /\ insts[addr_map[a]].addr = a
  BY <1>1, KnownPlace DEF MapInv
<1> HIDE DEF T
<1>4. F \in [1 .. Len(insts) -> T] /\ \A k \in 1 .. Len(insts) : F[k] = insts[k].addr
  BY <1>2
<1> HIDE DEF F
<1>5. \A k, l \in 1 .. Len(insts) : F[k] = F[l] => k = l
  BY <1>2, <1>4
<1>6. \A a \in T : \E k \in 1 .. Len(insts) : F[k] = a
  BY <1>3, <1>4
<1>7. F \in Bijection(1 .. Len(insts), T)
  BY <1>4, <1>5, <1>6 DEF Bijection, Injection, IsInjective, Surjection
<1>8. ExistsBijection(1 .. Len(insts), T)
  BY <1>7 DEF ExistsBijection
<1> QED BY <1>1, <1>8, FS_CountingElements DEF T

(* When the work list is empty the function has been found whole, and      *)
(* nothing that is not of it, however the guest's blocks overlap or loop;  *)
(* and it has been cut into blocks wherever a jump goes.                   *)
THEOREM FunctionIsFound == Spec => []FunctionFound
<1>1. ASSUME IInv PROVE FunctionFound
  <2>0. StateOK /\ MapInv /\ NeededInv /\ PendingInv
    BY <1>1 DEF IInv
  <2>1. FindsFunction
    <3> SUFFICES ASSUME pc \in {"lift", "done"}, granularity = 2
                 PROVE  LET set == {a \in Addr : Known(a)}
                            all == {a \in Addr : Decodes(a)}
                        IN  /\ Closed(set)
                            /\ \A S \in SUBSET all : Closed(S) => set \subseteq S
                            /\ Len(insts) = Cardinality(set)
      BY DEF FindsFunction
    <3>1. ASSUME NEW b, NEW k, Pending(b, k), MayDecode(b) PROVE b \in Addr /\ Known(b)
      BY <3>1 DEF Pending, Known
    <3>2. Closed({a \in Addr : Known(a)})
      BY <2>0, <3>1 DEF Closed, PendingInv
    <3>3. ASSUME NEW S, S \subseteq {a \in Addr : Decodes(a)}, Closed(S)
          PROVE  {a \in Addr : Known(a)} \subseteq S
      <4>1. \A a : Decodes(a) => MayDecode(a)
        BY DEF Decodes, MayDecode
      <4>2. ClosedSoFar(S) /\ S \in SUBSET Addr
        BY <3>3, <4>1 DEF Closed, ClosedSoFar
      <4> QED BY <2>0, <4>2 DEF NeededInv
    <3>4. Len(insts) = Cardinality({a \in Addr : Known(a)})
      BY <2>0, Once
    <3> QED BY <3>2, <3>3, <3>4
  <2>2. TargetsStartBlocks
    <3> SUFFICES ASSUME pc \in {"lift", "done"}, granularity = 2, NEW k \in DOMAIN insts,
                        NEW b \in Successors(insts[k].addr), Known(b)
                 PROVE  insts[addr_map[b]].new_block \/ addr_map[b] = k + 1
      BY DEF TargetsStartBlocks
    <3>1. insts[k].addr \in Addr /\ Known(insts[k].addr) /\ addr_map[insts[k].addr] = k
      BY <2>0, KnownDecodes DEF MapInv
    <3>2. Pending(b, k)
      BY <2>0, <3>1 DEF PendingInv
    <3>3. MayDecode(b)
      BY <2>0 DEF MapInv, Known, Decodes, MayDecode
    <3> QED BY <3>2, <3>3 DEF Pending
  <2> QED BY <2>1, <2>2 DEF FunctionFound
<1> QED BY <1>1, Invariant, PTL
=============================================================================
