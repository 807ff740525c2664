----------------------------- MODULE Predecode ------------------------------
(* The front half of a translation (server/rewriteserver.cc): Predecode    *)
(* finds the instructions of a function by a work list of block addresses, *)
(* hashing them on the way, and Lift hands them to the lifter block by     *)
(* block.  The guest's code is chosen as it is read, one instruction per   *)
(* address; the server's page cache makes a later read return the same.    *)
(* Instructions that overlap are chosen independently of one another.      *)
EXTENDS Integers, FiniteSets, Sequences

CONSTANTS
  MemEnd,      \* the guest's memory is readable below this address
  Entry,       \* the address to be translated
  Unread       \* an address not read yet

Addr == 0 .. MemEnd - 1

(* An encoded instruction: its class, its length, the operand of a jump    *)
(* and the link register.  The lengths of three architectures in units of  *)
(* the shortest instruction.                                               *)
Jumps == {"jcc", "jmp", "branch", "jal", "bcond", "b"}
Inst ==
  [op : Jumps \cup {"jmp_indirect", "call", "ret", "jalr", "ecall", "bl", "br", "other", "bad"},
   size : {1, 2}, imm : Int, rd : {0, 1}]

ASSUME PredecodeAssumption ==
  /\ MemEnd \in Nat /\ Entry \in Addr
  /\ Unread \notin Inst /\ Unread \notin Seq(Addr) /\ Unread \notin Addr

VARIABLES
  arch, granularity, callret,          \* the configuration
  mem,                                 \* the code as read so far
  insts, addr_map, addr_queue, sha,    \* Predecode
  cur_addr, new_block,                 \* the block being decoded
  gap,                                 \* history: see RunsOut
  pc,
  i, block_addr,                       \* Lift
  block_map, entry_ip, fn              \* the lifter and its result

config == <<arch, granularity, callret>>
found == <<insts, addr_map, addr_queue, sha, cur_addr, new_block>>
lifter == <<i, block_addr, block_map, entry_ip, fn>>
vars == <<config, mem, found, gap, pc, lifter>>
-----------------------------------------------------------------------------
Sizes == IF arch = "aarch64" THEN {2} ELSE {1, 2}

Ops ==
  CASE arch = "x86_64"  -> {"jcc", "jmp", "jmp_indirect", "call", "ret", "other", "bad"}
    [] arch = "rv64"    -> {"branch", "jal", "jalr", "ecall", "other", "bad"}
    [] arch = "aarch64" -> {"bcond", "b", "bl", "br", "other", "bad"}

Target(a, inst) == a + inst.imm + (IF arch = "x86_64" THEN inst.size ELSE 0)

(* What the guest may have at an address: an undecodable byte, or an       *)
(* instruction whose target, if it has one, is in or just past the memory. *)
Encodings(a) ==
  {inst \in [op : Ops, size : Sizes, imm : -(MemEnd + 1) .. MemEnd, rd : {0, 1}] :
     /\ IF inst.op \in Jumps THEN Target(a, inst) \in 0 .. MemEnd ELSE inst.imm = 0
     /\ inst.op \in {"jal", "jalr"} \/ inst.rd = 0
     /\ inst.op = "bad" => \A s \in Sizes : inst.size <= s}

Result(result, inst, target) == [result |-> result, size |-> inst.size, branch_target |-> target]

FAILED == [result |-> "FAILED", size |-> 0, branch_target |-> 0]

DecodeX86_64(addr, inst) ==
  LET target == addr + inst.size + inst.imm
  IN  CASE inst.op = "jcc"                    -> Result("COND_BRANCH", inst, target)
        [] inst.op = "jmp"                    -> Result("BRANCH", inst, target)
        [] inst.op = "call"                   -> Result("CALL", inst, 0)
        [] inst.op \in {"jmp_indirect", "ret"} -> Result("UNKNOWN_TGT", inst, 0)
        [] OTHER                              -> Result("NORMAL", inst, 0)

DecodeRV64(addr, inst) ==
  CASE inst.op = "branch" -> Result("COND_BRANCH", inst, addr + inst.imm)
    [] inst.op = "jal"    -> Result(IF inst.rd # 0 THEN "CALL" ELSE "BRANCH", inst, addr + inst.imm)
    [] inst.op = "jalr"   -> Result(IF inst.rd # 0 THEN "CALL" ELSE "UNKNOWN_TGT", inst, 0)
    [] inst.op = "ecall"  -> Result("UNKNOWN_TGT", inst, 0)
    [] OTHER              -> Result("NORMAL", inst, 0)

DecodeAArch64(addr, inst) ==
  CASE inst.op = "bcond" -> Result("COND_BRANCH", inst, addr + inst.imm)
    [] inst.op = "b"     -> Result("BRANCH", inst, addr + inst.imm)
    [] inst.op = "bl"    -> Result("CALL", inst, 0)
    [] inst.op = "br"    -> Result("UNKNOWN_TGT", inst, 0)
    [] OTHER             -> Result("NORMAL", inst, 0)

(* Undecodable bytes, or fewer bytes readable than the instruction has.    *)
decode_fn(addr, inst) ==
  IF inst.op = "bad" \/ addr + inst.size > MemEnd THEN FAILED
  ELSE CASE arch = "x86_64"  -> DecodeX86_64(addr, inst)
         [] arch = "rv64"    -> DecodeRV64(addr, inst)
         [] arch = "aarch64" -> DecodeAArch64(addr, inst)
-----------------------------------------------------------------------------
Init ==
  /\ arch \in {"x86_64", "rv64", "aarch64"}
  /\ granularity \in 0 .. 2 /\ callret \in BOOLEAN
  /\ mem = [a \in Addr |-> Unread]
  /\ insts = << >> /\ addr_map = [a \in Addr |-> 0] /\ sha = << >>
  /\ addr_queue = <<Entry>> /\ cur_addr = Entry /\ new_block = TRUE
  /\ gap = "none" /\ pc = "queue"
  /\ i = 1 /\ block_addr = 0 /\ entry_ip = Unread
  /\ block_map = [a \in Addr |-> Unread] /\ fn = "none"

(* Take the next block's address from the queue.                           *)
PopBlock ==
  /\ pc = "queue" /\ addr_queue # << >>
  /\ cur_addr' = Head(addr_queue) /\ addr_queue' = Tail(addr_queue)
  /\ new_block' = TRUE /\ pc' = "block"
  /\ UNCHANGED <<config, mem, insts, addr_map, sha, gap, lifter>>

QueueEmpty ==
  /\ pc = "queue" /\ addr_queue = << >>
  /\ pc' = "lift"
  /\ UNCHANGED <<config, mem, found, gap, lifter>>

(* end_block: below function granularity one block is enough.              *)
EndBlock == pc' = IF granularity <= 1 THEN "lift" ELSE "queue"

Known(a) == a \in Addr /\ addr_map[a] # 0

MarkBlock == insts' = [insts EXCEPT ![addr_map[cur_addr]].new_block = TRUE]

(* The address has been decoded already: a block starts there.             *)
JoinBlock ==
  /\ pc = "block" /\ Known(cur_addr)
  /\ MarkBlock /\ EndBlock
  /\ UNCHANGED <<config, mem, addr_map, addr_queue, sha, cur_addr, new_block, gap, lifter>>

(* Offsets are hashed where a block starts, and the bytes everywhere.      *)
(* Nothing says which is which: an offset has a fixed length and the bytes *)
(* of an instruction tell theirs, but both are bytes alike.                *)
Hashed_opcode(inst) ==
  (IF new_block THEN <<cur_addr - Entry>> ELSE << >>) \o <<[inst EXCEPT !.imm = 0]>>
Hashed(inst) == (IF new_block THEN <<cur_addr - Entry>> ELSE << >>) \o <<inst>>

(* Where decoding goes on after an instruction that ends its block.        *)
Pushed_calls(res, next) ==
  CASE res.result = "BRANCH"      -> <<res.branch_target>>
    [] res.result = "COND_BRANCH" -> <<res.branch_target, next>>
    [] res.result = "CALL"        -> <<next>>
    [] OTHER                      -> << >>
Pushed(res, next) ==
  CASE res.result = "BRANCH"          -> <<res.branch_target>>
    [] res.result = "COND_BRANCH"     -> <<res.branch_target, next>>
    [] res.result = "CALL" /\ callret -> <<next>>
    [] OTHER                          -> << >>

Append1(res, next) ==
  IF granularity <= 0 THEN EndBlock /\ UNCHANGED addr_queue
  ELSE /\ addr_queue' = addr_queue \o Pushed(res, next)
       /\ IF res.result = "NORMAL" THEN UNCHANGED pc ELSE EndBlock

FailedBlock_retried == UNCHANGED pc
FailedBlock == EndBlock

(* Past its first instruction a block can end without a trace in what is   *)
(* hashed, where it runs into bytes that do not decode.  gap says whether  *)
(* the last block hashed did ("last"), or one with another after it        *)
(* ("hidden").                                                             *)
RunsOut == gap' = IF ~new_block /\ gap = "none" THEN "last" ELSE gap
GoesOn == gap' = IF gap = "last" THEN "hidden" ELSE gap

(* Read and decode one instruction, which becomes the last of insts.       *)
DecodeInst(inst) ==
  LET res == decode_fn(cur_addr, inst)
  IN  /\ pc = "block" /\ cur_addr \in Addr /\ ~Known(cur_addr)
      /\ mem[cur_addr] \in {Unread, inst}
      /\ mem' = [mem EXCEPT ![cur_addr] = inst]
      /\ IF res.result = "FAILED"
         THEN FailedBlock /\ RunsOut /\ UNCHANGED found
         ELSE /\ sha' = sha \o Hashed(inst) /\ GoesOn
              /\ insts' = Append(insts, [addr |-> cur_addr, size |-> res.size,
                                         new_block |-> new_block])
              /\ addr_map' = [addr_map EXCEPT ![cur_addr] = Len(insts) + 1]
              /\ cur_addr' = cur_addr + res.size /\ new_block' = FALSE
              /\ Append1(res, cur_addr + res.size)
      /\ UNCHANGED <<config, lifter>>

(* Nothing can be read there: the decoder fails on no bytes.               *)
DecodeNothing ==
  /\ pc = "block" /\ cur_addr \notin Addr
  /\ EndBlock /\ RunsOut
  /\ UNCHANGED <<config, mem, found, lifter>>
-----------------------------------------------------------------------------
NextBlock_kept(k) == k + 1

(* Skip forward to next block.                                             *)
NextBlock(k) ==
  CHOOSE j \in k + 1 .. Len(insts) + 1 :
    /\ j <= Len(insts) => insts[j].new_block
    /\ \A l \in k + 1 .. j - 1 : ~insts[l].new_block

(* Function::AddInst makes the block before it lifts the instruction, and  *)
(* the first block it makes is the function's entry.                       *)
AddInst(block, addr, ok) ==
  LET old == IF block_map[block] = Unread THEN << >> ELSE block_map[block]
  IN  /\ entry_ip' = IF entry_ip = Unread THEN block ELSE entry_ip
      /\ block_map' = [block_map EXCEPT ![block] = IF ok THEN Append(old, addr) ELSE old]

LiftFails == i = 1

(* One instruction of Lift: ok if the lifter knows the instruction.        *)
LiftInst(ok) ==
  LET inst  == insts[i]
      block == IF inst.new_block THEN inst.addr ELSE block_addr
  IN  /\ pc = "lift" /\ i <= Len(insts)
      /\ block_addr' = block
      /\ AddInst(block, inst.addr, ok)
      /\ IF ~ok /\ LiftFails
         THEN pc' = "done" /\ fn' = "null" /\ UNCHANGED i
         ELSE i' = (IF ok THEN i + 1 ELSE NextBlock(i)) /\ UNCHANGED <<pc, fn>>
      /\ UNCHANGED <<config, mem, found, gap>>

(* ll_func_lift gives no function if there is no block, or if the result   *)
(* does not verify.                                                        *)
LiftDone ==
  /\ pc = "lift" /\ i > Len(insts)
  /\ pc' = "done"
  /\ fn' \in IF entry_ip = Unread THEN {"null"} ELSE {"null", "fn"}
  /\ UNCHANGED <<config, mem, found, gap, i, block_addr, block_map, entry_ip>>

Done == pc = "done" /\ UNCHANGED vars

Step ==
  \/ PopBlock \/ QueueEmpty \/ JoinBlock \/ DecodeNothing
  \/ \E inst \in (IF pc = "block" THEN Encodings(cur_addr) ELSE {}) : DecodeInst(inst)
  \/ \E ok \in BOOLEAN : LiftInst(ok)
  \/ LiftDone

Next == Step \/ Done

Spec == Init /\ [][Next]_vars /\ WF_vars(Step)
-----------------------------------------------------------------------------
(* Types of Predecode's and Lift's state.                                  *)
TypeOK ==
  /\ insts \in Seq([addr : Addr, size : 1 .. 2, new_block : BOOLEAN])
  /\ addr_map \in [Addr -> 0 .. Len(insts)]
  /\ addr_queue \in Seq(Nat) /\ cur_addr \in Nat /\ new_block \in BOOLEAN
  /\ pc \in {"queue", "block", "lift", "done"} /\ fn \in {"none", "null", "fn"}
  /\ i \in 1 .. Len(insts) + 1 /\ entry_ip \in Addr \cup {Unread}

Decodes(a) == a \in Addr /\ mem[a] # Unread /\ decode_fn(a, mem[a]).result # "FAILED"

(* Where the guest may go after the instruction at a within this function. *)
Successors(a) ==
  LET res  == decode_fn(a, mem[a])
      next == a + res.size
  IN  CASE res.result = "NORMAL"          -> {next}
        [] res.result = "BRANCH"          -> {res.branch_target}
        [] res.result = "COND_BRANCH"     -> {res.branch_target, next}
        [] res.result = "CALL" /\ callret -> {next}
        [] OTHER                          -> {}

(* For all that was read there may be an instruction at a.                 *)
MayDecode(a) == a \in Addr /\ (mem[a] # Unread => decode_fn(a, mem[a]).result # "FAILED")

Closed(S) ==
  /\ MayDecode(Entry) => Entry \in S
  /\ \A a \in S : \A b \in Successors(a) : MayDecode(b) => b \in S

(* At function granularity Predecode finds exactly the instructions that   *)
(* can be reached from the entry without an indirect jump or a call, each  *)
(* once, however the blocks overlap or loop.                               *)
FindsFunction ==
  pc \in {"lift", "done"} /\ granularity = 2 =>
    LET set == {a \in Addr : Known(a)}
        all == {a \in Addr : Decodes(a)}
    IN  /\ Closed(set)
        /\ \A S \in SUBSET all : Closed(S) => set \subseteq S
        /\ Len(insts) = Cardinality(set)

(* At function granularity every jump between two instructions found stays *)
(* in the function: its target starts a block, or follows in line.         *)
TargetsStartBlocks ==
  pc \in {"lift", "done"} /\ granularity = 2 =>
    \A k \in DOMAIN insts : \A b \in Successors(insts[k].addr) :
      Known(b) => \/ insts[addr_map[b]].new_block
                  \/ addr_map[b] = k + 1

(* Predecode finds the function, whole and cut into blocks where needed.   *)
FunctionFound == FindsFunction /\ TargetsStartBlocks

(* Reading back what was hashed, piece by piece.  Bytes are bytes, so the  *)
(* reader must know from what it has read whether an offset or an          *)
(* instruction comes next: a block is over after an instruction that does  *)
(* not go on to the next, and where the next is one read before.           *)
Piece == Int \cup Inst

ReadPiece(acc, piece) ==
  IF acc.start THEN [at |-> Entry + piece, start |-> FALSE, seq |-> acc.seq]
  ELSE LET seq  == Append(acc.seq, <<acc.at, piece>>)
           next == acc.at + piece.size
       IN  [at    |-> next,
            start |-> piece.op # "other" \/ \E k \in DOMAIN seq : seq[k][1] = next,
            seq   |-> seq]

ReadBack(pieces) ==
  LET read[n \in 0 .. Len(pieces)] ==
        IF n = 0 THEN [at |-> Entry, start |-> TRUE, seq |-> << >>]
        ELSE ReadPiece(read[n - 1], pieces[n])
  IN  read[Len(pieces)]

(* The hash fixes the code: the instructions and their addresses relative  *)
(* to the entry can be read back from the bytes that Predecode hashes,     *)
(* unless a block runs into bytes that do not decode and another block     *)
(* follows, whose offset may then be taken for an instruction.             *)
HashDetermines ==
  gap # "hidden" =>
    ReadBack(sha).seq = [k \in DOMAIN insts |-> <<insts[k].addr, mem[insts[k].addr]>>]

(* Every block handed to the lifter is a straight piece of guest code that *)
(* starts at the block's address: Lift relies on the order of insts, and   *)
(* after an instruction the lifter rejects the rest of the block is left.  *)
BlocksStraight ==
  \A b \in Addr : block_map[b] # Unread =>
    \A k \in DOMAIN block_map[b] :
      block_map[b][k] = IF k = 1 THEN b
                        ELSE block_map[b][k - 1] + insts[addr_map[block_map[b][k - 1]]].size

(* A lifted function makes progress: it starts at the address asked for    *)
(* and executes at least the instruction there.  A function that did not   *)
(* would return to the dispatcher with the same address for ever.          *)
FunctionProgresses ==
  fn = "fn" => entry_ip = Entry /\ block_map[Entry] \notin {Unread, << >>}

(* What Lift hands on: straight blocks, and an entry that executes.        *)
LiftSound == BlocksStraight /\ FunctionProgresses

(* Predecode and Lift end, for every guest code.                           *)
Ends == <>(pc = "done")
-----------------------------------------------------------------------------
(* The inductive invariant: what holds on the way.                         *)
StateOK ==
  /\ TypeOK
  /\ arch \in {"x86_64", "rv64", "aarch64"} /\ granularity \in 0 .. 2 /\ callret \in BOOLEAN
  /\ mem \in [Addr -> Inst \cup {Unread}]
  /\ block_map \in [Addr -> Seq(Addr) \cup {Unread}]

(* insts and addr_map are inverse to each other, and hold what was read    *)
(* and decoded.                                                            *)
MapInv ==
  /\ \A a \in Addr : Known(a) => LET inst == insts[addr_map[a]]
                                IN  inst.addr = a /\ inst.size = decode_fn(a, mem[a]).size
  /\ \A k \in DOMAIN insts : addr_map[insts[k].addr] = k
  /\ \A a \in Addr : Known(a) <=> Decodes(a)

(* The entry comes first, and within a block the instructions follow each  *)
(* other in memory.                                                        *)
OrderInv ==
  /\ insts # << >> => insts[1].addr = Entry /\ insts[1].new_block
  /\ \A k \in DOMAIN insts : ~insts[k].new_block =>
       k > 1 /\ insts[k].addr = insts[k - 1].addr + insts[k - 1].size
  /\ pc = "block" /\ ~new_block =>
       LET last == insts[Len(insts)] IN insts # << >> /\ cur_addr = last.addr + last.size
  /\ insts = << >> => \/ pc = "queue" /\ addr_queue \in {<<Entry>>, << >>}
                      \/ pc = "block" /\ cur_addr = Entry /\ new_block /\ addr_queue = << >>
                      \/ pc \in {"lift", "done"}

(* Only what the function needs is looked at.                              *)
Needed(b) == b = Entry \/ \E a \in Addr : Known(a) /\ b \in Successors(a)

ClosedSoFar(S) ==
  /\ Decodes(Entry) => Entry \in S
  /\ \A a \in S : Decodes(a) => \A b \in Successors(a) : Decodes(b) => b \in S

NeededInv ==
  /\ pc = "block" => Needed(cur_addr)
  /\ pc \in {"queue", "block"} => \A j \in DOMAIN addr_queue : Needed(addr_queue[j])
  /\ \A S \in SUBSET Addr : ClosedSoFar(S) => \A a \in Addr : Known(a) => a \in S

(* What is still to be done for a jump to b by the k-th instruction.       *)
Pending(b, k) ==
  \/ ~MayDecode(b)
  \/ Known(b) /\ (insts[addr_map[b]].new_block \/ addr_map[b] = k + 1)
  \/ pc \in {"queue", "block"} /\ \E j \in DOMAIN addr_queue : addr_queue[j] = b
  \/ pc = "block" /\ b = cur_addr /\ (new_block \/ k = Len(insts))

PendingInv ==
  granularity = 2 =>
    /\ Pending(Entry, 0)
    /\ \A a \in Addr : Known(a) => \A b \in Successors(a) : Pending(b, addr_map[a])

(* Lift: the blocks made so far are runs of insts, and the instruction to  *)
(* come continues the last of them unless it starts a block.               *)
LiftInv ==
  /\ pc \in {"queue", "block"} => i = 1
  /\ i = 1 /\ pc # "done" => entry_ip = Unread /\ \A b \in Addr : block_map[b] = Unread
  /\ i > 1 => entry_ip = Entry /\ block_map[Entry] \notin {Unread, << >>}
  /\ fn = "fn" => i > 1
  /\ pc \in {"lift", "done"} => \A b \in Addr : block_map[b] # Unread =>
       /\ Known(b) /\ (pc = "lift" => addr_map[b] < i)
       /\ \A k \in DOMAIN block_map[b] :
            /\ addr_map[b] + k - 1 \in DOMAIN insts
            /\ block_map[b][k] = insts[addr_map[b] + k - 1].addr
            /\ k > 1 => ~insts[addr_map[b] + k - 1].new_block
  /\ pc = "lift" /\ i <= Len(insts) /\ ~insts[i].new_block =>
       /\ block_addr \in Addr /\ block_map[block_addr] \notin {Unread, << >>}
       /\ addr_map[block_addr] + Len(block_map[block_addr]) = i

(* What was hashed reads back as what was found, and the reader knows what *)
(* comes next.                                                             *)
HashInv ==
  /\ sha \in Seq(Piece) /\ gap \in {"none", "last", "hidden"}
  /\ gap # "hidden" => ReadBack(sha) \in [at : Nat, start : BOOLEAN, seq : Seq(Addr \X Inst)]
  /\ HashDetermines
  /\ gap = "none" /\ pc = "queue" => ReadBack(sha).start
  /\ gap = "none" /\ pc = "block" =>
       /\ ReadBack(sha).start <=> new_block \/ Known(cur_addr)
       /\ ~new_block => ReadBack(sha).at = cur_addr

IInv == StateOK /\ MapInv /\ OrderInv /\ NeededInv /\ PendingInv /\ LiftInv /\ HashInv
=============================================================================
