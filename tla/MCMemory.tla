------------------------------ MODULE MCMemory ------------------------------
(* The client's allocator and the parts of its small C library that stand  *)
(* alone: Init chooses the component a behaviour is about, the others idle.*)
(*                                                                         *)
(* Two adjacent arenas as in mem_init, of two and four pages of eight      *)
(* bytes; an empty request, one within a page and one beyond a page;       *)
(* alignments below the minimum, not a power of two, and of two pages,     *)
(* where neither arena starts on a multiple of two pages.                  *)
EXTENDS Memory

MCBase == [a \in {"data", "code"} |-> IF a = "data" THEN 8 ELSE 24]
MCArenaSize == [a \in {"data", "code"} |-> IF a = "data" THEN 16 ELSE 32]

VARIABLES
  comp,   \* "memory" or "libc"
  pc, format, args, sink, chunks, written, output, call, sigset, members, ops   \* LibC

(* Formats with every conversion, an unknown one and one that is cut off;  *)
(* numbers around the digits' carries; strings of a character on either    *)
(* side of the sign bit.                                                   *)
LcNumbers == {0, 7, 9, 10, 15, 16, 255, 256, 65535, 1000000}
LcFormats ==
  {<<<<65, 66, 37, 115, 67>>, <<s>>>> : s \in {<<>>, <<97>>, <<97, 98, 99, 100, 101, 102>>}}
    \cup {<<<<37, f>>, <<n>>>> : f \in {112, 117, 120}, n \in LcNumbers}
    \cup {<<<<65, 37, 108, 120, 37, 99, 66>>, <<n, 90>>>> : n \in {0, 4095}}
    \cup {<<<<37, 117, 37, 115, 37, 120>>, <<12, <<97, 98>>, 255>>>>,
          <<<<65, 37, 113, 66, 37, 108, 67, 37>>, <<>>>>, <<<<>>, <<>>>>}
LcStrings == UNION {[1..n -> {65, 200}] : n \in 0..3}
LcSizes == {0, 1, 2, 3, 5, 7, 20}

(* Every value of a format with 3 and one with 5 bits of mantissa.         *)
RoF32 == [E |-> 3, M |-> 3]
RoF64 == [E |-> 4, M |-> 5]

C == INSTANCE LibC WITH Formats <- LcFormats, Sizes <- LcSizes, BufSize <- 4,
                        Strings <- LcStrings, NSIG <- 8, WordBits <- 8, MaxSigOps <- 3,
                        F32 <- RoF32, F64 <- RoF64

cvars == <<pc, format, args, sink, chunks, written, output, call, sigset, members, ops>>

IdleC ==
  /\ pc = "idle" /\ format = <<>> /\ args = <<>> /\ sink = <<>> /\ chunks = <<>> /\ written = 0
  /\ output = <<>> /\ call = <<>> /\ sigset = {} /\ members = {} /\ ops = 0

MCInit ==
  /\ Init
  /\ \/ comp = "memory" /\ IdleC
     \/ comp = "libc" /\ C!Init

MCNext ==
  \/ comp = "memory" /\ Next /\ UNCHANGED <<comp, cvars>>
  \/ comp = "libc" /\ C!Next /\ UNCHANGED <<comp, vars>>

MCSpec == MCInit /\ [][MCNext]_<<comp, vars, cvars>>

(* printf_driver and its two sinks produce what the format says, cut at    *)
(* the buffer's end; the string and signal set functions return what the C *)
(* standard and POSIX say; floor, ceil, round and trunc, computed on bits, *)
(* return the integer their names promise.                                 *)
LibraryRight == comp = "libc" => C!PrintfRight /\ C!LibraryRight /\ C!RoundsRight
=============================================================================
