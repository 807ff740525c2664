----------------------------- MODULE GEPRestore -----------------------------
(***************************************************************************)
(* GEPRestorePass (server/GEPRestorePass.cc): an address that the guest    *)
(* computed from a base, row numbers and strides becomes one getelementptr *)
(* of an array type.  The walk over the address expression takes one step  *)
(* per value, in the order of its queue.                                   *)
(*                                                                         *)
(* A value is <<"itp", e>> (inttoptr), <<"add", e, e>>, <<"mul", e, c>>,   *)
(* <<"ext", i>> (zext or sext of index variable i), <<"const", n>>,        *)
(* <<"arg", n>> or <<"load", n>>.                                          *)
(***************************************************************************)
EXTENDS Integers, Sequences, SequencesExt

CONSTANTS
  Geps,       \* GEPs: [size (bytes of an element), itp, low (its index operand)]
  Values      \* values of an index variable, an argument, a loaded base

VARIABLES
  gep,        \* the GEP being restored
  pc,
  values,     \* the queue of analyzeAddrIndex
  baseAddr, dimSize, index,   \* struct RestoreGEP
  newGEP      \* [dims, base, idx, size]: the GEP that replaces it

vars == <<gep, pc, values, baseAddr, dimSize, index, newGEP>>

None == <<"none">>

(* run: GEPs on an inttoptr of an operation, or of an argument.            *)
Restored(g) == g.itp[2][1] \in {"add", "mul", "arg"}

Init ==
  /\ gep \in {g \in Geps : Restored(g)} /\ pc = "walk"
  /\ values = <<gep.itp>>
  /\ index = <<gep.low>>       \* the lowest dimension's index first
  /\ baseAddr = None /\ dimSize = << >> /\ newGEP = None

I == Head(values)
Rest == Tail(values)

(* IntToPtr: an argument is the base and ends the walk.                    *)
WalkIntToPtr ==
  /\ pc = "walk" /\ values # << >> /\ I[1] = "itp"
  /\ IF I[2][1] = "arg"
     THEN baseAddr' = I[2] /\ pc' = "dims" /\ values' = Rest
     ELSE values' = Append(Rest, I[2]) /\ UNCHANGED <<baseAddr, pc>>
  /\ UNCHANGED <<gep, dimSize, index, newGEP>>

(* A binary operation: a constant addend, or an argument's, is the base, a *)
(* constant factor a stride; what is left is walked later.                 *)
WalkBinary ==
  /\ pc = "walk" /\ values # << >> /\ I[1] \in {"add", "mul"}
  /\ LET second == I[3]
         isAdd == I[1] = "add"
         isBase == isAdd /\ second[1] \in {"const", "arg"}
         isDim == ~isAdd /\ second[1] = "const"
     IN /\ values' = (IF isBase \/ isDim THEN Append(Rest, I[2]) ELSE Rest \o <<I[2], second>>)
        /\ baseAddr' = (IF isBase THEN second ELSE baseAddr)
        /\ dimSize' = (IF isDim THEN Append(dimSize, second[2]) ELSE dimSize)
  /\ UNCHANGED <<gep, pc, index, newGEP>>

(* ZExt and SExt: an index; the last value of the queue ends the walk.     *)
WalkExt ==
  /\ pc = "walk" /\ values # << >> /\ I[1] = "ext"
  /\ index' = Append(index, I)
  /\ values' = Rest
  /\ pc' = IF Rest = << >> THEN "dims" ELSE "walk"
  /\ UNCHANGED <<gep, baseAddr, dimSize, newGEP>>

WalkLoad ==
  /\ pc = "walk" /\ values # << >> /\ I[1] = "load"
  /\ baseAddr' = I /\ values' = Rest
  /\ UNCHANGED <<gep, pc, dimSize, index, newGEP>>

(* Strides become sizes: each is divided by the one before it.             *)
Dims_bytes(dims, size) == dims

Dims(dims, size) ==
  LET d[i \in DOMAIN dims] == IF i = 1 THEN dims[1] \div size ELSE dims[i] \div (d[i - 1] * size)
  IN [i \in DOMAIN dims |-> d[i]]

(* The end of analyzeAddrIndex, with its assertions.                       *)
Analyse ==
  /\ pc = "dims"
  /\ IF baseAddr = None \/ Len(dimSize) + 1 # Len(index)
     THEN pc' = "assert" /\ UNCHANGED dimSize
     ELSE pc' = "insert" /\ dimSize' = Dims(dimSize, gep.size)
  /\ UNCHANGED <<gep, values, baseAddr, index, newGEP>>

(* The element type that insertNewGEP chooses for a size in bytes.         *)
EleSize(size) == CASE size = 1 -> 4 [] size \in {2, 4} -> size [] OTHER -> 8

(* insertNewGEP: ty = [dim n x ... [dim 1 x element]], indices in reverse. *)
insertNewGEP ==
  /\ pc = "insert"
  /\ newGEP' = [dims |-> dimSize, base |-> baseAddr, idx |-> Reverse(index), size |-> EleSize(gep.size)]
  /\ pc' = "done"
  /\ UNCHANGED <<gep, values, baseAddr, dimSize, index>>

Finished == pc \in {"done", "assert"} /\ UNCHANGED vars

Next == WalkIntToPtr \/ WalkBinary \/ WalkExt \/ WalkLoad \/ Analyse \/ insertNewGEP \/ Finished

Spec == Init /\ [][Next]_vars /\ WF_vars(Next)
-----------------------------------------------------------------------------
(* What the expressions and the GEPs mean, for values of the variables.    *)

RECURSIVE ValueOf(_, _)
ValueOf(e, env) ==
  CASE e[1] = "const" -> e[2]
    [] e[1] = "add" -> ValueOf(e[2], env) + ValueOf(e[3], env)
    [] e[1] = "mul" -> ValueOf(e[2], env) * ValueOf(e[3], env)
    [] OTHER -> env[e[2]]

OldAddress(env) == ValueOf(gep.itp[2], env) + ValueOf(gep.low, env) * gep.size

(* getelementptr ty, base, i1, ..., in: i1 steps over whole ty's.          *)
NewAddress(env) ==
  LET n == Len(newGEP.idx)
      bytes[d \in 0 .. n] == IF d = 0 THEN newGEP.size ELSE IF d = n THEN 0 ELSE bytes[d - 1] * newGEP.dims[d]
      at[j \in 0 .. n] == IF j = 0 THEN ValueOf(newGEP.base, env)
                          ELSE at[j - 1] + ValueOf(newGEP.idx[j], env) * bytes[n - j]
  IN at[n]

(* The restored access is to the same address (insertNewGEP): for every    *)
(* value of the indices and the base, the new getelementptr computes what  *)
(* the guest's arithmetic did, and the analysis understands every address  *)
(* of this form.                                                           *)
RestoredRight ==
  /\ pc # "assert"
  /\ pc = "done" => \A env \in [{"i", "j", "k", "p"} -> Values] : OldAddress(env) = NewAddress(env)
=============================================================================
