----------------------------- MODULE OwlVmInvariant -----------------------------
(***************************************************************************)
(* What holds between the steps of the VM.  While the collector works it   *)
(* is OwlGcInvariant!CollectInv; otherwise nothing refers out of to_space, *)
(* and what the VM holds on to besides the registers (the function that    *)
(* runs, the list in the making) is there as well.                         *)
(***************************************************************************)
EXTENDS OwlGcInvariant

\* The programs the theorems are about.  They do not read the upvalues of a closure
\* after a call or a collection, since vm->current_function is not a root
\* (opcodes.c:37-45, alloc.c:198-209), and make no empty text, since copy takes a
\* text of size 0 not to be on the heap (alloc.c:169-172).
WithinLimits == ClosureReads = "fresh" /\ 0 \notin TextLengths

\* Half-space T of the heap h when no collection goes on: ptr bytes are in use,
\* and all references are to blocks of T, of lower rank.
Resting(h, T, ptr, rank) ==
  /\ h \in Heaps /\ T \in Spaces /\ rank \in Ranks
  /\ Count(h, Other(T)) = 0
  /\ \A k \in 1 .. Count(h, T) :
       /\ BlockOK(Kind(h, T, k), Arity(h, T, k), Chars(h, T, k), Size(h, T, k))
       /\ Fwd(h, T, k) = 0
       /\ Whole(h, T, k, T)
       /\ \A n \in 1 .. Arity(h, T, k) : Kid(h, T, k, n).space # Off =>
            Rank(rank, T, Kid(h, T, k, n).slot) < Rank(rank, T, k)
  /\ \E r \in Nat : \A k \in 1 .. Count(h, T) : Rank(rank, T, k) < r
  /\ Total(Taken(h, T), Count(h, T), ptr)
  /\ ptr \in Nat
  /\ TextsFit => ptr <= HalfSize

\* The registers of the frames in use.
RegistersIn(h, T, regs, cf) == \A i \in 0 .. cf, j \in Regs : ValueIn(h, Reg(regs, i, j), T)

\* The function that runs, with the upvalues its code captures.
ClosureIn(h, T, fun, upvals) ==
  /\ ValueIn(h, fun, T)
  /\ upvals > 0 => /\ RefersTo(h, fun, T)
                   /\ fun.tag = "FUNCTION"
                   /\ Arity(h, T, fun.slot) = upvals

\* The list in the making, and what is still to be pushed onto it.
ListIn(h, T, list) == list = EmptyList \/ (RefersTo(h, list, T) /\ list.tag = "LIST")

\* How many more elements it may get: a full tail becomes the root, and with the
\* next one the only internal node, and there is no third.
Room(h, T, root, len) ==
  Branching - len + (IF root = Null THEN 2 * Branching
                     ELSE IF root.slot \in 1 .. Count(h, T) /\ Kind(h, T, root.slot) = "LEAF"
                     THEN Branching ELSE 0)

ListRoom(h, T, list) ==
  IF list = EmptyList THEN 3 * Branching
  ELSE Room(h, T, Kid(h, T, list.slot, 1), Arity(h, T, Kid(h, T, list.slot, 2).slot))

ValuesIn(h, T, q) == \A k \in 1 .. Len(q) : ValueIn(h, q[k], T)

\* The names owl_file_ls has still to make texts of.
EntriesOK(p) ==
  p.op = "file_ls" => \A k \in 1 .. Len(p.todo) : p.todo[k].space = Off =>
    p.todo[k].tag = "STRING" /\ LitLen[p.todo[k].slot] \in TextLengths

VmTypeOK == /\ frames \in [Frames -> Link]
            /\ currentFunction \in Term
            /\ fresh \in BOOLEAN
            /\ pending \in Pending
            /\ loaded \subseteq Functions

Mutating == /\ \E rank : Resting(heap, toSpace, allocPtr, rank)
            /\ registers \in [Frames -> [Regs -> Term]]
            /\ RegistersIn(heap, toSpace, registers, currentFrame)
            /\ calls = <<>>

ClosureOK == fresh => ClosureIn(heap, toSpace, currentFunction, frames[currentFrame].upvals)

PendingOK ==
  /\ status \in {"boot", "run", "load", "collect"} => pending.list = EmptyList
  /\ status = "push" => /\ ListIn(heap, toSpace, pending.list)
                        /\ ValuesIn(heap, toSpace, pending.todo)
                        /\ Len(pending.todo) <= ListRoom(heap, toSpace, pending.list)
  /\ Len(pending.args) <= MaxArgs
  /\ EntriesOK(pending)
  /\ status = "load" => pending.op # "file_ls"

HeapInv == /\ VmTypeOK
           /\ \/ status = "collect" /\ CollectInv /\ ~fresh
              \/ status # "collect" /\ Mutating
              \/ status = "die" /\ ~TextsFit /\ CollectInv
           /\ ClosureOK
           /\ PendingOK
=============================================================================
