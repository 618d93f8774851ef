------------------------------- MODULE OwlHeap -------------------------------
(***************************************************************************)
(* The memory of the Owl VM: owl_terms, the blocks they point to, the      *)
(* sizes the allocator and the collector give a block, and owl_alloc       *)
(* (vm/src/alloc.c, vm/src/term.h, vm/src/owl.h).                          *)
(*                                                                         *)
(* A half-space is a sequence of blocks in address order: slot k is the    *)
(* k-th block allocated since the half-space became to_space.  A block is  *)
(* what one owl_alloc, copy or bump_cpy carves off: one flag byte and      *)
(* `size' payload bytes.  allocPtr is vm->gc->alloc_ptr - vm->gc->to_space *)
(* in bytes, so byte counts, and only they, decide when memory runs out.   *)
(***************************************************************************)
EXTENDS Integers, Sequences

CONSTANTS HalfSize,  \* bytes in one half-space: vm->gc->size / 2
          LitLen,    \* LitLen[k] is strlen of the k-th string literal
          LastByte   \* what may lie behind the last block: {"zero"}, or
                     \* {"zero", "stale"} when the half-space was in use before

ASSUME HeapAssumption == /\ HalfSize \in Nat
                         /\ LitLen \in Seq(Nat)
                         /\ LastByte \subseteq {"zero", "stale"} /\ LastByte # {}

VARIABLES heap,      \* heap[s] is the sequence of blocks in half-space s
          toSpace,   \* the half-space the mutator allocates from
          allocPtr   \* bytes of it in use

-----------------------------------------------------------------------------
(* owl_terms *)

Low  == 0            \* the half-space at `mem'
High == 1            \* the half-space at `mem + size / 2'
Off  == 2            \* anything that is not in either: immediates, interned
                     \* strings, malloc'd Functions, EMPTY_RRB
Spaces == {Low, High}

\* NODE stands for the raw C pointers inside an RRB tree, which carry no tag.
Tags == {"POINTER", "INT", "TUPLE", "LIST", "STRING", "FUNCTION", "NODE"}

Term == [tag : Tags, space : Spaces \cup {Off}, slot : Nat]

Null         == [tag |-> "POINTER",  space |-> Off, slot |-> 0]
Immediate(i) == [tag |-> "INT",      space |-> Off, slot |-> i]
Nil          == [tag |-> "POINTER",  space |-> Off, slot |-> 6]
Literal(k)   == [tag |-> "STRING",   space |-> Off, slot |-> k]
Named(f)     == [tag |-> "FUNCTION", space |-> Off, slot |-> f]
EmptyList    == [tag |-> "LIST",     space |-> Off, slot |-> 0]

Ref(t, s, k) == [tag |-> t, space |-> s, slot |-> k]

-----------------------------------------------------------------------------
(* Blocks.  kids are the owl_terms (or node pointers) the payload holds:   *)
(*   TUPLE     its elements                 FUNCTION  its upvalues         *)
(*   RRB       << root, tail >>             LEAF      its elements         *)
(*   INTERNAL  its children, then its size_table (or Null)                 *)
(*   TABLE     the cumulated sizes, as immediates                          *)
(*   STRING    the literals the text was put together from                 *)
(* len is the number of characters of a STRING; fwd is the forward flag    *)
(* and address: 0 when the flag is clear.                                  *)

Kinds == {"TUPLE", "FUNCTION", "STRING", "RRB", "LEAF", "INTERNAL", "TABLE"}

Block == [kind : Kinds, kids : Seq(Term), len : Nat, size : Nat, fwd : Nat]

align(n) == IF n % 8 = 0 THEN n ELSE n + (8 - (n % 8))

\* What the allocating code asks owl_alloc for.
BytesOf(kind, kids, len) ==
  CASE kind = "TUPLE"    -> 8 * (Len(kids) + 1)
    [] kind = "FUNCTION" -> 24 + 8 * Len(kids)
    [] kind = "STRING"   -> len + 1
    [] kind = "RRB"      -> 32
    [] kind = "LEAF"     -> 16 + 8 * Len(kids)
    [] kind = "INTERNAL" -> 24 + 8 * (Len(kids) - 1)
    [] kind = "TABLE"    -> 8 + 4 * Len(kids)

NewBlock(kind, kids, len) ==
  [kind |-> kind, kids |-> kids, len |-> len,
   size |-> align(BytesOf(kind, kids, len)), fwd |-> 0]

\* What copy takes a term to occupy.  A string's size leaves out its NUL.
heap_size_of(kind, kids, len) ==
  CASE kind = "STRING" -> align(len)
    [] kind = "RRB"    -> align(32)
    [] OTHER           -> align(BytesOf(kind, kids, len))

-----------------------------------------------------------------------------
(* Reading a C string: strlen stops at the first zero byte.  A block with  *)
(* no byte to spare after its text is followed by the flag byte of the     *)
(* next block; when that one is set the text goes on with it and the six   *)
(* low bytes of the forward address, and behind the last block lies        *)
(* whatever the half-space held before (LastByte).                         *)

Junk    == Literal(0)
JunkLen == 7

Text(k, l) == [kids |-> k, len |-> l]

CString(t) ==
  IF t.space = Off THEN {Text(<<t>>, LitLen[t.slot])}
  ELSE LET b       == heap[t.space][t.slot]
           asBuilt == Text(b.kids, b.len)
           overrun == Text(Append(b.kids, Junk), b.len + JunkLen)
       IN  IF b.size > b.len THEN {asBuilt}
           ELSE IF t.slot = Len(heap[t.space])
           THEN {IF l = "zero" THEN asBuilt ELSE overrun : l \in LastByte}
           ELSE IF heap[t.space][t.slot + 1].fwd = 0 THEN {asBuilt}
           ELSE {overrun}

-----------------------------------------------------------------------------
(* owl_alloc, for the blocks one operation allocates one after the other.  *)

BlockSize(b) == b.size + 1

Bytes(bs) == CASE Len(bs) = 1 -> BlockSize(bs[1])
               [] Len(bs) = 2 -> BlockSize(bs[1]) + BlockSize(bs[2])
               [] OTHER -> BlockSize(bs[1]) + BlockSize(bs[2]) + BlockSize(bs[3])

\* Bug: the size of the new block is left out.
FitsWithoutBlock(n) == allocPtr <= HalfSize

\* gc_check_overlflow passes
Fits(n) == allocPtr + n <= HalfSize

\* The term for the k-th block of the next allocation.
Fresh(tag, k) == Ref(tag, toSpace, Len(heap[toSpace]) + k)

owl_alloc(bs) == /\ heap' = [heap EXCEPT ![toSpace] = @ \o bs]
                 /\ allocPtr' = allocPtr + Bytes(bs)
                 /\ UNCHANGED toSpace

HeapTypeOK == /\ heap \in [Spaces -> Seq(Block)]
              /\ toSpace \in Spaces
              /\ allocPtr \in Nat
=============================================================================
