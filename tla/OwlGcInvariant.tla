---------------------------- MODULE OwlGcInvariant ----------------------------
(***************************************************************************)
(* What holds between the steps of a collection, stated of a heap h whose  *)
(* to_space is T, a stack of activations cs, registers regs of the frames  *)
(* 0 .. cf, and the loop counters sc of gc_collect.  Blocks are named by   *)
(* their half-space s and slot k.                                          *)
(*                                                                         *)
(* The colours of a tracing collector are places here.  An original that   *)
(* no copy_list_node is in refers to originals (white), a copy that no     *)
(* copy is in refers to copies (black), and a block an activation is in    *)
(* refers to copies below the child its loop is at and to originals from   *)
(* there on (grey): in to_space if copy is in it, in from_space if         *)
(* copy_list_node is.  The registers are grey at sc.                       *)
(*                                                                         *)
(* Blocks do not refer to themselves through others: every block has a     *)
(* rank above those it refers to, and a copy has the rank of its original. *)
(* Without it copy_list_node could be in the same node twice.              *)
(***************************************************************************)
EXTENDS OwlVm

(* Texts *)

\* The programs in whose memory every text has room for its NUL (alloc.c:61): they
\* make none whose length is a multiple of eight.
TextsFit == \A n \in TextLengths : n % 8 # 0

-----------------------------------------------------------------------------
(* The parts of a heap, a stack of activations, registers, ranks *)

Heaps == [Spaces -> Seq(Block)]
Ranks == [Spaces -> [Nat -> Nat]]

Other(s)        == 1 - s
Count(h, s)     == Len(h[s])
Kind(h, s, k)   == h[s][k].kind
Arity(h, s, k)  == Len(h[s][k].kids)
Kid(h, s, k, n) == h[s][k].kids[n]
Chars(h, s, k)  == h[s][k].len
Size(h, s, k)   == h[s][k].size
Fwd(h, s, k)    == h[s][k].fwd
Loop(h, s, k)   == Visits(h[s][k])

Depth(cs)   == Len(cs)
Fn(cs, i)   == cs[i].fn
Old(cs, i)  == cs[i].old
New(cs, i)  == cs[i].new
Child(cs, i) == cs[i].next

\* The block activation i visits and updates the children of.
HomeSpace(T, cs, i) == IF Fn(cs, i) = "copy" THEN T ELSE Other(T)
HomeSlot(cs, i)     == IF Fn(cs, i) = "copy" THEN New(cs, i) ELSE Old(cs, i)

Reg(regs, i, j)  == regs[i][j]
Rank(rank, s, k) == rank[s][k]

-----------------------------------------------------------------------------
(* References *)

\* A value that is not in a half-space.
OffValue(t) == /\ t \in Term
               /\ t.space = Off
               /\ t.tag \notin {"TUPLE", "NODE"}
               /\ t.tag = "STRING" => t.slot \in DOMAIN LitLen

\* One of the texts a text was put together from, or what strlen took for one.
OffText(t) == /\ t \in Term
              /\ t.space = Off
              /\ TextsFit => OffValue(t)

RefersTo(h, t, s) == /\ t \in Term
                     /\ t.space = s
                     /\ t.slot \in 1 .. Count(h, s)
                     /\ t.tag = TagOf(Kind(h, s, t.slot))

ValueIn(h, t, s) == OffValue(t) \/ (RefersTo(h, t, s) /\ t.tag # "NODE")
NodeIn(h, t, s)  == RefersTo(h, t, s) /\ t.tag = "NODE"

\* t can be the n-th of m children of a block of that kind, if they are in s.
Suits(h, kind, m, n, t, s) ==
  /\ kind \in {"TUPLE", "FUNCTION", "LEAF"} => ValueIn(h, t, s)
  /\ kind = "STRING" => OffText(t)
  /\ kind = "RRB" => \/ NodeIn(h, t, s) /\ (n = 2 => Kind(h, s, t.slot) = "LEAF")
                     \/ n = 1 /\ t = Null
  /\ kind = "INTERNAL" => IF n = m THEN t = Null
                          ELSE NodeIn(h, t, s) /\ Kind(h, s, t.slot) = "LEAF"

\* The children of block k of half-space s are in x.
Whole(h, s, k, x) ==
  \A n \in 1 .. Arity(h, s, k) : Suits(h, Kind(h, s, k), Arity(h, s, k), n, Kid(h, s, k, n), x)

\* Those before the m-th are in T, the others are not yet.
Split(h, T, s, k, m) ==
  \A n \in 1 .. Arity(h, s, k) :
    Suits(h, Kind(h, s, k), Arity(h, s, k), n, Kid(h, s, k, n), IF n < m THEN T ELSE Other(T))

\* The VM proper builds no size tables, and no internal nodes but those of two
\* leaves.  A block is at least as large as its copy will be, unless a text there
\* has no room for its NUL.
BlockOK(kind, arity, chars, size) ==
  /\ kind # "TABLE"
  /\ kind = "RRB" => arity = 2 /\ size >= 32
  /\ kind = "INTERNAL" => arity = 3 /\ size >= 24 + 8 * (arity - 1)
  /\ kind = "STRING" => /\ chars > 0
                        /\ TextsFit => chars % 8 # 0 /\ size >= align(chars)
  /\ kind = "LEAF" => size >= 16 + 8 * arity
  /\ kind = "TUPLE" => size >= 8 * (arity + 1)
  /\ kind = "FUNCTION" => size >= 24 + 8 * arity

BlocksOK(h) ==
  \A s \in Spaces : \A k \in 1 .. Count(h, s) :
    BlockOK(Kind(h, s, k), Arity(h, s, k), Chars(h, s, k), Size(h, s, k))

-----------------------------------------------------------------------------
(* Activations *)

CopyAt(cs, k) == \E i \in 1 .. Depth(cs) : Fn(cs, i) = "copy" /\ New(cs, i) = k
NodeAt(cs, k) == \E i \in 1 .. Depth(cs) : Fn(cs, i) = "copy_list_node" /\ Old(cs, i) = k

\* The term the caller of activation i + 1 is replacing.
OperandAt(h, T, cs, regs, sc, i) ==
  IF i = 0 THEN Reg(regs, sc.i, sc.j)
  ELSE Kid(h, HomeSpace(T, cs, i), HomeSlot(cs, i), Child(cs, i))

ActivationOK(h, T, cs, i) ==
  /\ Old(cs, i) \in 1 .. Count(h, Other(T))
  /\ Fwd(h, Other(T), Old(cs, i)) = 0
  /\ Fn(cs, i) = "copy" =>
       /\ New(cs, i) \in 1 .. Count(h, T)
       /\ Kind(h, T, New(cs, i)) = Kind(h, Other(T), Old(cs, i))
       /\ Kind(h, T, New(cs, i)) \in {"TUPLE", "FUNCTION", "STRING", "RRB"}
  /\ Fn(cs, i) = "copy_list_node" => Kind(h, Other(T), Old(cs, i)) \in {"LEAF", "INTERNAL"}
  /\ 1 <= Child(cs, i)
  /\ Child(cs, i) <= Loop(h, HomeSpace(T, cs, i), HomeSlot(cs, i)) + 1

\* Activation i is in its loop, and is for the term its caller is replacing.
StackOK(h, T, cs, regs, sc) ==
  \A i \in 1 .. Depth(cs) :
    /\ ActivationOK(h, T, cs, i)
    /\ i < Depth(cs) => Child(cs, i) <= Loop(h, HomeSpace(T, cs, i), HomeSlot(cs, i))
    /\ OperandAt(h, T, cs, regs, sc, i - 1).space = Other(T)
    /\ OperandAt(h, T, cs, regs, sc, i - 1).slot = Old(cs, i)

-----------------------------------------------------------------------------
(* Colours *)

Scanned(sc, i, j) == i < sc.i \/ (i = sc.i /\ j < sc.j)

RegistersOK(h, T, regs, sc, cf) ==
  \A i \in 0 .. cf, j \in Regs :
    ValueIn(h, Reg(regs, i, j), IF Scanned(sc, i, j) THEN T ELSE Other(T))

WhiteOK(h, T, cs) ==
  \A k \in 1 .. Count(h, Other(T)) :
    Fwd(h, Other(T), k) = 0 /\ ~NodeAt(cs, k) => Whole(h, Other(T), k, Other(T))

GreyOK(h, T, cs) ==
  \A i \in 1 .. Depth(cs) :
    Split(h, T, HomeSpace(T, cs, i), HomeSlot(cs, i), Child(cs, i))

BlackOK(h, T, cs) ==
  \A k \in 1 .. Count(h, T) :
    /\ Fwd(h, T, k) = 0
    /\ ~CopyAt(cs, k) => Whole(h, T, k, T)

\* What is forwarded leads to a finished copy of its own.
MovedOK(h, T, cs) ==
  \A k \in 1 .. Count(h, Other(T)) :
    Fwd(h, Other(T), k) # 0 =>
      /\ Fwd(h, Other(T), k) \in 1 .. Count(h, T)
      /\ Kind(h, T, Fwd(h, Other(T), k)) = Kind(h, Other(T), k)
      /\ ~CopyAt(cs, Fwd(h, Other(T), k))
      /\ \A l \in 1 .. Count(h, Other(T)) : Fwd(h, Other(T), l) = Fwd(h, Other(T), k) => l = k

\* Two activations of copy are in different copies.
CopiesApart(cs) ==
  \A i, j \in 1 .. Depth(cs) :
    Fn(cs, i) = "copy" /\ Fn(cs, j) = "copy" /\ New(cs, i) = New(cs, j) => i = j

-----------------------------------------------------------------------------
(* Ranks *)

RankedBlocks(h, T, rank) ==
  \A s \in Spaces : \A k \in 1 .. Count(h, s) : s = T \/ Fwd(h, s, k) = 0 =>
    \A n \in 1 .. Arity(h, s, k) : Kid(h, s, k, n).space # Off =>
      Rank(rank, Kid(h, s, k, n).space, Kid(h, s, k, n).slot) < Rank(rank, s, k)

RankedCopies(h, T, cs, rank) ==
  /\ \A k \in 1 .. Count(h, Other(T)) :
       Fwd(h, Other(T), k) # 0 => Rank(rank, T, Fwd(h, Other(T), k)) = Rank(rank, Other(T), k)
  /\ \A i \in 1 .. Depth(cs) :
       Fn(cs, i) = "copy" => Rank(rank, T, New(cs, i)) = Rank(rank, Other(T), Old(cs, i))

\* An activation is for a block of lower rank than those of its callers.
RankedCalls(T, cs, rank) ==
  \A i, j \in 1 .. Depth(cs) :
    i < j => Rank(rank, Other(T), Old(cs, j)) < Rank(rank, Other(T), Old(cs, i))

\* There are ranks above all of those in use.
RanksBounded(h, rank) ==
  \E r \in Nat : \A s \in Spaces : \A k \in 1 .. Count(h, s) : Rank(rank, s, k) < r

-----------------------------------------------------------------------------
Typed(h, T, cs, regs, sc, cf, rank) ==
  /\ h \in Heaps
  /\ T \in Spaces
  /\ cs \in Seq(Activation)
  /\ regs \in [Frames -> [Regs -> Term]]
  /\ sc \in [i : Nat, j : Regs]
  /\ cf \in Frames
  /\ rank \in Ranks
  /\ cs # <<>> => sc.i <= cf

Collecting(h, T, cs, regs, sc, cf, rank) ==
  /\ Typed(h, T, cs, regs, sc, cf, rank)
  /\ BlocksOK(h)
  /\ RegistersOK(h, T, regs, sc, cf)
  /\ WhiteOK(h, T, cs)
  /\ GreyOK(h, T, cs)
  /\ BlackOK(h, T, cs)
  /\ MovedOK(h, T, cs)
  /\ StackOK(h, T, cs, regs, sc)
  /\ CopiesApart(cs)
  /\ RankedBlocks(h, T, rank)
  /\ RankedCopies(h, T, cs, rank)
  /\ RankedCalls(T, cs, rank)
  /\ RanksBounded(h, rank)

-----------------------------------------------------------------------------
(* What was copied so far is referred to, or is about to be. *)

RefersToCopy(h, s, l, T, k) ==
  \E n \in 1 .. Arity(h, s, l) : Kid(h, s, l, n).space = T /\ Kid(h, s, l, n).slot = k

Reached(h, T, cs, regs, cf, k) ==
  \/ \E i \in 0 .. cf, j \in Regs : Reg(regs, i, j).space = T /\ Reg(regs, i, j).slot = k
  \/ \E l \in 1 .. Count(h, T) : RefersToCopy(h, T, l, T, k)
  \/ \E i \in 1 .. Depth(cs) : /\ Fn(cs, i) = "copy_list_node"
                               /\ RefersToCopy(h, Other(T), Old(cs, i), T, k)
  \/ CopyAt(cs, k)

AllReached(h, T, cs, regs, cf) == \A k \in 1 .. Count(h, T) : Reached(h, T, cs, regs, cf, k)

-----------------------------------------------------------------------------
(* What is still to be copied fits behind what was copied so far, within   *)
(* what was in use before, unless texts grow when they are copied.         *)

\* The first c values of w add up to n: off has what the first k add up to.
Total(w, c, n) ==
  \E off \in [Nat -> Nat] :
    /\ off[0] = 0
    /\ \A k \in 1 .. c : off[k] = off[k - 1] + w[k]
    /\ \A i, j \in 0 .. c : i <= j => off[i] <= off[j]
    /\ off[c] = n

\* The bytes of the blocks of half-space s, flag bytes included.
Taken(h, s) == [k \in Nat |-> IF k \in 1 .. Count(h, s) THEN Size(h, s, k) + 1 ELSE 0]

InCopy(cs, k) == \E i \in 1 .. Depth(cs) : Fn(cs, i) = "copy" /\ Old(cs, i) = k

\* Of the originals, those of which there is no copy yet.
Owed(h, T, cs) ==
  [k \in Nat |-> IF k \in 1 .. Count(h, Other(T)) /\ Fwd(h, Other(T), k) = 0 /\ ~InCopy(cs, k)
                 THEN Size(h, Other(T), k) + 1 ELSE 0]

Accounts(h, T, cs, ptr, limit) ==
  /\ ptr \in Nat
  /\ Total(Taken(h, T), Count(h, T), ptr)
  /\ TextsFit =>
       /\ limit \in Nat /\ limit <= HalfSize
       /\ \E n \in Nat : Total(Owed(h, T, cs), Count(h, Other(T)), n) /\ ptr + n <= limit

\* What op_gc_collect found in use, or else what there is.
Limit == IF pending.op = "gc_collect" THEN pending.before ELSE HalfSize

-----------------------------------------------------------------------------
\* Between two steps of a collection.
CollectInv ==
  /\ \E rank : Collecting(heap, toSpace, calls, registers, scan, currentFrame, rank)
  /\ AllReached(heap, toSpace, calls, registers, currentFrame)
  /\ Accounts(heap, toSpace, calls, allocPtr, Limit)
=============================================================================
